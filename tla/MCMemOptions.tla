---------------------------- MODULE MCMemOptions ----------------------------
(* A small instance of MemOptions for TLC. *)
EXTENDS MemOptions

(* One of the options whose numbers agree, and the two whose numbers moved *)
(* into each other's place.                                                *)
MCMembers == {"EagerCommit", "SegmentCache", "PageReset"}

(* Ints of 3 bits, longs of 5: four upper halves. *)
MCArguments == {-4, -1, 0, 3}

==============================================================================
