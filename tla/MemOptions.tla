------------------------------ MODULE MemOptions ------------------------------
(***************************************************************************)
(* Mem.cs:31-55 and 286-316: the runtime options of the native allocator   *)
(* as .NET code sees them.                                                 *)
(*                                                                         *)
(* A .NET caller names an option with a member of Mem.Option; what crosses *)
(* the P/Invoke boundary is the member's number, a 32-bit int, and the     *)
(* Rust wrapper passes it on as a mi_option_t, whose enumerators have      *)
(* numbers of their own.  A value crosses as an int one way and is read as *)
(* a C long, so it meets a register whose upper half the caller does not   *)
(* define; the other way the long is read as an int.  A native bool is one *)
(* byte and is read as four (Mem.cs:288).  Widths are parameters: an int   *)
(* has IntSpan values, a long LongSpan.                                    *)
(***************************************************************************)
EXTENDS Integers, Sequences

CONSTANTS
  IntSpan,    \* 2^32 in the code
  LongSpan,   \* 2^64 on Linux and macOS, 2^32 on Windows
  Members,    \* the members of Mem.Option .NET code uses
  Arguments,  \* the ints it passes
  Unset       \* no value sent yet

ASSUME SpansAssumption ==
  /\ IntSpan \in Nat /\ IntSpan >= 4 /\ IntSpan % 2 = 0
  /\ LongSpan \in Nat /\ LongSpan % 2 = 0 /\ LongSpan >= IntSpan

(* The members of Mem.Option, numbered from 0 (OptionVerbose is Verbose    *)
(* here).  EagerPageCommit is another name of EagerCommit's number.        *)
DotNetOptions ==
  << "ShowErrors", "ShowStats", "Verbose", "EagerCommit", "EagerRegionCommit",
     "ResetDecommits", "LargeOsPages", "ReserveHugeOsPages", "SegmentCache",
     "PageReset", "AbandonedPageReset", "SegmentReset", "EagerCommitDelay",
     "ResetDelay", "UseNumaNodes", "OsTag", "MaxErrors", "Last" >>

(* The enumerators of mi_option_t, numbered from 0. *)
NativeOptions ==
  << "ShowErrors", "ShowStats", "Verbose", "EagerCommit", "EagerRegionCommit",
     "ResetDecommits", "LargeOsPages", "ReserveHugeOsPages", "ReserveOsMemory",
     "SegmentCache", "PageReset", "AbandonedPageReset", "SegmentReset",
     "EagerCommitDelay", "AllowDecommit", "ResetDelay", "SegmentDecommitDelay",
     "UseNumaNodes", "LimitOsAlloc", "OsTag", "MaxErrors", "MaxWarnings" >>

DotNetNames == {DotNetOptions[i] : i \in DOMAIN DotNetOptions}
NativeNames == {NativeOptions[i] : i \in DOMAIN NativeOptions}

ASSUME MembersAssumption == Members \subseteq DotNetNames

Ints == -(IntSpan \div 2) .. (IntSpan \div 2) - 1
Longs == -(LongSpan \div 2) .. (LongSpan \div 2) - 1

ASSUME ArgumentsAssumption == Arguments \subseteq Ints /\ Unset \notin Ints

VARIABLES
  value,  \* value[o]: what mimalloc holds for its option o, a long
  fixed,  \* the native options an explicit set has fixed
  sent,   \* sent[m]: the int .NET code believes in for member m
  chosen  \* the members .NET code has explicitly set

vars == <<value, fixed, sent, chosen>>

------------------------------------------------------------------------------
(* The native option a member reaches: the one that has its number.        *)
(* Mutant: from PageReset on, the members are numbered one too low.        *)
ReachedOneLow(m) ==
  LET i == CHOOSE j \in DOMAIN DotNetOptions : DotNetOptions[j] = m
  IN  NativeOptions[IF i > 9 THEN i - 1 ELSE i]
(* Mutant: the members are numbered from 1.                                *)
ReachedOneHigh(m) ==
  NativeOptions[1 + CHOOSE i \in DOMAIN DotNetOptions : DotNetOptions[i] = m]
Reached(m) ==
  NativeOptions[CHOOSE i \in DOMAIN DotNetOptions : DotNetOptions[i] = m]

(* A long read as an int: the lower half, sign and all. *)
Truncated(l) == ((l + IntSpan \div 2) % IntSpan) - (IntSpan \div 2)

(* An int read as a long: whatever is in the upper half, which is undefined. *)
(* Mutant: the int is read as an unsigned long.                            *)
WidenedUnsigned(v) == {v % LongSpan}
Widened(v) == {l \in Longs : Truncated(l) = v}

(* What .NET may read of a native bool: the other three bytes are          *)
(* undefined, and any byte that is not 0 makes it true.                    *)
BoolRead(b) == IF b THEN {TRUE} ELSE BOOLEAN

BoolToInt(enable) == IF enable THEN 1 ELSE 0

(* mi_option_set and mi_option_set_default: the latter yields to a set.    *)
(* (No MIMALLOC_* environment variable sets an option.)                    *)
NativeSet(o, l) ==
  /\ value' = [value EXCEPT ![o] = l]
  /\ fixed' = fixed \union {o}
NativeSetDefault(o, l) ==
  /\ value' = IF o \in fixed THEN value ELSE [value EXCEPT ![o] = l]
  /\ UNCHANGED fixed

Init ==
  /\ value = [o \in NativeNames |-> 0]
  /\ fixed = {}
  /\ sent = [m \in Members |-> Unset]
  /\ chosen = {}

(* What .NET code believes after a set and after a set of the default. *)
Chooses(m, v) ==
  /\ sent' = [sent EXCEPT ![m] = v]
  /\ chosen' = chosen \union {m}
Suggests(m, v) ==
  /\ sent' = IF m \in chosen THEN sent ELSE [sent EXCEPT ![m] = v]
  /\ UNCHANGED chosen

(* Mem.OptionSet *)
OptionSet(m, v) ==
  /\ \E l \in Widened(v) : NativeSet(Reached(m), l)
  /\ Chooses(m, v)

(* Mem.OptionSetDefault: it counts until the first OptionSet of m. *)
OptionSetDefault(m, v) ==
  /\ \E l \in Widened(v) : NativeSetDefault(Reached(m), l)
  /\ Suggests(m, v)

(* Mem.OptionEnable, OptionDisable and OptionSetEnabled; the native side   *)
(* stores its own long, so nothing is widened.                             *)
OptionSetEnabled(m, enable) ==
  /\ NativeSet(Reached(m), BoolToInt(enable))
  /\ Chooses(m, BoolToInt(enable))

(* Mem.OptionSetEnabledDefault *)
OptionSetEnabledDefault(m, enable) ==
  /\ NativeSetDefault(Reached(m), BoolToInt(enable))
  /\ Suggests(m, BoolToInt(enable))

(* Mem.OptionGet and OptionIsEnabled change nothing; of the latter, the    *)
(* answers it may give.                                                    *)
OptionGet(m) == Truncated(value[Reached(m)])
OptionIsEnabled(m) == BoolRead(value[Reached(m)] # 0)

Next ==
  \E m \in Members :
    \/ \E v \in Arguments : OptionSet(m, v) \/ OptionSetDefault(m, v)
    \/ \E enable \in BOOLEAN :
         OptionSetEnabled(m, enable) \/ OptionSetEnabledDefault(m, enable)

Spec == Init /\ [][Next]_vars
------------------------------------------------------------------------------
(* Type invariant. *)
TypeOK ==
  /\ value \in [NativeNames -> Longs]
  /\ fixed \subseteq NativeNames
  /\ sent \in [Members -> Ints \union {Unset}]
  /\ chosen \subseteq Members

(* Whatever other members are set, in whatever order explicit sets and     *)
(* defaults come, and whatever the upper half of the register held, .NET   *)
(* reads back the int it sent, and an option it set to anything but 0 is   *)
(* never reported as disabled.  The converse does not hold: an int of 0    *)
(* may arrive as a long that is not 0, and a native false may be read as   *)
(* true.                                                                   *)
ReadsBack ==
  \A m \in Members :
    sent[m] # Unset => /\ OptionGet(m) = sent[m]
                       /\ sent[m] # 0 => FALSE \notin OptionIsEnabled(m)

(* The members whose number is that of the native option of their name.    *)
Agreeing ==
  {DotNetOptions[i] :
     i \in {j \in DOMAIN DotNetOptions : DotNetOptions[j] = NativeOptions[j]}}

(* How far the renumbering reaches: what .NET code sent for one of those   *)
(* is in the long mimalloc goes by, and no set of a renumbered member      *)
(* spills into it.  ReadsBack cannot tell: a renumbered member reads back  *)
(* from the wrong option what it wrote there.                              *)
NamedOptionHolds ==
  \A m \in Members \intersect Agreeing :
    sent[m] # Unset => Truncated(value[m]) = sent[m]

(* What the members are named for (Mem.cs:31-55 against                    *)
(* mimalloc_wrapper.h:299-325): setting a member changes no native option  *)
(* but the one of its name.                                                *)
SetsNamedOption ==
  [][\A m \in Members, v \in Arguments :
       OptionSet(m, v) => \A o \in NativeNames \ {m} : value'[o] = value[o]]_vars

==============================================================================
