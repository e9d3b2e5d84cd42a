----------------------------- MODULE Compression -----------------------------
(***************************************************************************)
(* The functions of Compression.cs, forwarded by src/rs/src/compression.rs *)
(* to the codecs of Blosc, and their callers as CompressionTests.cs has    *)
(* them: memory the caller allocates, lengths it keeps in ints, results it *)
(* passes on without looking (CompressionTests.cs:98-101, 131).            *)
(*                                                                         *)
(* What is in a buffer is the sequence of the layers put on one after the  *)
(* other: the data, then each compression or shuffle with the bytes it     *)
(* left.  The empty sequence is bytes nothing is known of.  "contents" is  *)
(* what the native functions wrote, "expected" what the names of the       *)
(* functions called and their results let a caller expect.                 *)
(***************************************************************************)
EXTENDS Integers, Sequences

CONSTANTS
  Buffers,    \* the caller's memory
  Capacity,   \* Capacity[b]: the bytes of buffer b
  Data,       \* what a caller may write into a buffer
  TypeSizes,  \* item sizes passed to shuffle and unshuffle
  UsedCodecs, \* the codecs the callers use
  SizeSpan,   \* 2^64: how many values a usize has
  Failures,   \* the ints a codec returns when it fails
  MaxLayers   \* bound: layers on one buffer

Codecs == {"lz4", "zstd", "zlib", "deflate", "gzip"}

ASSUME CompressionAssumption ==
  /\ Capacity \in [Buffers -> Nat]
  /\ UsedCodecs \subseteq Codecs
  /\ TypeSizes \intersect Codecs = {}
  /\ SizeSpan \in Nat
  /\ Failures \subseteq {n \in Int : n <= 0} /\ 0 \in Failures
  /\ \A b \in Buffers, n \in Failures : Capacity[b] < n + SizeSpan
  /\ MaxLayers \in Nat \ {0}

VARIABLES
  contents,  \* contents[b]: the layers on the bytes in b
  expected,  \* expected[b]: the layers b's user expects
  length,    \* length[b]: the int b's user has for the bytes in b
  outside    \* the lengths given to calls that were told to leave a buffer

vars == <<contents, expected, length, outside>>

Layers == [by : Data \union Codecs \union TypeSizes, size : Nat \ {0}]
Unknown == <<>>

Top(t) == t[Len(t)]
Below(t) == SubSeq(t, 1, Len(t) - 1)

Init ==
  /\ contents = [b \in Buffers |-> Unknown]
  /\ expected = [b \in Buffers |-> Unknown]
  /\ length = [b \in Buffers |-> 0]
  /\ outside = {}

------------------------------------------------------------------------------
(* Crossing to native code.  An int becomes an IntPtr, sign extended, and  *)
(* that a usize: a negative length becomes a huge one.                     *)
AsSize(n) == IF n < 0 THEN n + SizeSpan ELSE n

(* The lengths in the order in which the codec gets them.  Mutant: the     *)
(* room for the output is passed as the length of the input.               *)
ForwardedSwapped(n, room) == [input |-> AsSize(room), room |-> AsSize(n)]
Forwarded(n, room) == [input |-> AsSize(n), room |-> AsSize(room)]

(* The native function behind each of the ten functions.                   *)
(* Mutant: compress_gzip forwards to the function before it.               *)
NativeCodecNeighbour ==
  [compress   |-> [lz4 |-> "lz4", zstd |-> "zstd", zlib |-> "zlib",
                   deflate |-> "deflate", gzip |-> "deflate"],
   decompress |-> [lz4 |-> "lz4", zstd |-> "zstd", zlib |-> "zlib",
                   deflate |-> "deflate", gzip |-> "gzip"]]
NativeCodec ==
  [compress   |-> [lz4 |-> "lz4", zstd |-> "zstd", zlib |-> "zlib",
                   deflate |-> "deflate", gzip |-> "gzip"],
   decompress |-> [lz4 |-> "lz4", zstd |-> "zstd", zlib |-> "zlib",
                   deflate |-> "deflate", gzip |-> "gzip"]]

------------------------------------------------------------------------------
(* The native functions: the outcomes a call may have, each what is then   *)
(* in the destination and the int returned.                                *)

(* The bytes given are exactly those of what buffer b holds.               *)
Whole(b, input) == contents[b] # Unknown /\ input = Top(contents[b]).size

(* A codec that fails has written nothing or anything.                     *)
Failing(dst) == [text : {contents[dst], Unknown}, result : Failures]

(* Bytes it was not made for: refused, or turned into anything that fits.  *)
Blind(room) == [text : {Unknown}, result : 1..room]

Packed(f, src, a) ==
  IF Whole(src, a.input)
  THEN {[text |-> Append(contents[src], [by |-> f, size |-> n]), result |-> n] : n \in 1..a.room}
  ELSE Blind(a.room)

Unpacked(f, src, a) ==
  IF Whole(src, a.input) /\ Len(contents[src]) > 1 /\ Top(contents[src]).by = f
  THEN {[text |-> t, result |-> Top(t).size] :
          t \in {u \in {Below(contents[src])} : Top(u).size <= a.room}}
  ELSE Blind(a.room)

(* blosc_internal_shuffle and its inverse, which write as many bytes as    *)
(* they read.                                                              *)
NativeShuffle(k, src, n) ==
  IF Whole(src, n) THEN Append(contents[src], [by |-> k, size |-> n]) ELSE Unknown
NativeUnshuffle(k, src, n) ==
  IF /\ Whole(src, n) /\ Len(contents[src]) > 1 /\ Top(contents[src]).by = k
     /\ Top(Below(contents[src])).size = n
  THEN Below(contents[src]) ELSE Unknown

------------------------------------------------------------------------------
(* What the caller makes of a call that returned n.                        *)
Added(src, by, n) ==
  IF expected[src] # Unknown /\ n > 0
  THEN Append(expected[src], [by |-> by, size |-> n]) ELSE Unknown

(* It compares the result with the length before compression: see          *)
(* CompressionTests.cs:105.                                                *)
Removed(src, by, n) ==
  IF Len(expected[src]) > 1 /\ Top(expected[src]).by = by /\ Top(Below(expected[src])).size = n
  THEN Below(expected[src]) ELSE Unknown

Receives(dst, text, expectation, n) ==
  /\ contents' = [contents EXCEPT ![dst] = text]
  /\ expected' = [expected EXCEPT ![dst] = expectation]
  /\ length' = [length EXCEPT ![dst] = n]

Touches(src, dst, reads, writes) ==
  outside' = IF reads <= Capacity[src] /\ writes <= Capacity[dst]
             THEN outside ELSE outside \union {length[src]}

------------------------------------------------------------------------------
Write(b, d, n) ==
  /\ Receives(b, <<[by |-> d, size |-> n]>>, <<[by |-> d, size |-> n]>>, n)
  /\ UNCHANGED outside

Compress(c, src, dst, room) ==
  LET a == Forwarded(length[src], room) IN
  /\ src # dst /\ Len(contents[src]) < MaxLayers
  /\ Touches(src, dst, a.input, a.room)
  /\ \E r \in Packed(NativeCodec.compress[c], src, a) \union Failing(dst) :
       Receives(dst, r.text, Added(src, c, r.result), r.result)

Decompress(c, src, dst, room) ==
  LET a == Forwarded(length[src], room) IN
  /\ src # dst
  /\ Touches(src, dst, a.input, a.room)
  /\ \E r \in Unpacked(NativeCodec.decompress[c], src, a) \union Failing(dst) :
       Receives(dst, r.text, Removed(src, c, r.result), r.result)

Shuffle(k, src, dst) ==
  LET n == AsSize(length[src]) IN
  /\ src # dst /\ length[src] <= Capacity[dst] /\ Len(contents[src]) < MaxLayers
  /\ Touches(src, dst, n, n)
  /\ Receives(dst, NativeShuffle(k, src, n), Added(src, k, length[src]), length[src])

Unshuffle(k, src, dst) ==
  LET n == AsSize(length[src]) IN
  /\ src # dst /\ length[src] <= Capacity[dst]
  /\ Touches(src, dst, n, n)
  /\ Receives(dst, NativeUnshuffle(k, src, n), Removed(src, k, length[src]), length[src])

Next ==
  \/ \E b \in Buffers, d \in Data : \E n \in 1..Capacity[b] : Write(b, d, n)
  \/ \E src, dst \in Buffers :
       \/ \E c \in UsedCodecs, room \in 0..Capacity[dst] :
            Compress(c, src, dst, room) \/ Decompress(c, src, dst, room)
       \/ \E k \in TypeSizes : Shuffle(k, src, dst) \/ Unshuffle(k, src, dst)

Spec == Init /\ [][Next]_vars

------------------------------------------------------------------------------
(* Type correctness; what a buffer holds, and the length kept for it, fit. *)
TypeOK ==
  /\ contents \in [Buffers -> Seq(Layers)]
  /\ expected \in [Buffers -> Seq(Layers)]
  /\ length \in [Buffers -> Int]
  /\ outside \subseteq Int
  /\ \A b \in Buffers :
       /\ length[b] \in Failures \union 0..Capacity[b]
       /\ contents[b] # Unknown => Top(contents[b]).size <= Capacity[b]

(* Through any sequence of compressions, shuffles and their inverses, with *)
(* failures passed on and buffers used again, a buffer holds what the      *)
(* names of the functions and the results promise its user: what was       *)
(* compressed by a function is what the decompress function of that name   *)
(* gives back, and the length kept is that of the bytes.                   *)
AsExpected ==
  \A b \in Buffers :
    expected[b] # Unknown =>
      contents[b] = expected[b] /\ length[b] = Top(contents[b]).size

(* No call is told to read or write outside the memory of its caller,      *)
(* unless the caller passed on the negative result of a failed one.        *)
StaysInside == \A n \in outside : n < 0
=============================================================================
