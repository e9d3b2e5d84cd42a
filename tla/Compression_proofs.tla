-------------------------- MODULE Compression_proofs --------------------------
(***************************************************************************)
(* Proofs about Compression, for any buffers, data, item sizes and lengths.*)
(* The three properties together are inductive: a length that was kept for *)
(* what a buffer is expected to hold is the length of what it holds, so a  *)
(* codec that gets it gets the whole of it.                                *)
(***************************************************************************)
EXTENDS Compression, TLAPS

IInv == TypeOK /\ AsExpected /\ StaysInside

(* What putting a layer on, and taking one off, makes of a buffer.         *)
LEMMA LayerAdded ==
  ASSUME NEW t \in Seq(Layers), NEW l \in Layers
  PROVE  Append(t, l) \in Seq(Layers) /\ Append(t, l) # Unknown /\ Top(Append(t, l)) = l
<1>1. Append(t, l) \in Seq(Layers) /\ Len(Append(t, l)) = Len(t) + 1
  OBVIOUS
<1>2. Append(t, l)[Len(t) + 1] = l
  OBVIOUS
<1>3. Append(t, l) # <<>>
  BY <1>1
<1> QED  BY <1>1, <1>2, <1>3 DEF Top, Unknown

LEMMA LayerTop ==
  ASSUME NEW t \in Seq(Layers), t # Unknown
  PROVE  Len(t) > 0 /\ Top(t) \in Layers /\ Top(t).size \in Nat \ {0}
<1>1. Len(t) \in Nat /\ Len(t) # 0
  BY DEF Unknown
<1>2. t[Len(t)] \in Layers
  BY <1>1
<1> QED  BY <1>1, <1>2 DEF Top, Layers

LEMMA LayerRemoved ==
  ASSUME NEW t \in Seq(Layers), Len(t) > 1
  PROVE  Below(t) \in Seq(Layers) /\ Below(t) # Unknown /\ t # Unknown
<1>1. Below(t) \in Seq(Layers) /\ Len(Below(t)) = Len(t) - 1
  BY DEF Below
<1>2. Below(t) # <<>> /\ t # <<>>
  BY <1>1
<1> QED  BY <1>1, <1>2 DEF Unknown

------------------------------------------------------------------------------
(* A length that is not negative crosses to native code unchanged.         *)
LEMMA SizeOfLength ==
  ASSUME NEW n \in Int, n >= 0
  PROVE  AsSize(n) = n
BY DEF AsSize

(* What is expected of a buffer is what a codec given its length reads.    *)
LEMMA ExpectedIsWhole ==
  ASSUME IInv, NEW src \in Buffers, expected[src] # Unknown
  PROVE  /\ contents[src] = expected[src] /\ contents[src] \in Seq(Layers)
         /\ length[src] = Top(contents[src]).size /\ length[src] \in Nat \ {0}
         /\ Whole(src, AsSize(length[src]))
<1>1. contents[src] = expected[src] /\ length[src] = Top(contents[src]).size
  BY DEF IInv, AsExpected
<1>2. contents[src] \in Seq(Layers)
  BY DEF IInv, TypeOK
<1>3. length[src] \in Nat \ {0}
  BY <1>1, <1>2, LayerTop
<1>4. AsSize(length[src]) = length[src]
  BY <1>3, SizeOfLength
<1> QED  BY <1>1, <1>2, <1>3, <1>4 DEF Whole

(* A length that is not negative is no more than the buffer holds.         *)
LEMMA LengthFits ==
  ASSUME TypeOK, NEW b \in Buffers
  PROVE  length[b] \in Int /\ length[b] <= Capacity[b] /\ Capacity[b] \in Nat
BY CompressionAssumption DEF TypeOK

(* A negative length is no length of what a buffer holds.                  *)
LEMMA WholeLength ==
  ASSUME TypeOK, NEW src \in Buffers, Whole(src, AsSize(length[src]))
  PROVE  /\ length[src] = AsSize(length[src]) /\ length[src] = Top(contents[src]).size
         /\ length[src] \in Nat \ {0}
<1>1. contents[src] \in Seq(Layers) /\ contents[src] # Unknown
  BY DEF TypeOK, Whole
<1>2. AsSize(length[src]) = Top(contents[src]).size /\ AsSize(length[src]) \in Nat \ {0}
  BY <1>1, LayerTop DEF Whole
<1>3. AsSize(length[src]) <= Capacity[src]
  BY <1>1, <1>2 DEF TypeOK
<1>4. length[src] \in Int /\ (length[src] < 0 => length[src] \in Failures)
  BY CompressionAssumption DEF TypeOK
<1>5. ~ (length[src] < 0)
  <2>1. SUFFICES ASSUME length[src] < 0  PROVE FALSE
    OBVIOUS
  <2>2. Capacity[src] < length[src] + SizeSpan /\ SizeSpan \in Nat /\ Capacity[src] \in Nat
    BY <1>4, <2>1, CompressionAssumption
  <2>3. AsSize(length[src]) = length[src] + SizeSpan
    BY <2>1 DEF AsSize
  <2> QED  BY <1>3, <1>4, <2>2, <2>3
<1>6. AsSize(length[src]) = length[src]
  BY <1>4, <1>5, SizeOfLength
<1> QED  BY <1>2, <1>6

(* What a call leaves behind, when it is what its caller expects.          *)
LEMMA ReceivesIInv ==
  ASSUME IInv, NEW dst \in Buffers,
         NEW text \in Seq(Layers), NEW expectation \in Seq(Layers),
         NEW n \in Failures \union 0..Capacity[dst],
         text # Unknown => Top(text).size <= Capacity[dst],
         expectation # Unknown => text = expectation /\ n = Top(text).size,
         Receives(dst, text, expectation, n),
         outside' \subseteq Int, StaysInside'
  PROVE  IInv'
<1>1. n \in Int
  BY CompressionAssumption
<1>2. TypeOK'
  BY <1>1 DEF IInv, TypeOK, Receives
<1>3. AsExpected'
  BY DEF IInv, TypeOK, AsExpected, Receives
<1> QED  BY <1>2, <1>3 DEF IInv

(* A call stays inside unless it was given a negative length.              *)
LEMMA TouchesInside ==
  ASSUME IInv, NEW src \in Buffers, NEW dst \in Buffers, NEW reads, NEW writes,
         length[src] >= 0 => reads <= Capacity[src] /\ writes <= Capacity[dst],
         Touches(src, dst, reads, writes)
  PROVE  outside' \subseteq Int /\ StaysInside'
<1>1. length[src] \in Int
  BY LengthFits DEF IInv
<1>2. \/ outside' = outside
      \/ outside' = outside \union {length[src]} /\ ~ (length[src] >= 0)
  BY DEF Touches
<1>3. outside \subseteq Int /\ \A n \in outside : n < 0
  BY DEF IInv, TypeOK, StaysInside
<1>4. length[src] < 0 \/ length[src] >= 0
  BY <1>1
<1>5. \A n \in outside' : n \in Int /\ n < 0
  BY <1>1, <1>2, <1>3, <1>4
<1> QED  BY <1>5 DEF StaysInside

------------------------------------------------------------------------------
(* A codec that fails leaves what fits, and a result no one expects.       *)
LEMMA FailingFits ==
  ASSUME TypeOK, NEW dst \in Buffers, NEW r \in Failing(dst)
  PROVE  /\ r.text \in Seq(Layers) /\ r.result \in Failures /\ r.result \in Int /\ r.result <= 0
         /\ r.text # Unknown => Top(r.text).size <= Capacity[dst]
<1>1. r.text \in {contents[dst], Unknown} /\ r.result \in Failures
  BY DEF Failing
<1>2. contents[dst] \in Seq(Layers) /\ Unknown \in Seq(Layers)
  BY DEF TypeOK, Unknown
<1> QED  BY <1>1, <1>2, CompressionAssumption DEF TypeOK

LEMMA BlindFits ==
  ASSUME NEW room \in Nat, NEW r \in Blind(room)
  PROVE  r.text = Unknown /\ r.text \in Seq(Layers) /\ r.result \in 1..room
<1>1. r.text = Unknown /\ r.result \in 1..room
  BY DEF Blind
<1>2. <<>> \in Seq(Layers)
  OBVIOUS
<1> QED  BY <1>1, <1>2 DEF Unknown

(* The functions forwarded to are those of the names.                      *)
LEMMA SameNames ==
  ASSUME NEW c \in Codecs
  PROVE  NativeCodec.compress[c] = c /\ NativeCodec.decompress[c] = c
BY DEF Codecs, NativeCodec

(* Every outcome of a compression fits, and is what its caller expects.    *)
LEMMA CompressOutcome ==
  ASSUME IInv, NEW c \in Codecs, NEW src \in Buffers, NEW dst \in Buffers,
         NEW room \in 0..Capacity[dst],
         NEW r \in Packed(NativeCodec.compress[c], src, Forwarded(length[src], room)) \union Failing(dst)
  PROVE  LET e == Added(src, c, r.result) IN
         /\ r.text \in Seq(Layers) /\ e \in Seq(Layers)
         /\ r.result \in Failures \union 0..Capacity[dst]
         /\ r.text # Unknown => Top(r.text).size <= Capacity[dst]
         /\ e # Unknown => r.text = e /\ r.result = Top(r.text).size
<1> DEFINE input == AsSize(length[src])
           layer(n) == [by |-> c, size |-> n]
<1>1. Capacity[dst] \in Nat /\ room \in Nat /\ room <= Capacity[dst]
  BY LengthFits DEF IInv
<1>2. Forwarded(length[src], room) = [input |-> input, room |-> room]
  BY <1>1, SizeOfLength DEF Forwarded
<1>3. contents[src] \in Seq(Layers) /\ expected[src] \in Seq(Layers) /\ <<>> \in Seq(Layers)
  BY DEF IInv, TypeOK
<1>4. \A n \in 1..room : layer(n) \in Layers /\ layer(n).size = n
  BY <1>1 DEF Layers
<1>5. CASE r \in Failing(dst)
  <2>1. Added(src, c, r.result) = Unknown
    BY <1>5, FailingFits DEF IInv, Added
  <2> QED  BY <1>3, <1>5, <2>1, FailingFits DEF IInv, Unknown
<1>6. CASE r \notin Failing(dst) /\ ~ Whole(src, input)
  <2>1. r \in Blind(room)
    BY <1>2, <1>6 DEF Packed
  <2>2. expected[src] = Unknown
    BY <1>6, ExpectedIsWhole
  <2>3. Added(src, c, r.result) = Unknown
    BY <2>2 DEF Added
  <2> QED  BY <1>1, <1>3, <2>1, <2>3, BlindFits DEF Unknown
<1>7. CASE r \notin Failing(dst) /\ Whole(src, input)
  <2>1. PICK n \in 1..room :
          r = [text |-> Append(contents[src], layer(n)), result |-> n]
    BY <1>2, <1>7, SameNames DEF Packed
  <2>2. r.text = Append(contents[src], layer(n)) /\ r.result = n
    BY <2>1
  <2>3. /\ r.text \in Seq(Layers) /\ Top(r.text) = layer(n)
    BY <1>3, <1>4, <2>2, LayerAdded
  <2>4. n \in 0..Capacity[dst] /\ n <= Capacity[dst] /\ Top(r.text).size = n
    BY <1>1, <1>4, <2>3
  <2>5. CASE expected[src] = Unknown
    <3>1. Added(src, c, r.result) = Unknown
      BY <2>5 DEF Added
    <3> QED  BY <1>3, <2>2, <2>3, <2>4, <3>1 DEF Unknown
  <2>6. CASE expected[src] # Unknown
    <3>1. contents[src] = expected[src]
      BY <2>6, ExpectedIsWhole
    <3>2. Added(src, c, r.result) = Append(expected[src], layer(n))
      BY <2>2, <2>6 DEF Added
    <3> QED  BY <2>2, <2>3, <2>4, <3>1, <3>2
  <2> QED  BY <2>5, <2>6
<1> QED  BY <1>5, <1>6, <1>7

(* The same of a decompression.                                            *)
LEMMA DecompressOutcome ==
  ASSUME IInv, NEW c \in Codecs, NEW src \in Buffers, NEW dst \in Buffers,
         NEW room \in 0..Capacity[dst],
         NEW r \in Unpacked(NativeCodec.decompress[c], src, Forwarded(length[src], room)) \union Failing(dst)
  PROVE  LET e == Removed(src, c, r.result) IN
         /\ r.text \in Seq(Layers) /\ e \in Seq(Layers)
         /\ r.result \in Failures \union 0..Capacity[dst]
         /\ r.text # Unknown => Top(r.text).size <= Capacity[dst]
         /\ e # Unknown => r.text = e /\ r.result = Top(r.text).size
<1> DEFINE input == AsSize(length[src])
           whole == Whole(src, input) /\ Len(contents[src]) > 1 /\ Top(contents[src]).by = c
           removed == Removed(src, c, r.result)
<1>1. Capacity[dst] \in Nat /\ room \in Nat /\ room <= Capacity[dst]
  BY LengthFits DEF IInv
<1>2. Forwarded(length[src], room) = [input |-> input, room |-> room]
  BY <1>1, SizeOfLength DEF Forwarded
<1>3. contents[src] \in Seq(Layers) /\ expected[src] \in Seq(Layers) /\ <<>> \in Seq(Layers)
  BY DEF IInv, TypeOK
<1>4. ASSUME removed # Unknown
      PROVE  /\ Len(expected[src]) > 1 /\ Top(expected[src]).by = c
             /\ removed = Below(expected[src]) /\ Top(Below(expected[src])).size = r.result
             /\ contents[src] = expected[src] /\ Whole(src, input)
  <2>1. /\ Len(expected[src]) > 1 /\ Top(expected[src]).by = c
        /\ removed = Below(expected[src]) /\ Top(Below(expected[src])).size = r.result
    BY <1>4 DEF Removed
  <2>2. expected[src] # Unknown
    BY <1>3, <2>1, LayerRemoved
  <2> QED  BY <2>1, <2>2, ExpectedIsWhole
<1>5. removed \in Seq(Layers)
  BY <1>3, <1>4, LayerRemoved DEF Unknown
<1>6. CASE r \in Failing(dst)
  <2>1. ASSUME removed # Unknown  PROVE FALSE
    <3>1. Below(expected[src]) \in Seq(Layers) /\ Below(expected[src]) # Unknown
      BY <1>3, <1>4, <2>1, LayerRemoved
    <3>2. r.result \in Nat \ {0}
      BY <1>4, <2>1, <3>1, LayerTop
    <3> QED  BY <1>6, <3>2, FailingFits DEF IInv
  <2> QED  BY <1>5, <1>6, <2>1, FailingFits DEF IInv
<1>7. CASE r \notin Failing(dst) /\ ~ whole
  <2>1. r \in Blind(room)
    BY <1>2, <1>7, SameNames DEF Unpacked
  <2>2. removed = Unknown
    BY <1>4, <1>7
  <2> QED  BY <1>1, <1>5, <2>1, <2>2, BlindFits
<1>8. CASE r \notin Failing(dst) /\ whole
  <2> DEFINE below == Below(contents[src])
  <2>1. r \in {[text |-> t, result |-> Top(t).size] : t \in {u \in {below} : Top(u).size <= room}}
    BY <1>2, <1>8, SameNames DEF Unpacked
  <2>2. r.text = below /\ r.result = Top(below).size /\ Top(below).size <= room
    BY <2>1
  <2>3. below \in Seq(Layers) /\ below # Unknown
    BY <1>3, <1>8, LayerRemoved
  <2>4. Top(below).size \in Nat \ {0}
    BY <2>3, LayerTop
  <2>5. r.result \in 0..Capacity[dst] /\ Top(r.text).size <= Capacity[dst]
    BY <1>1, <2>2, <2>4
  <2>6. removed # Unknown => r.text = removed
    BY <1>4, <2>2
  <2> QED  BY <1>5, <2>2, <2>3, <2>5, <2>6
<1> QED  BY <1>6, <1>7, <1>8

------------------------------------------------------------------------------
(* One lemma for each operation.                                           *)
LEMMA WriteIInv ==
  ASSUME IInv, NEW b \in Buffers, NEW d \in Data, NEW n \in 1..Capacity[b], Write(b, d, n)
  PROVE  IInv'
<1> DEFINE layer == [by |-> d, size |-> n]
<1>1. Capacity[b] \in Nat /\ n \in Nat \ {0} /\ n \in 0..Capacity[b] /\ n <= Capacity[b]
  BY LengthFits DEF IInv
<1>2. layer \in Layers /\ layer.size = n
  BY <1>1 DEF Layers
<1>3. <<layer>> \in Seq(Layers) /\ Top(<<layer>>) = layer
  BY <1>2 DEF Top
<1>4. outside' \subseteq Int /\ StaysInside'
  BY DEF Write, IInv, TypeOK, StaysInside
<1>5. Receives(b, <<layer>>, <<layer>>, n)
  BY DEF Write
<1> QED  BY <1>1, <1>2, <1>3, <1>4, <1>5, ReceivesIInv

LEMMA CompressIInv ==
  ASSUME IInv, NEW c \in UsedCodecs, NEW src \in Buffers, NEW dst \in Buffers,
         NEW room \in 0..Capacity[dst], Compress(c, src, dst, room)
  PROVE  IInv'
<1> DEFINE a == Forwarded(length[src], room)
<1>1. c \in Codecs
  BY CompressionAssumption
<1>2. length[src] >= 0 => a.input <= Capacity[src] /\ a.room <= Capacity[dst]
  BY LengthFits, SizeOfLength DEF IInv, Forwarded
<1>3. Touches(src, dst, a.input, a.room)
  BY DEF Compress
<1>4. outside' \subseteq Int /\ StaysInside'
  BY <1>2, <1>3, TouchesInside
<1>5. PICK r \in Packed(NativeCodec.compress[c], src, a) \union Failing(dst) :
        Receives(dst, r.text, Added(src, c, r.result), r.result)
  BY DEF Compress
<1> QED  BY <1>1, <1>4, <1>5, CompressOutcome, ReceivesIInv

LEMMA DecompressIInv ==
  ASSUME IInv, NEW c \in UsedCodecs, NEW src \in Buffers, NEW dst \in Buffers,
         NEW room \in 0..Capacity[dst], Decompress(c, src, dst, room)
  PROVE  IInv'
<1> DEFINE a == Forwarded(length[src], room)
<1>1. c \in Codecs
  BY CompressionAssumption
<1>2. length[src] >= 0 => a.input <= Capacity[src] /\ a.room <= Capacity[dst]
  BY LengthFits, SizeOfLength DEF IInv, Forwarded
<1>3. Touches(src, dst, a.input, a.room)
  BY DEF Decompress
<1>4. outside' \subseteq Int /\ StaysInside'
  BY <1>2, <1>3, TouchesInside
<1>5. PICK r \in Unpacked(NativeCodec.decompress[c], src, a) \union Failing(dst) :
        Receives(dst, r.text, Removed(src, c, r.result), r.result)
  BY DEF Decompress
<1> QED  BY <1>1, <1>4, <1>5, DecompressOutcome, ReceivesIInv

(* A length that fits the destination is a result of its own.              *)
LEMMA LengthKept ==
  ASSUME IInv, NEW src \in Buffers, NEW dst \in Buffers, length[src] <= Capacity[dst]
  PROVE  length[src] \in Failures \union 0..Capacity[dst]
<1>1. length[src] \in Failures \union 0..Capacity[src]
  BY DEF IInv, TypeOK
<1>2. Capacity[src] \in Nat /\ Capacity[dst] \in Nat
  BY LengthFits DEF IInv
<1> QED  BY <1>1, <1>2

LEMMA ShuffleIInv ==
  ASSUME IInv, NEW k \in TypeSizes, NEW src \in Buffers, NEW dst \in Buffers, Shuffle(k, src, dst)
  PROVE  IInv'
<1> DEFINE n == AsSize(length[src])
           text == NativeShuffle(k, src, n)
           e == Added(src, k, length[src])
           layer == [by |-> k, size |-> length[src]]
<1>1. length[src] <= Capacity[dst] /\ Touches(src, dst, n, n) /\ Receives(dst, text, e, length[src])
  BY DEF Shuffle
<1>2. length[src] >= 0 => n <= Capacity[src] /\ n <= Capacity[dst]
  BY <1>1, LengthFits, SizeOfLength DEF IInv
<1>3. outside' \subseteq Int /\ StaysInside'
  BY <1>1, <1>2, TouchesInside
<1>4. length[src] \in Failures \union 0..Capacity[dst]
  BY <1>1, LengthKept
<1>5. contents[src] \in Seq(Layers) /\ expected[src] \in Seq(Layers) /\ Unknown \in Seq(Layers)
  BY DEF IInv, TypeOK, Unknown
<1>6. CASE Whole(src, n)
  <2>3. n = length[src] /\ length[src] \in Nat \ {0}
    BY <1>6, WholeLength DEF IInv
  <2>4. layer \in Layers /\ layer.size = length[src]
    BY <2>3 DEF Layers
  <2>5. text = Append(contents[src], layer)
    BY <1>6, <2>3 DEF NativeShuffle
  <2>6. text \in Seq(Layers) /\ Top(text) = layer
    BY <1>5, <2>4, <2>5, LayerAdded
  <2>7. e # Unknown => e = text
    BY <2>5, ExpectedIsWhole DEF Added
  <2>8. e \in Seq(Layers)
    BY <1>5, <2>6, <2>7
  <2> QED  BY <1>1, <1>3, <1>4, <2>4, <2>6, <2>7, <2>8, ReceivesIInv
<1>7. CASE ~ Whole(src, n)
  <2>1. text = Unknown /\ e = Unknown
    BY <1>7, ExpectedIsWhole DEF NativeShuffle, Added
  <2> QED  BY <1>1, <1>3, <1>4, <1>5, <2>1, ReceivesIInv
<1> QED  BY <1>6, <1>7

LEMMA UnshuffleIInv ==
  ASSUME IInv, NEW k \in TypeSizes, NEW src \in Buffers, NEW dst \in Buffers, Unshuffle(k, src, dst)
  PROVE  IInv'
<1> DEFINE n == AsSize(length[src])
           below == Below(contents[src])
           text == NativeUnshuffle(k, src, n)
           e == Removed(src, k, length[src])
           whole == /\ Whole(src, n) /\ Len(contents[src]) > 1 /\ Top(contents[src]).by = k
                    /\ Top(below).size = n
<1>1. length[src] <= Capacity[dst] /\ Touches(src, dst, n, n) /\ Receives(dst, text, e, length[src])
  BY DEF Unshuffle
<1>2. length[src] >= 0 => n <= Capacity[src] /\ n <= Capacity[dst]
  BY <1>1, LengthFits, SizeOfLength DEF IInv
<1>3. outside' \subseteq Int /\ StaysInside'
  BY <1>1, <1>2, TouchesInside
<1>4. length[src] \in Failures \union 0..Capacity[dst]
  BY <1>1, LengthKept
<1>5. contents[src] \in Seq(Layers) /\ expected[src] \in Seq(Layers) /\ Unknown \in Seq(Layers)
  BY DEF IInv, TypeOK, Unknown
<1>6. e # Unknown => whole /\ e = below
  <2>1. SUFFICES ASSUME e # Unknown  PROVE whole /\ e = below
    OBVIOUS
  <2>2. /\ Len(expected[src]) > 1 /\ Top(expected[src]).by = k
        /\ e = Below(expected[src]) /\ Top(Below(expected[src])).size = length[src]
    BY <2>1 DEF Removed
  <2>3. expected[src] # Unknown
    BY <1>5, <2>2, LayerRemoved
  <2>4. contents[src] = expected[src] /\ Whole(src, n) /\ n = length[src]
    BY <2>3, ExpectedIsWhole, WholeLength DEF IInv
  <2> QED  BY <2>2, <2>4
<1>7. CASE whole
  <2>1. n = length[src]
    BY <1>7, WholeLength DEF IInv
  <2>2. text = below
    BY <1>7 DEF NativeUnshuffle
  <2>3. text \in Seq(Layers) /\ Top(text).size = length[src]
    BY <1>5, <1>7, <2>1, <2>2, LayerRemoved
  <2>4. e \in Seq(Layers) /\ (e # Unknown => text = e)
    BY <1>5, <1>6, <2>2, <2>3
  <2> QED  BY <1>1, <1>3, <1>4, <2>3, <2>4, ReceivesIInv
<1>8. CASE ~ whole
  <2>1. text = Unknown /\ e = Unknown
    BY <1>6, <1>8 DEF NativeUnshuffle
  <2> QED  BY <1>1, <1>3, <1>4, <1>5, <2>1, ReceivesIInv
<1> QED  BY <1>7, <1>8

LEMMA NextIInv == IInv /\ [Next]_vars => IInv'
<1> SUFFICES ASSUME IInv, [Next]_vars  PROVE IInv'
  OBVIOUS
<1>1. CASE UNCHANGED vars
  BY <1>1 DEF vars, IInv, TypeOK, AsExpected, StaysInside
<1>2. ASSUME NEW b \in Buffers, NEW d \in Data, NEW n \in 1..Capacity[b], Write(b, d, n)
      PROVE  IInv'
  BY <1>2, WriteIInv
<1>3. ASSUME NEW src \in Buffers, NEW dst \in Buffers, NEW c \in UsedCodecs,
             NEW room \in 0..Capacity[dst],
             Compress(c, src, dst, room) \/ Decompress(c, src, dst, room)
      PROVE  IInv'
  BY <1>3, CompressIInv, DecompressIInv
<1>4. ASSUME NEW src \in Buffers, NEW dst \in Buffers, NEW k \in TypeSizes,
             Shuffle(k, src, dst) \/ Unshuffle(k, src, dst)
      PROVE  IInv'
  BY <1>4, ShuffleIInv, UnshuffleIInv
<1> QED  BY <1>1, <1>2, <1>3, <1>4 DEF Next

LEMMA InitIInv == Init => IInv
<1> SUFFICES ASSUME Init PROVE IInv
  OBVIOUS
<1>1. Unknown \in Seq(Layers)
  BY DEF Unknown
<1>2. TypeOK
  BY <1>1, CompressionAssumption DEF Init, TypeOK
<1> QED  BY <1>2 DEF Init, IInv, AsExpected, StaysInside

(* The inductive invariant holds throughout.                               *)
THEOREM Invariant == Spec => []IInv
BY InitIInv, NextIInv, PTL DEF Spec

(* Every variable keeps its type, and what a buffer holds fits into it.    *)
THEOREM TypeCorrect == Spec => []TypeOK
<1>1. IInv => TypeOK
  BY DEF IInv
<1> QED  BY <1>1, Invariant, PTL

(* What was put into a buffer by name comes back by name, for every nesting*)
(* of codecs and shuffles, whatever fails in between.                      *)
THEOREM RoundTrips == Spec => []AsExpected
<1>1. IInv => AsExpected
  BY DEF IInv
<1> QED  BY <1>1, Invariant, PTL

(* Only a negative result passed on as a length leads outside a buffer.    *)
THEOREM CallsStayInside == Spec => []StaysInside
<1>1. IInv => StaysInside
  BY DEF IInv
<1> QED  BY <1>1, Invariant, PTL
=============================================================================
