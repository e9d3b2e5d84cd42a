-------------------------- MODULE MemOptions_proofs --------------------------
(***************************************************************************)
(* Proofs about MemOptions, for ints and longs of any width.               *)
(***************************************************************************)
EXTENDS MemOptions, TLAPS

(* Two members never reach the same native option: both enumerations name  *)
(* their options once, and the native one is the longer.                   *)
LEMMA ReachedDiffers ==
  /\ \A m \in Members : Reached(m) \in NativeNames
  /\ \A m, n \in Members : m # n => Reached(m) # Reached(n)
<1> DEFINE index(m) == CHOOSE i \in DOMAIN DotNetOptions : DotNetOptions[i] = m
<1>1. \A m \in Members : /\ index(m) \in DOMAIN DotNetOptions
                         /\ DotNetOptions[index(m)] = m
  BY MembersAssumption DEF DotNetNames
<1>2. DOMAIN DotNetOptions \subseteq DOMAIN NativeOptions
  BY DEF DotNetOptions, NativeOptions
<1>3. \A i, j \in DOMAIN NativeOptions :
        i # j => NativeOptions[i] # NativeOptions[j]
  BY DEF NativeOptions
<1>4. \A m \in Members : Reached(m) = NativeOptions[index(m)]
  BY DEF Reached
<1> HIDE DEF index
<1>5. QED
  BY <1>1, <1>2, <1>3, <1>4 DEF NativeNames

(* Half of an even width. *)
LEMMA HalfSpans ==
  \E h, k \in Nat :
    /\ IntSpan = h + h /\ IntSpan \div 2 = h /\ h >= 2
    /\ LongSpan = k + k /\ LongSpan \div 2 = k /\ k >= h
<1> DEFINE h == IntSpan \div 2
           k == LongSpan \div 2
<1>1. h \in Nat /\ k \in Nat /\ IntSpan = 2 * h /\ LongSpan = 2 * k
  BY SpansAssumption
<1>2. h = IntSpan \div 2 /\ k = LongSpan \div 2
  OBVIOUS
<1> HIDE DEF h, k
<1>3. IntSpan = h + h /\ h >= 2 /\ LongSpan = k + k /\ k >= h
  BY <1>1, SpansAssumption
<1>4. QED
  BY <1>1, <1>2, <1>3

(* An int is a long, and the lower half of that long is the int.           *)
LEMMA IntTruncates ==
  ASSUME NEW v \in Ints
  PROVE  v \in Longs /\ Truncated(v) = v
<1>1. PICK h \in Nat, k \in Nat :
        /\ IntSpan = h + h /\ IntSpan \div 2 = h /\ h >= 2
        /\ LongSpan = k + k /\ LongSpan \div 2 = k /\ k >= h
  BY HalfSpans
<1>2. v \in Int /\ -h <= v /\ v <= h - 1
  BY <1>1 DEF Ints
<1>3. v \in Longs
  BY <1>1, <1>2 DEF Longs
<1>4. (v + h) % IntSpan = v + h
  <2>1. v + h \in Int /\ 0 <= v + h /\ v + h < IntSpan
    BY <1>1, <1>2
  <2>2. v + h = 0 * IntSpan + (v + h)
    BY <2>1, SpansAssumption
  <2>3. QED
    BY <2>1, <2>2, SpansAssumption
<1>5. QED
  BY <1>1, <1>2, <1>3, <1>4 DEF Truncated

(* Whatever fills the upper half, the lower half of the long is the int,   *)
(* and the long is 0 only if the int is.                                   *)
LEMMA WidenedTruncates ==
  ASSUME NEW v \in Ints, NEW l \in Widened(v)
  PROVE  l \in Longs /\ Truncated(l) = v /\ (l = 0 => v = 0)
<1>1. 0 \in Ints
  BY HalfSpans DEF Ints
<1>2. Truncated(0) = 0
  BY <1>1, IntTruncates
<1>3. l \in Longs /\ Truncated(l) = v
  BY DEF Widened
<1>4. QED
  BY <1>2, <1>3

(* What crosses the boundary is an int, and the int itself is one of the   *)
(* longs it may arrive as.                                                 *)
LEMMA SentInts ==
  /\ Arguments \subseteq Ints /\ Unset \notin Ints
  /\ \A enable \in BOOLEAN : BoolToInt(enable) \in Ints
  /\ \A v \in Ints : v \in Widened(v)
<1>1. 0 \in Ints /\ 1 \in Ints
  BY HalfSpans DEF Ints
<1>2. \A v \in Ints : v \in Widened(v)
  BY IntTruncates DEF Widened
<1>3. QED
  BY <1>1, <1>2, ArgumentsAssumption DEF BoolToInt

------------------------------------------------------------------------------
(* What .NET code believes of a member is a widening away from what        *)
(* mimalloc holds, and both agree on what was explicitly set.              *)
BeliefsHold ==
  \A m \in Members :
    /\ sent[m] # Unset => value[Reached(m)] \in Widened(sent[m])
    /\ m \in chosen <=> Reached(m) \in fixed

IInv == TypeOK /\ BeliefsHold

LEMMA InitIInv == Init => IInv
<1> SUFFICES ASSUME Init PROVE IInv
  OBVIOUS
<1>1. 0 \in Longs
  BY HalfSpans DEF Longs
<1>2. QED
  BY <1>1 DEF Init, IInv, TypeOK, BeliefsHold

(* The two ways an option changes keep the invariant, whichever function   *)
(* sends the int v as the long l.                                          *)
LEMMA ChooseIInv ==
  ASSUME IInv, NEW m \in Members, NEW v \in Ints, NEW l \in Widened(v),
         NativeSet(Reached(m), l), Chooses(m, v)
  PROVE  IInv'
<1>1. l \in Longs /\ v # Unset
  BY WidenedTruncates, SentInts
<1>2. TypeOK'
  BY <1>1, ReachedDiffers DEF IInv, TypeOK, NativeSet, Chooses
<1>3. BeliefsHold'
  BY ReachedDiffers DEF IInv, TypeOK, BeliefsHold, NativeSet, Chooses
<1>4. QED
  BY <1>2, <1>3 DEF IInv

LEMMA SuggestIInv ==
  ASSUME IInv, NEW m \in Members, NEW v \in Ints, NEW l \in Widened(v),
         NativeSetDefault(Reached(m), l), Suggests(m, v)
  PROVE  IInv'
<1>1. l \in Longs /\ v # Unset
  BY WidenedTruncates, SentInts
<1>2. TypeOK'
  BY <1>1, ReachedDiffers DEF IInv, TypeOK, NativeSetDefault, Suggests
<1>3. BeliefsHold'
  BY ReachedDiffers DEF IInv, TypeOK, BeliefsHold, NativeSetDefault, Suggests
<1>4. QED
  BY <1>2, <1>3 DEF IInv

LEMMA NextIInv == IInv /\ [Next]_vars => IInv'
<1> SUFFICES ASSUME IInv, [Next]_vars PROVE IInv'
  OBVIOUS
<1>1. ASSUME NEW m \in Members, NEW v \in Arguments, OptionSet(m, v) PROVE IInv'
  BY <1>1, ChooseIInv, SentInts DEF OptionSet
<1>2. ASSUME NEW m \in Members, NEW v \in Arguments, OptionSetDefault(m, v)
      PROVE  IInv'
  BY <1>2, SuggestIInv, SentInts DEF OptionSetDefault
<1>3. ASSUME NEW m \in Members, NEW enable \in BOOLEAN, OptionSetEnabled(m, enable)
      PROVE  IInv'
  BY <1>3, ChooseIInv, SentInts DEF OptionSetEnabled
<1>4. ASSUME NEW m \in Members, NEW enable \in BOOLEAN,
             OptionSetEnabledDefault(m, enable)
      PROVE  IInv'
  BY <1>4, SuggestIInv, SentInts DEF OptionSetEnabledDefault
<1>5. CASE UNCHANGED vars
  BY <1>5 DEF vars, IInv, TypeOK, BeliefsHold
<1>6. QED
  BY <1>1, <1>2, <1>3, <1>4, <1>5 DEF Next

LEMMA SpecIInv == Spec => []IInv
BY InitIInv, NextIInv, PTL DEF Spec

(* The options stay longs, and .NET code believes in ints. *)
THEOREM TypeCorrect == Spec => []TypeOK
<1>1. IInv => TypeOK
  BY DEF IInv
<1>2. QED
  BY <1>1, SpecIInv, PTL

(* .NET code reads back what it sent, and never finds an option disabled   *)
(* that it set to anything but 0: for ints and longs of any width, any     *)
(* upper half of a register and any use of the eight option functions.     *)
THEOREM AlwaysReadsBack == Spec => []ReadsBack
<1>1. IInv => ReadsBack
  <2> SUFFICES ASSUME IInv, NEW m \in Members, sent[m] # Unset
               PROVE  /\ OptionGet(m) = sent[m]
                      /\ sent[m] # 0 => FALSE \notin OptionIsEnabled(m)
    BY DEF ReadsBack
  <2>1. sent[m] \in Ints /\ value[Reached(m)] \in Widened(sent[m])
    BY DEF IInv, TypeOK, BeliefsHold
  <2>2. QED
    BY <2>1, WidenedTruncates DEF OptionGet, OptionIsEnabled, BoolRead
<1>2. QED
  BY <1>1, SpecIInv, PTL

(* A member is found at its own number, and there is no other.             *)
LEMMA AgreeingReached ==
  ASSUME NEW m \in Agreeing
  PROVE  Reached(m) = m
<1> DEFINE index == CHOOSE i \in DOMAIN DotNetOptions : DotNetOptions[i] = m
<1>1. PICK j \in DOMAIN DotNetOptions :
        DotNetOptions[j] = m /\ NativeOptions[j] = m
  BY DEF Agreeing
<1>2. index \in DOMAIN DotNetOptions /\ DotNetOptions[index] = m
  BY <1>1
<1>3. \A i, k \in DOMAIN DotNetOptions :
        i # k => DotNetOptions[i] # DotNetOptions[k]
  BY DEF DotNetOptions
<1>4. Reached(m) = NativeOptions[index]
  BY DEF Reached
<1> HIDE DEF index
<1>5. index = j
  BY <1>1, <1>2, <1>3
<1>6. QED
  BY <1>1, <1>4, <1>5

(* An option whose number both enumerations agree on holds what .NET code  *)
(* sent for it, for ints and longs of any width and whatever is set under  *)
(* the numbers they do not agree on.                                       *)
THEOREM AgreeingOptionsHold == Spec => []NamedOptionHolds
<1>1. IInv => NamedOptionHolds
  BY AgreeingReached DEF IInv, BeliefsHold, NamedOptionHolds, Widened
<1>2. QED
  BY <1>1, SpecIInv, PTL

==============================================================================
