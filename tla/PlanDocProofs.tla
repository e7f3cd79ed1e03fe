--------------------------- MODULE PlanDocProofs ---------------------------
(***************************************************************************)
(* Facts about documents that the proofs about their readers and their     *)
(* writer share, and the induction over numbers that those need.           *)
(***************************************************************************)
EXTENDS PlanDoc, FiniteSetTheorems, WellFoundedInduction, TLAPS

(* Induction over the numbers, as a fact about sets of numbers: it follows *)
(* from the finite sets being well-founded under strict inclusion.         *)
LEMMA LeastNumber ==
  ASSUME NEW A \in SUBSET Nat, A # {}
  PROVE  \E n \in A : \A m \in A : n <= m
  <1> DEFINE T == {0 .. n : n \in A}
  <1>1. IsWellFoundedOn(StrictSubsetOrdering(Nat), FiniteSubsetsOf(Nat))
    BY FS_StrictSubsetOrderingWellFounded
  <1>2. T \subseteq FiniteSubsetsOf(Nat) /\ T # {}
    <2>1. \A n \in A : IsFiniteSet(0 .. n)
      BY FS_Interval
    <2>2. \A n \in A : 0 .. n \in SUBSET Nat
      OBVIOUS
    <2>3. \A n \in A : 0 .. n \in FiniteSubsetsOf(Nat)
      BY <2>1, <2>2 DEF FiniteSubsetsOf
    <2> QED
      BY <2>3
  <1>3. PICK x \in T : \A y \in T : <<y, x>> \notin StrictSubsetOrdering(Nat)
    <2> HIDE DEF T
    <2> QED
      BY <1>1, <1>2, WFMin
  <1>4. PICK n \in A : x = 0 .. n
    BY <1>3
  <1>5. ASSUME NEW m \in A, m < n
        PROVE  FALSE
    <2>1. 0 .. m \in T /\ 0 .. m \subseteq x /\ 0 .. m # x
      BY <1>4, <1>5
    <2>2. <<0 .. m, x>> \in StrictSubsetOrdering(Nat)
      BY <1>4, <2>1 DEF StrictSubsetOrdering
    <2> QED
      BY <1>3, <2>1, <2>2
  <1> QED
    BY <1>5

LEMMA UpTo ==
  ASSUME NEW N \in Nat, NEW A, 0 \in A, \A n \in 1 .. N : n - 1 \in A => n \in A
  PROVE  0 .. N \subseteq A
  <1> DEFINE B == {n \in 0 .. N : n \notin A}
  <1> SUFFICES ASSUME B # {} PROVE FALSE
    OBVIOUS
  <1>1. PICK n \in B : \A m \in B : n <= m
    <2>1. B \in SUBSET Nat
      OBVIOUS
    <2> HIDE DEF B
    <2> QED
      BY <2>1, LeastNumber
  <1>2. n \in 1 .. N
    BY <1>1
  <1>3. n - 1 \in 0 .. N /\ n - 1 \notin B
    BY <1>1, <1>2
  <1> QED
    BY <1>1, <1>2, <1>3
-----------------------------------------------------------------------------
(* The last position of a key is one of its positions.                     *)
LEMMA LastOfIsPosition ==
  ASSUME NEW e, Len(e) \in Nat, NEW key, Has(e, key)
  PROVE  /\ LastOf(e, key) \in Positions(e, key)
         /\ \A j \in Positions(e, key) : j <= LastOf(e, key)
  <1> DEFINE B == {Len(e) - i : i \in Positions(e, key)}
  <1>1. \A i \in Positions(e, key) : i \in 1 .. Len(e)
    BY DEF Positions
  <1>2. B \in SUBSET Nat /\ B # {}
    BY <1>1 DEF Has
  <1>3. PICK n \in B : \A m \in B : n <= m
    <2> HIDE DEF B
    <2> QED
      BY <1>2, LeastNumber
  <1>4. PICK i \in Positions(e, key) : n = Len(e) - i
    BY <1>3
  <1>5. \A j \in Positions(e, key) : j <= i
    <2> SUFFICES ASSUME NEW j \in Positions(e, key) PROVE j <= i
      OBVIOUS
    <2>1. Len(e) - i <= Len(e) - j
      BY <1>3, <1>4
    <2> QED
      BY <1>1, <2>1
  <1> QED
    BY <1>5 DEF LastOf

(* What a value is read from, and a member that is there once.             *)
LEMMA ValueOfOne ==
  ASSUME NEW doc, NEW key, NEW i, Positions(doc, key) = {i}
  PROVE  LastOf(doc, key) = i /\ Value(doc, key) = doc[i].val /\ Has(doc, key)
  <1>1. LastOf(doc, key) = i
    BY DEF LastOf
  <1> QED
    BY <1>1 DEF Value, Has

(* Without its last member a document has the same values under every      *)
(* other key.                                                              *)
LEMMA ButLast ==
  ASSUME NEW S, NEW doc \in Seq(S), doc # <<>>, NEW key, doc[Len(doc)].key # key
  PROVE  LET front == SubSeq(doc, 1, Len(doc) - 1) IN
           /\ Value(front, key) = Value(doc, key)
           /\ key = "divergences" => Headers(front) = Headers(doc)
  <1> DEFINE front == SubSeq(doc, 1, Len(doc) - 1)
  <1>1. Len(doc) \in Nat \ {0}
    OBVIOUS
  <1>2. Len(front) = Len(doc) - 1 /\ \A i \in 1 .. Len(doc) - 1 : front[i] = doc[i]
    <2>1. \A n \in 1 .. Len(doc) :
            /\ Len(SubSeq(doc, 1, n - 1)) = n - 1
            /\ \A i \in 1 .. n - 1 : SubSeq(doc, 1, n - 1)[i] = doc[i]
      OBVIOUS
    <2>2. Len(doc) \in 1 .. Len(doc)
      BY <1>1
    <2> QED
      BY <2>1, <2>2
  <1> HIDE DEF front
  <1>3. Positions(front, key) = Positions(doc, key)
    <2>1. \A i \in 1 .. Len(doc) : i = Len(doc) \/ i \in 1 .. Len(doc) - 1
      BY <1>1
    <2>2. 1 .. Len(doc) - 1 \subseteq 1 .. Len(doc)
      BY <1>1
    <2> QED
      BY <1>2, <2>1, <2>2 DEF Positions
  <1>4. LastOf(front, key) = LastOf(doc, key) /\ (Has(front, key) <=> Has(doc, key))
    BY <1>3 DEF LastOf, Has
  <1>5. Has(doc, key) => front[LastOf(doc, key)] = doc[LastOf(doc, key)]
    <2> SUFFICES ASSUME Has(doc, key) PROVE front[LastOf(doc, key)] = doc[LastOf(doc, key)]
      OBVIOUS
    <2>1. LastOf(doc, key) \in Positions(front, key)
      BY <1>1, <1>3, LastOfIsPosition
    <2> QED
      BY <1>2, <2>1 DEF Positions
  <1>6. Value(front, key) = Value(doc, key)
    BY <1>4, <1>5 DEF Value
  <1>7. key = "divergences" => Headers(front) = Headers(doc)
    BY <1>4, <1>5 DEF Headers
  <1> QED
    BY <1>6, <1>7 DEF front

(* The arrays of pages a reader is handed, one by one.                     *)
LEMMA PageArraysAre ==
  ASSUME NEW doc, NEW a
  PROVE  a \in PageArrays(doc) <=>
           \E k \in Positions(doc, "divergences") : \E i \in 1 .. Len(doc[k].divs) :
             /\ doc[k].divs[i].pages # <<>>
             /\ a = [index |-> i, pages |-> doc[k].divs[i].pages]
  BY DEF PageArrays
=============================================================================
