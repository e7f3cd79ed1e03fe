--------------------------- MODULE RecoveryProofs ---------------------------
(***************************************************************************)
(* What the operator's loop of diagnose and apply guarantees for every     *)
(* tree, every sequence of published versions and any number of mishaps.   *)
(***************************************************************************)
EXTENDS Recovery, TLAPS

Tree == [Chunks -> Nat \cup {Junk}]

(* A running apply works in the directory of its plan, which it has        *)
(* accepted, with shadows to restore from.                                 *)
ModeInv ==
  /\ fresh => plan # NoPlan
  /\ mode # "down" =>
       /\ plan # NoPlan /\ stamp = plan /\ accepted = plan.version
       /\ before \in Tree
       /\ exit = Contract!Running

(* A plan made of the tree as it is leaves nothing out.                    *)
FreshInv ==
  fresh => \A c \in Chunks \ plan.work : tree[c] = Canon[plan.version][c]

(* What a success has left, until something is done to the tree.           *)
DoneInv ==
  exit = Contract!Success =>
    /\ accepted = plan.version /\ plan # NoPlan
    /\ ~spoiled => \A c \in plan.work : tree[c] = Canon[plan.version][c]

IInv == TypeOK /\ ModeInv /\ FreshInv /\ MarkersAreThePlans /\ DoneInv

-----------------------------------------------------------------------------
LEMMA CanonFacts ==
  ASSUME NEW v \in Versions
  PROVE  /\ Canon[v] \in Tree
         /\ \A c \in Chunks : Canon[v][c] \in Nat
         /\ v \in Nat /\ v # 0
  BY RecoveryAssumption DEF RecoveryAssumption, Tree

LEMMA PlanFacts ==
  ASSUME NEW p \in Plans
  PROVE  /\ p.work \subseteq Chunks
         /\ p # NoPlan => p.version \in Versions
         /\ p = NoPlan => p.work = {}
  BY DEF Plans, NoPlan

LEMMA NewPlan ==
  ASSUME served \in Versions
  PROVE  [version |-> served, work |-> Differs(tree, served)] \in Plans \ {NoPlan}
  <1>1. [version |-> served, work |-> Differs(tree, served)] \in [version : Versions, work : SUBSET Chunks]
    BY DEF Differs
  <1>2. served # 0
    BY CanonFacts
  <1> QED
    BY <1>1, <1>2 DEF Plans, NoPlan

LEMMA InitInv == Init => IInv
  <1> SUFFICES ASSUME Init PROVE IInv
    OBVIOUS
  <1>1. TypeOK
    <2>1. tree \in [Chunks -> Nat \cup {Junk}]
      BY RecoveryAssumption DEF RecoveryAssumption, Init
    <2>2. NoPlan \in Plans /\ NoPlan.work = {} /\ 1 \in Versions /\ MaxMishaps \in Nat
      BY RecoveryAssumption DEF RecoveryAssumption, Plans, NoPlan
    <2>3. exit \in {0, 10, 11, 12, 14, -1, -2} /\ mishaps \in 0 .. MaxMishaps
      BY <2>2 DEF Init, Contract!Running
    <2> QED
      BY <2>1, <2>2, <2>3 DEF Init, TypeOK
  <1>2. ModeInv /\ FreshInv /\ MarkersAreThePlans /\ DoneInv
    BY DEF Init, ModeInv, FreshInv, MarkersAreThePlans, DoneInv, Contract!Running, Contract!Success
  <1> QED
    BY <1>1, <1>2 DEF IInv

LEMMA DiagnoseKeeps == IInv /\ Diagnose => IInv'
  <1> SUFFICES ASSUME IInv, Diagnose PROVE IInv'
    OBVIOUS
  <1>1. TypeOK'
    BY NewPlan DEF IInv, TypeOK, Diagnose, world, staging, Contract!Running
  <1>2. ModeInv'
    BY NewPlan DEF IInv, TypeOK, ModeInv, Diagnose
  <1>3. FreshInv'
    BY DEF IInv, TypeOK, FreshInv, Diagnose, world, Differs
  <1>4. MarkersAreThePlans' /\ DoneInv'
    BY DEF IInv, Diagnose, world, staging, MarkersAreThePlans, DoneInv, Contract!Running,
           Contract!Success
  <1> QED
    BY <1>1, <1>2, <1>3, <1>4 DEF IInv

LEMMA ApplyKeeps == IInv /\ Apply => IInv'
  <1> SUFFICES ASSUME IInv, Apply PROVE IInv'
    OBVIOUS
  <1> USE DEF IInv, Apply, FreshPlan, EnterStaging, Contract!Begin, Contract!Running,
              Contract!Success, world
  <1>1. before' \in Tree
    BY DEF TypeOK, Tree
  <1>2. TypeOK'
    BY <1>1 DEF TypeOK, Tree
  <1>3. ModeInv'
    BY <1>1 DEF TypeOK, ModeInv
  <1>4. FreshInv' /\ MarkersAreThePlans' /\ DoneInv'
    BY DEF FreshInv, MarkersAreThePlans, DoneInv
  <1> QED
    BY <1>2, <1>3, <1>4
-----------------------------------------------------------------------------
(* The steps of a running apply.                                           *)
LEMMA LandKeeps ==
  ASSUME IInv, NEW c \in Chunks, Land(c)
  PROVE  IInv'
  <1> USE DEF IInv, Land, Put, ApplySteps, world, Contract!Land
  <1>1. plan.version \in Versions /\ stamp = plan /\ plan # NoPlan
    BY PlanFacts DEF TypeOK, ModeInv
  <1>2. tree' \in Tree /\ \A d \in Chunks : tree'[d] = IF d = c THEN Canon[plan.version][c] ELSE tree[d]
    BY <1>1, CanonFacts DEF TypeOK, Tree
  <1>3. TypeOK'
    BY <1>2 DEF TypeOK, Tree
  <1>4. ModeInv' /\ DoneInv'
    BY DEF ModeInv, DoneInv, Contract!Running, Contract!Success
  <1>5. FreshInv'
    BY <1>2 DEF FreshInv
  <1>6. MarkersAreThePlans'
    BY <1>1, <1>2, PlanFacts DEF TypeOK, MarkersAreThePlans
  <1> QED
    BY <1>3, <1>4, <1>5, <1>6

LEMMA MarkKeeps ==
  ASSUME IInv, NEW c \in Chunks, Mark(c)
  PROVE  IInv'
  <1> USE DEF IInv, Mark, ApplySteps, world, Contract!Mark
  <1>1. plan.version \in Versions /\ stamp = plan /\ plan # NoPlan
    BY PlanFacts DEF TypeOK, ModeInv
  <1>2. TypeOK'
    BY <1>1 DEF TypeOK
  <1>3. ModeInv' /\ DoneInv' /\ FreshInv'
    BY DEF ModeInv, DoneInv, FreshInv, Contract!Running, Contract!Success
  <1>4. tree[c] = Canon[plan.version][c]
    BY <1>1 DEF Differs
  <1>5. MarkersAreThePlans'
    BY <1>1, <1>4 DEF MarkersAreThePlans
  <1> QED
    BY <1>2, <1>3, <1>5

LEMMA RollbackKeeps ==
  ASSUME IInv, NEW S \in SUBSET plan.work, Rollback(S)
  PROVE  IInv'
  <1> USE DEF IInv, Rollback, staging, Contract!Undo
  <1>1. /\ S \subseteq Chunks /\ before \in Tree /\ mode # "down"
        /\ \A c \in marked : c \in Chunks
    BY PlanFacts DEF TypeOK, ModeInv
  <1>2. tree' \in Tree
    BY <1>1 DEF TypeOK, Tree
  <1>3. mishaps' \in 0 .. MaxMishaps
    BY RecoveryAssumption DEF RecoveryAssumption, TypeOK, Mishap
  <1>4. TypeOK'
    BY <1>1, <1>2, <1>3 DEF TypeOK, Tree
  <1>5. ModeInv' /\ DoneInv'
    BY <1>1 DEF ModeInv, DoneInv, Contract!Running, Contract!Success
  <1>6. FreshInv'
    BY DEF FreshInv
  <1>7. MarkersAreThePlans'
    BY DEF MarkersAreThePlans
  <1> QED
    BY <1>4, <1>5, <1>6, <1>7

LEMMA ReturnKeeps ==
  ASSUME IInv, NEW code \in {0, 10, 11, 12}, Return(code)
  PROVE  IInv'
  <1> USE DEF IInv, Return, staging, Contract!End, Contract!Running, Contract!Success
  <1>1. mode # "down" /\ stamp = plan /\ plan # NoPlan /\ accepted = plan.version
    BY DEF ModeInv
  <1>2. mishaps' \in 0 .. MaxMishaps
    BY RecoveryAssumption DEF RecoveryAssumption, TypeOK, Mishap
  <1>3. TypeOK'
    BY <1>2 DEF TypeOK
  <1>4. ModeInv' /\ FreshInv' /\ MarkersAreThePlans'
    BY DEF ModeInv, FreshInv, MarkersAreThePlans
  <1>5. ASSUME code = 0, ~spoiled, NEW c \in plan.work
        PROVE  tree[c] = Canon[plan.version][c]
    <2>1. c \in marked \/ c \notin Differs(tree, plan.version)
      BY <1>1, <1>5
    <2> QED
      BY <1>1, <1>5, <2>1, PlanFacts DEF TypeOK, MarkersAreThePlans, Differs
  <1>6. DoneInv'
    BY <1>1, <1>5 DEF DoneInv
  <1> QED
    BY <1>3, <1>4, <1>6

LEMMA KilledKeeps ==
  ASSUME IInv, NEW torn \in SUBSET plan.work, Killed(torn)
  PROVE  IInv'
  <1> USE DEF IInv, Killed, Mishap, staging, Contract!Kill, Contract!Killed, Contract!Running, Contract!Success
  <1>1. tree' \in Tree /\ mishaps' \in 0 .. MaxMishaps /\ stamp = plan
    BY RecoveryAssumption DEF RecoveryAssumption, TypeOK, Tree, ModeInv
  <1>2. TypeOK'
    BY <1>1 DEF TypeOK, Tree
  <1>3. ModeInv' /\ DoneInv' /\ FreshInv'
    BY DEF ModeInv, DoneInv, FreshInv
  <1>4. MarkersAreThePlans'
    BY <1>1, PlanFacts DEF TypeOK, MarkersAreThePlans
  <1> QED
    BY <1>2, <1>3, <1>4
-----------------------------------------------------------------------------
(* What happens around apply.                                              *)
LEMMA SupersededKeeps == IInv /\ Superseded => IInv'
  <1> SUFFICES ASSUME IInv, Superseded PROVE IInv'
    OBVIOUS
  <1> USE DEF IInv, Superseded, Mishap, staging, SupersededCanonical, Contract!Running, Contract!Success
  <1>1. mishaps' \in 0 .. MaxMishaps
    BY RecoveryAssumption DEF RecoveryAssumption, TypeOK
  <1>2. TypeOK'
    BY <1>1 DEF TypeOK
  <1> QED
    BY <1>2 DEF ModeInv, FreshInv, DoneInv, MarkersAreThePlans

LEMMA HalfDiscardedKeeps == IInv /\ HalfDiscarded => IInv'
  <1> SUFFICES ASSUME IInv, HalfDiscarded PROVE IInv'
    OBVIOUS
  <1> USE DEF IInv, HalfDiscarded, Mishap, Contract!Killed, Contract!Running, Contract!Success
  <1>1. mishaps' \in 0 .. MaxMishaps
    BY RecoveryAssumption DEF RecoveryAssumption, TypeOK
  <1>2. TypeOK'
    BY <1>1 DEF TypeOK
  <1> QED
    BY <1>2 DEF ModeInv, FreshInv, DoneInv, MarkersAreThePlans

LEMMA PowerLossKeeps ==
  ASSUME IInv, NEW lost \in SUBSET unsynced, PowerLoss(lost)
  PROVE  IInv'
  <1> USE DEF IInv, PowerLoss, Mishap, Contract!Killed, Contract!Running, Contract!Success
  <1>1. tree' \in Tree /\ mishaps' \in 0 .. MaxMishaps
    BY RecoveryAssumption DEF RecoveryAssumption, TypeOK, Tree
  <1>2. TypeOK'
    BY <1>1 DEF TypeOK, Tree
  <1>3. ModeInv' /\ DoneInv'
    BY <1>2 DEF TypeOK, ModeInv, DoneInv
  <1>4. FreshInv'
    BY DEF FreshInv
  <1>5. MarkersAreThePlans'
    BY PlanFacts DEF TypeOK, MarkersAreThePlans
  <1> QED
    BY <1>2, <1>3, <1>4, <1>5

LEMMA WorldKeeps == IInv /\ (Publish \/ TreeChanges \/ WriteBack) => IInv'
  <1> SUFFICES ASSUME IInv, Publish \/ TreeChanges \/ WriteBack PROVE IInv'
    OBVIOUS
  <1> USE DEF IInv, staging, world, Contract!Running, Contract!Success
  <1>1. CASE Publish
    <2>1. TypeOK'
      BY <1>1 DEF Publish, TypeOK
    <2> QED
      BY <1>1, <2>1 DEF Publish, ModeInv, FreshInv, DoneInv, MarkersAreThePlans
  <1>2. CASE TreeChanges
    <2>1. tree' \in Tree /\ mishaps' \in 0 .. MaxMishaps
      BY <1>2, RecoveryAssumption DEF RecoveryAssumption, TreeChanges, Mishap, TypeOK, Tree
    <2>2. TypeOK'
      BY <1>2, <2>1 DEF TreeChanges, TypeOK, Tree
    <2>3. ModeInv' /\ FreshInv' /\ DoneInv'
      BY <1>2 DEF TreeChanges, ModeInv, FreshInv, DoneInv
    <2>4. MarkersAreThePlans'
      BY <1>2 DEF TreeChanges, MarkersAreThePlans
    <2> QED
      BY <2>2, <2>3, <2>4
  <1>3. CASE WriteBack
    <2>1. TypeOK'
      BY <1>3 DEF WriteBack, TypeOK
    <2> QED
      BY <1>3, <2>1 DEF WriteBack, ModeInv, FreshInv, DoneInv, MarkersAreThePlans
  <1> QED
    BY <1>1, <1>2, <1>3

LEMMA NextKeeps == IInv /\ [Next]_vars => IInv'
  <1> SUFFICES ASSUME IInv, [Next]_vars PROVE IInv'
    OBVIOUS
  <1>1. CASE UNCHANGED vars
    BY <1>1 DEF vars, world, staging, IInv, TypeOK, ModeInv, FreshInv, DoneInv, MarkersAreThePlans
  <1>2. CASE Progress
    BY <1>2, LandKeeps, MarkKeeps, ReturnKeeps DEF Progress
  <1>3. CASE Failure
    BY <1>3, HalfDiscardedKeeps, ReturnKeeps, RollbackKeeps, KilledKeeps, PowerLossKeeps
    DEF Failure
  <1> QED
    BY <1>1, <1>2, <1>3, DiagnoseKeeps, SupersededKeeps, ApplyKeeps, WorldKeeps DEF Next

(* The inductive invariant of the operator's loop.                         *)
THEOREM Invariance == Spec => []IInv
  BY InitInv, NextKeeps, PTL DEF Spec

(* Every variable of Recovery keeps its type.                              *)
THEOREM TypeCorrect == Spec => []TypeOK
  <1>1. IInv => TypeOK
    BY DEF IInv
  <1> QED
    BY <1>1, Invariance, PTL

(* The markers in the staging directory are true of the canonical that     *)
(* their plan was made for, through any sequence of publications, plans,   *)
(* kills and rollbacks, unless bytes were lost under one.                  *)
THEOREM MarkersBelong == Spec => []MarkersAreThePlans
  <1>1. IInv => MarkersAreThePlans
    BY DEF IInv
  <1> QED
    BY <1>1, Invariance, PTL

(* diagnose and then apply until exit 0 leaves the whole tree canonical,   *)
(* whatever happened in between, unless bytes were lost under a marker.    *)
THEOREM SuccessRecovers == Spec => []SuccessMeansRecovered
  <1>1. IInv => SuccessMeansRecovered
    BY DEF IInv, FreshInv, DoneInv, SuccessMeansRecovered, IsCanonical, Differs
  <1> QED
    BY <1>1, Invariance, PTL
=============================================================================
