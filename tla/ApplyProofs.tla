---------------------------- MODULE ApplyProofs ----------------------------
(***************************************************************************)
(* What apply guarantees for every plan, every tree, every pool size and   *)
(* every environment: the inductive invariant of Apply and its theorems.   *)
(***************************************************************************)
EXTENDS ApplyClaims, ApplyRefinement, FiniteSetTheorems, TLAPS

Outstanding == inflight \cup Unfed(cursor, markers)
Staged == {"scan", "shadow", "prime", "loop", "mark", "verify", "rollback", "cleanup"}
Early == {"staging", "fresh", "scan", "shadow"}
Looping == {"shadow", "prime", "loop", "mark"}

(* Where the invocation is, and what that says of the staging directory.   *)
ControlInv ==
  /\ pc \in Staged => planHash = "this"
  /\ pc = "fresh" => markers = {}
  /\ pc # "down" => exit = Running
  /\ pc \in Early => /\ cursor = 1 /\ inflight = {}
                     /\ ~promotionFailed /\ ~budgetExhausted
  /\ pc = "mark" => promoted \in Task

(* The pool and the lazy feed.                                             *)
PoolInv ==
  /\ \A i \in inflight : i < cursor /\ Id(i) \notin markers
  /\ pc = "mark" => promoted < cursor /\ promoted \notin inflight
  /\ pc \in Looping => remaining = Cardinality(Outstanding)

(* What is known of the live tree until a rollback touches it.             *)
TreeInv ==
  ~restored =>
    /\ planHash = "this" => \A i \in Task : Id(i) \in markers => IsNew(i)
    /\ pc = "mark" => IsNew(promoted)
    /\ pc \in Looping /\ ~promotionFailed /\ ~budgetExhausted
         => \A i \in Task : IsNew(i) \/ i \in Outstanding
    /\ pc \in {"verify", "cleanup"} \/ exit = Success => \A i \in Task : IsNew(i)

IInv == TypeOK /\ ControlInv /\ PoolInv /\ TreeInv
-----------------------------------------------------------------------------
(* What the assumptions say of the entries of the plan.                    *)
LEMMA PlanFacts ==
  /\ Len(Plan) \in Nat
  /\ \A i \in Task : /\ i \in Nat /\ 1 <= i /\ i <= Len(Plan)
                      /\ Plan[i] \in Entry
                      /\ Plan[i].file \in Files /\ Plan[i].chunk \in Chunk
  <1>1. Plan \in Seq(Entry)
    BY PlanAssumption DEF PlanAssumption
  <1>2. Len(Plan) \in Nat /\ \A i \in 1 .. Len(Plan) : Plan[i] \in Entry
    BY <1>1
  <1> QED
    BY <1>2 DEF Task, Entry

(* Two tasks that name the same chunk of the same file are the same task.  *)
LEMMA TaskUnique ==
  ASSUME NEW i \in Task, NEW j \in Task,
         Plan[i].file = Plan[j].file, Plan[i].chunk = Plan[j].chunk
  PROVE  i = j
  <1>1. Plan[i] \in Entry /\ Plan[j] \in Entry
    BY PlanFacts
  <1>2. Plan[i] = Plan[j]
    BY <1>1 DEF Entry
  <1> QED
    BY <1>2, PlanAssumption DEF PlanAssumption

LEMMA ContentFacts ==
  /\ \A b \in Bytes : AllOf(b) \in Content
  /\ NoShadow \in Shadow /\ LinkedShadow \in Shadow
  /\ \A c \in Content : OwnShadow(c) \in Shadow
  /\ Origin \in [Files -> Content]
  BY DEF AllOf, Bytes, Content, NoShadow, LinkedShadow, OwnShadow, Shadow, ShadowKinds,
         Absent, Origin

(* The feed moves the next unmarked task, if any, from the plan to the     *)
(* pool, and changes nothing else.                                         *)
LEMMA FeedKeeps ==
  ASSUME NEW busy, busy \subseteq Task, NEW done,
         cursor \in 1 .. Len(Plan) + 1,
         \A i \in busy : i < cursor,
         Feed(busy, done)
  PROVE  /\ cursor' \in 1 .. Len(Plan) + 1
         /\ cursor <= cursor'
         /\ inflight' \subseteq Task
         /\ inflight' \cup Unfed(cursor', done) = busy \cup Unfed(cursor, done)
         /\ \A i \in inflight' : i < cursor' /\ (i \in busy \/ Id(i) \notin done)
  <1>1. CASE Unfed(cursor, done) = {} /\ cursor' = Len(Plan) + 1 /\ inflight' = busy
    <2>1. Unfed(cursor', done) = {}
      BY <1>1, PlanFacts DEF Unfed
    <2> QED
      BY <1>1, <2>1, PlanFacts
  <1>2. ASSUME NEW j \in Unfed(cursor, done), IsFirst(j, Unfed(cursor, done)),
               cursor' = j + 1, inflight' = busy \cup {j}
        PROVE  /\ cursor' \in 1 .. Len(Plan) + 1
               /\ cursor <= cursor'
               /\ inflight' \subseteq Task
               /\ inflight' \cup Unfed(cursor', done) = busy \cup Unfed(cursor, done)
               /\ \A i \in inflight' : i < cursor' /\ (i \in busy \/ Id(i) \notin done)
    <2>1. j \in Nat /\ cursor <= j /\ j <= Len(Plan) /\ Id(j) \notin done
      BY PlanFacts DEF Unfed
    <2>2. Unfed(cursor, done) = {j} \cup Unfed(cursor', done)
      BY <1>2, <2>1, PlanFacts DEF Unfed, IsFirst
    <2>3. j \in Task
      BY <2>1 DEF Task
    <2> QED
      BY <1>2, <2>1, <2>2, <2>3, PlanFacts DEF Task
  <1> QED
    BY <1>1, <1>2 DEF Feed

(* Sets of tasks are finite; taking a task out lowers the count by one.    *)
LEMMA TasksFinite ==
  ASSUME NEW S, S \subseteq Task
  PROVE  IsFiniteSet(S) /\ Cardinality(S) \in Nat
  <1>1. IsFiniteSet(Task)
    BY FS_Interval, PlanFacts DEF Task
  <1> QED
    BY <1>1, FS_Subset, FS_CardinalityType

LEMMA UnfedTasks ==
  ASSUME NEW c \in 1 .. Len(Plan) + 1, NEW done
  PROVE  Unfed(c, done) \subseteq Task
  BY PlanFacts DEF Unfed, Task

LEMMA OneFewer ==
  ASSUME NEW S, S \subseteq Task, NEW i \in S
  PROVE  /\ Cardinality(S \ {i}) = Cardinality(S) - 1
         /\ Cardinality(S) - 1 \in Nat
  <1>1. IsFiniteSet(S) /\ IsFiniteSet(S \ {i})
    BY TasksFinite
  <1> QED
    BY <1>1, FS_RemoveElement, FS_CardinalityType
-----------------------------------------------------------------------------
LEMMA InitInv == Init => IInv
  <1> SUFFICES ASSUME Init PROVE IInv
    OBVIOUS
  <1>1. TypeOK
    <2>1. {Id(i) : i \in Task} \subseteq Entry
      BY PlanFacts DEF Id
    <2>2. shadow \in [Files -> Shadow] /\ live \in [Files -> Content]
      BY ContentFacts DEF Init, Bytes
    <2>3. attempt \in [Task -> 0 .. MaxAttempts - 1]
      BY ParameterAssumption DEF ParameterAssumption, Init
    <2>4. 1 \in 1 .. Len(Plan) + 1
      BY PlanFacts
    <2>5. 0 \in 0 .. MaxRuns /\ 0 \in Nat
      BY ParameterAssumption DEF ParameterAssumption
    <2>6. markers \subseteq Entry
      BY <2>1 DEF Init
    <2> QED
      BY <2>2, <2>3, <2>4, <2>5, <2>6
      DEF Init, TypeOK, PCs, Codes, Running, NoTask
  <1>2. ControlInv /\ PoolInv /\ TreeInv
    BY DEF Init, ControlInv, PoolInv, TreeInv, Staged, Early, Looping, Running, Success
  <1> QED
    BY <1>1, <1>2 DEF IInv

(* Forgetting the process leaves its variables well typed.                 *)
LEMMA ForgetProcessType ==
  ASSUME ForgetProcess
  PROVE  /\ taken' \subseteq Files /\ todo' \subseteq Files /\ failed' \subseteq Files
         /\ cursor' \in 1 .. Len(Plan) + 1 /\ inflight' \subseteq Task
         /\ attempt' \in [Task -> 0 .. MaxAttempts - 1] /\ remaining' \in Nat
         /\ promotionFailed' \in BOOLEAN /\ budgetExhausted' \in BOOLEAN
         /\ promoted' \in Task \cup {NoTask}
  <1>1. attempt' \in [Task -> 0 .. MaxAttempts - 1]
    BY ParameterAssumption DEF ParameterAssumption, ForgetProcess
  <1>2. 1 \in 1 .. Len(Plan) + 1
    BY PlanFacts
  <1> QED
    BY <1>1, <1>2 DEF ForgetProcess, NoTask

LEMMA StartKeeps == IInv /\ Start => IInv'
  <1> SUFFICES ASSUME IInv, Start PROVE IInv'
    OBVIOUS
  <1>1. TypeOK'
    BY ForgetProcessType, ParameterAssumption
    DEF ParameterAssumption, IInv, TypeOK, Start, disk, PCs, Codes, Running
  <1>2. ControlInv' /\ PoolInv' /\ TreeInv'
    BY DEF IInv, Start, disk, ForgetProcess, ControlInv, PoolInv, TreeInv, Staged,
           Early, Looping, Running, Success, IsNew, Id
  <1> QED
    BY <1>1, <1>2 DEF IInv

LEMMA CrashKeeps == IInv /\ Crash => IInv'
  <1> SUFFICES ASSUME IInv, Crash PROVE IInv'
    OBVIOUS
  <1>1. /\ live' \in [Files -> Content]
        /\ shadow' \in [Files -> Shadow]
        /\ markers' \subseteq markers
        /\ planHash' \in {planHash, "unreadable"}
    <2>1. CASE UNCHANGED disk
      BY <2>1 DEF disk, IInv, TypeOK
    <2>2. CASE HalfDiscarded
      BY <2>2 DEF HalfDiscarded, IInv, TypeOK
    <2>3. CASE HalfCopied
      BY <2>3, ContentFacts DEF HalfCopied, IInv, TypeOK, Bytes
    <2>4. CASE HalfWritten
      BY <2>4, PlanFacts DEF HalfWritten, WritePage, IInv, TypeOK, Content, Bytes
    <2>5. CASE HalfCleaned
      BY <2>5, ContentFacts DEF HalfCleaned, IInv, TypeOK
    <2> QED
      BY <2>1, <2>2, <2>3, <2>4, <2>5 DEF Crash
  <1>2. TypeOK'
    BY <1>1, ForgetProcessType
    DEF IInv, TypeOK, Crash, Exit, PCs, Codes, Killed
  <1>3. ControlInv' /\ PoolInv'
    BY DEF IInv, Crash, Exit, ForgetProcess, ControlInv, PoolInv, Staged, Early, Looping
  (* Only a page in flight can be torn, and it has no marker.              *)
  <1>4. ASSUME NEW i \in Task, Id(i) \in markers', IsNew(i)
        PROVE  IsNew(i)'
    <2>1. CASE UNCHANGED live
      BY <1>4, <2>1 DEF IsNew
    <2>2. CASE HalfWritten
      <3>1. PICK j \in inflight : WritePage(Plan[j].file, Plan[j].chunk, "junk")
        BY <2>2 DEF HalfWritten
      <3>2. j \in Task /\ Id(j) \notin markers /\ Id(i) \in markers
        BY <1>1, <1>4, <3>1 DEF IInv, TypeOK, PoolInv
      <3>3. Plan[i].file # Plan[j].file \/ Plan[i].chunk # Plan[j].chunk
        BY <3>2, TaskUnique
      <3> QED
        BY <1>4, <3>1, <3>2, <3>3, PlanFacts DEF WritePage, IsNew, IInv, TypeOK, Content
    <2> QED
      BY <2>1, <2>2 DEF Crash, disk, HalfDiscarded, HalfCopied, HalfCleaned
  <1>5. TreeInv'
    BY <1>1, <1>4 DEF IInv, TreeInv, Crash, Exit, ForgetProcess, Looping, Killed, Success,
           IsNew, Id
  <1> QED
    BY <1>2, <1>3, <1>5 DEF IInv
-----------------------------------------------------------------------------
(* Staging.                                                                *)
LEMMA StagingKeeps == IInv /\ StagingStep => IInv'
  <1> SUFFICES ASSUME IInv, StagingStep PROVE IInv'
    OBVIOUS
  <1> USE DEF IInv, Goto, disk, pool
  <1>1. CASE Resume
    <2>1. TypeOK'
      BY <1>1 DEF Resume, TypeOK, PCs
    <2>2. ControlInv' /\ PoolInv' /\ TreeInv'
      BY <1>1 DEF Resume, ControlInv, PoolInv, TreeInv, Staged, Early, Looping,
                  Outstanding, Unfed, IsNew, Id
    <2> QED
      BY <2>1, <2>2
  <1>2. CASE DiscardStale
    <2>1. TypeOK'
      BY <1>2, ContentFacts DEF DiscardStale, TypeOK, PCs
    <2>2. ControlInv' /\ PoolInv' /\ TreeInv'
      BY <1>2 DEF DiscardStale, ControlInv, PoolInv, TreeInv, Staged, Early, Looping,
                  IsNew, Id
    <2> QED
      BY <2>1, <2>2
  <1>3. CASE StampPlanHash
    <2>1. TypeOK'
      BY <1>3 DEF StampPlanHash, TypeOK, PCs
    <2>2. ControlInv' /\ PoolInv' /\ TreeInv'
      BY <1>3 DEF StampPlanHash, ControlInv, PoolInv, TreeInv, Staged, Early, Looping,
                  IsNew, Id
    <2> QED
      BY <2>1, <2>2
  <1>4. CASE ScanPending
    <2>1. Pending = Unfed(1, markers)
      BY PlanFacts DEF Pending, Unfed, Task
    <2>2. Cardinality(Pending) \in Nat /\ {Plan[i].file : i \in Pending} \subseteq Files
      BY TasksFinite, PlanFacts DEF Pending
    <2>3. TypeOK'
      BY <1>4, <2>2 DEF ScanPending, Exit, TypeOK, PCs, Codes, Success
    <2>4. ControlInv'
      BY <1>4 DEF ScanPending, Exit, ControlInv, Staged, Early
    <2>5. PoolInv'
      BY <1>4, <2>1 DEF ScanPending, Exit, ControlInv, PoolInv, Early, Looping,
                        Outstanding, Unfed, Id
    <2>6. ASSUME NEW i \in Task
          PROVE  Id(i) \in markers \/ i \in Pending
      BY DEF Pending
    <2>7. TreeInv'
      BY <1>4, <2>1, <2>6
      DEF ScanPending, Exit, ControlInv, TreeInv, Staged, Early, Looping, Outstanding,
          Unfed, IsNew, Id
    <2> QED
      BY <2>3, <2>4, <2>5, <2>7
  <1> QED
    BY <1>1, <1>2, <1>3, <1>4 DEF StagingStep

(* Shadows.                                                                *)
LEMMA ShadowKeeps == IInv /\ ShadowStep => IInv'
  <1> SUFFICES ASSUME IInv, ShadowStep PROVE IInv'
    OBVIOUS
  <1> USE DEF IInv, Goto, disk, pool
  <1>1. CASE ShadowsTaken
    <2>1. TypeOK'
      BY <1>1 DEF ShadowsTaken, TypeOK, PCs
    <2>2. ControlInv' /\ PoolInv' /\ TreeInv'
      BY <1>1 DEF ShadowsTaken, ControlInv, PoolInv, TreeInv, Staged, Early, Looping,
                  Outstanding, Unfed, IsNew, Id
    <2> QED
      BY <2>1, <2>2
  <1>2. ASSUME NEW f \in Files, TakeShadow(f)
        PROVE  IInv'
    <2>1. ShadowAfterTake(f) \in Shadow
      BY ContentFacts DEF ShadowAfterTake, TypeOK
    <2>2. TypeOK'
      BY <1>2, <2>1 DEF TakeShadow, TypeOK
    <2>3. ControlInv' /\ PoolInv' /\ TreeInv'
      BY <1>2 DEF TakeShadow, ControlInv, PoolInv, TreeInv, Staged, Early, Looping,
                  Outstanding, Unfed, IsNew, Id
    <2> QED
      BY <2>2, <2>3
  <1>3. ASSUME NEW f \in Files, ShadowFails(f)
        PROVE  IInv'
    <2>1. OwnShadow(AllOf("junk")) \in Shadow
      BY ContentFacts DEF Bytes
    <2>2. TypeOK'
      BY <1>3, <2>1 DEF ShadowFails, Exit, TypeOK, PCs, Codes, GenericError
    <2>3. ControlInv' /\ PoolInv' /\ TreeInv'
      BY <1>3 DEF ShadowFails, Exit, ControlInv, PoolInv, TreeInv, Staged, Early,
                  Looping, IsNew, Id, GenericError, Success
    <2> QED
      BY <2>2, <2>3
  <1> QED
    BY <1>1, <1>2, <1>3 DEF ShadowStep
-----------------------------------------------------------------------------
(* The loop.  Feeding changes neither what is outstanding nor the tree.    *)
LEMMA OutstandingTasks ==
  ASSUME TypeOK
  PROVE  Outstanding \subseteq Task
  BY UnfedTasks DEF TypeOK, Outstanding

LEMMA PrimeKeeps == IInv /\ Prime => IInv'
  <1> SUFFICES ASSUME IInv, Prime PROVE IInv'
    OBVIOUS
  <1> USE DEF IInv, disk
  <1>1. CASE Goto("loop") /\ UNCHANGED <<cursor, inflight>>
    <2>1. TypeOK'
      BY <1>1 DEF Prime, Goto, TypeOK, PCs
    <2>2. ControlInv' /\ PoolInv' /\ TreeInv'
      BY <1>1 DEF Prime, Goto, ControlInv, PoolInv, TreeInv, Staged, Early, Looping,
                  Outstanding, Unfed, IsNew, Id
    <2> QED
      BY <2>1, <2>2
  <1>2. CASE Feed(inflight, markers) /\ UNCHANGED <<pc, exit>>
    <2>1. /\ cursor' \in 1 .. Len(Plan) + 1 /\ cursor <= cursor' /\ inflight' \subseteq Task
          /\ Outstanding' = Outstanding
          /\ \A i \in inflight' : i < cursor' /\ Id(i) \notin markers
      <3>1. /\ cursor' \in 1 .. Len(Plan) + 1 /\ cursor <= cursor' /\ inflight' \subseteq Task
            /\ inflight' \cup Unfed(cursor', markers) = inflight \cup Unfed(cursor, markers)
            /\ \A i \in inflight' : i < cursor' /\ (i \in inflight \/ Id(i) \notin markers)
        BY <1>2, FeedKeeps DEF TypeOK, PoolInv
      <3>2. \A i \in inflight : Id(i) \notin markers
        BY DEF PoolInv
      <3>3. Outstanding' = Outstanding
        BY <3>1 DEF Outstanding, Unfed, Prime
      <3> QED
        BY <3>1, <3>2, <3>3
    <2>2. TypeOK'
      BY <1>2, <2>1 DEF Prime, TypeOK
    <2>3. ControlInv'
      BY <1>2 DEF Prime, ControlInv, Staged, Early
    <2>4. PoolInv'
      BY <1>2, <2>1 DEF Prime, PoolInv, Id
    <2>5. TreeInv'
      BY <1>2, <2>1 DEF Prime, TreeInv, IsNew, Id
    <2> QED
      BY <2>2, <2>3, <2>4, <2>5
  <1> QED
    BY <1>1, <1>2 DEF Prime

(* Giving a task up takes exactly that task out of what is outstanding.    *)
LEMMA GiveUpKeepsPool ==
  ASSUME IInv, pc = "loop", NEW i \in inflight,
         Feed(inflight \ {i}, markers), UNCHANGED markers,
         remaining' = remaining - 1
  PROVE  /\ cursor' \in 1 .. Len(Plan) + 1 /\ inflight' \subseteq Task
         /\ remaining' \in Nat
         /\ \A j \in inflight' : j < cursor' /\ Id(j) \notin markers
         /\ remaining' = Cardinality(Outstanding')
  <1> USE DEF IInv
  <1>1. inflight \subseteq Task /\ i \in Task
    BY DEF TypeOK
  <1>2. /\ cursor' \in 1 .. Len(Plan) + 1 /\ cursor <= cursor' /\ inflight' \subseteq Task
        /\ inflight' \cup Unfed(cursor', markers)
             = (inflight \ {i}) \cup Unfed(cursor, markers)
        /\ \A j \in inflight' : j < cursor' /\ (j \in inflight \ {i} \/ Id(j) \notin markers)
    BY <1>1, FeedKeeps DEF TypeOK, PoolInv
  <1>3. i \notin Unfed(cursor, markers)
    BY PlanFacts, <1>1 DEF PoolInv, Unfed, TypeOK
  <1>4. Outstanding' = Outstanding \ {i}
    BY <1>2, <1>3 DEF Outstanding, Unfed
  <1>5. i \in Outstanding /\ Outstanding \subseteq Task
    BY OutstandingTasks DEF Outstanding
  <1>6. remaining = Cardinality(Outstanding)
    BY DEF PoolInv, Looping
  <1> QED
    BY <1>2, <1>4, <1>5, <1>6, OneFewer DEF PoolInv

LEMMA RequeueKeeps ==
  ASSUME IInv, pc = "loop", NEW i \in inflight, RequeueOrGiveUp(i)
  PROVE  IInv'
  <1> USE DEF IInv, disk
  <1>1. CASE /\ attempt[i] + 1 >= MaxAttempts
             /\ budgetExhausted' = TRUE /\ remaining' = remaining - 1
             /\ attempt' = [attempt EXCEPT ![i] = 0]
             /\ Feed(inflight \ {i}, markers)
    <2>1. /\ cursor' \in 1 .. Len(Plan) + 1 /\ inflight' \subseteq Task
          /\ remaining' \in Nat
          /\ \A j \in inflight' : j < cursor' /\ Id(j) \notin markers
          /\ remaining' = Cardinality(Outstanding')
      BY <1>1, GiveUpKeepsPool DEF RequeueOrGiveUp
    <2>2. attempt' \in [Task -> 0 .. MaxAttempts - 1]
      BY <1>1, ParameterAssumption DEF ParameterAssumption, TypeOK
    <2>3. TypeOK'
      BY <1>1, <2>1, <2>2 DEF RequeueOrGiveUp, TypeOK
    <2>4. ControlInv' /\ PoolInv' /\ TreeInv'
      BY <1>1, <2>1 DEF RequeueOrGiveUp, ControlInv, PoolInv, TreeInv, Staged, Early,
                        Looping, IsNew, Id
    <2> QED
      BY <2>3, <2>4
  <1>2. CASE /\ ~(attempt[i] + 1 >= MaxAttempts)
             /\ attempt' = [attempt EXCEPT ![i] = @ + 1]
             /\ UNCHANGED <<budgetExhausted, remaining, cursor, inflight>>
    <2>1. attempt' \in [Task -> 0 .. MaxAttempts - 1]
      BY <1>2, ParameterAssumption DEF ParameterAssumption, TypeOK
    <2>2. TypeOK'
      BY <1>2, <2>1 DEF RequeueOrGiveUp, TypeOK
    <2>3. ControlInv' /\ PoolInv' /\ TreeInv'
      BY <1>2 DEF RequeueOrGiveUp, ControlInv, PoolInv, TreeInv, Staged, Early,
                  Looping, Outstanding, Unfed, IsNew, Id
    <2> QED
      BY <2>2, <2>3
  <1> QED
    BY <1>1, <1>2 DEF RequeueOrGiveUp
(* A promotion makes its own chunk canonical and no other chunk less so.   *)
LEMMA PromoteTree ==
  ASSUME TypeOK, NEW i \in inflight, Promote(i)
  PROVE  /\ live' \in [Files -> Content] /\ shadow' \in [Files -> Shadow]
         /\ IsNew(i)'
         /\ \A j \in Task : IsNew(j) => IsNew(j)'
  <1>1. i \in Task
    BY DEF TypeOK
  <1>2. PICK staged \in Delivered :
          /\ HashMatches(staged)
          /\ IF Plan[i].file \in WholeFiles
             THEN LinkMode # "crossdevice" /\ SwapWholeFile(Plan[i].file, staged)
             ELSE WritePage(Plan[i].file, Plan[i].chunk, staged)
    BY DEF Promote
  <1>3. staged = "new"
    BY <1>2 DEF HashMatches
  <1>4. CASE SwapWholeFile(Plan[i].file, staged)
    <2>1. live' = [live EXCEPT ![Plan[i].file] = AllOf("new")]
      BY <1>3, <1>4 DEF SwapWholeFile
    <2>2. live' \in [Files -> Content]
      BY <2>1, ContentFacts DEF TypeOK, Bytes
    <2>3. shadow' \in [Files -> Shadow]
      BY <1>4, <1>1, PlanFacts, ContentFacts DEF SwapWholeFile, TypeOK
    <2>4. \A j \in Task : IsNew(j) \/ Plan[j].file = Plan[i].file => IsNew(j)'
      BY <2>1, <1>1, PlanFacts DEF IsNew, AllOf, TypeOK
    <2> QED
      BY <2>2, <2>3, <2>4, <1>1
  <1>5. CASE WritePage(Plan[i].file, Plan[i].chunk, staged)
    <2>1. live' = [live EXCEPT ![Plan[i].file][Plan[i].chunk] = "new"] /\ shadow' = shadow
      BY <1>3, <1>5 DEF WritePage
    <2>2. live' \in [Files -> Content] /\ shadow' \in [Files -> Shadow]
      BY <2>1, <1>1, PlanFacts DEF TypeOK, Content, Bytes
    <2>3. \A j \in Task : IsNew(j) \/ j = i => IsNew(j)'
      BY <2>1, <1>1, PlanFacts DEF IsNew, TypeOK, Content
    <2> QED
      BY <2>2, <2>3, <1>1
  <1> QED
    BY <1>2, <1>4, <1>5

LEMMA PromoteKeeps ==
  ASSUME IInv, pc = "loop", NEW i \in inflight, Promote(i)
  PROVE  IInv'
  <1> USE DEF IInv
  <1>1. i \in Task /\ i < cursor /\ Id(i) \notin markers
    BY DEF TypeOK, PoolInv
  <1>2. /\ live' \in [Files -> Content] /\ shadow' \in [Files -> Shadow]
        /\ IsNew(i)' /\ \A j \in Task : IsNew(j) => IsNew(j)'
    BY PromoteTree
  <1>3. Outstanding' = Outstanding \ {i} /\ i \in Outstanding /\ Outstanding \subseteq Task
    <2>1. i \notin Unfed(cursor, markers)
      BY <1>1, PlanFacts DEF Unfed, TypeOK
    <2> QED
      BY <2>1, OutstandingTasks DEF Promote, Outstanding, Unfed
  <1>4. remaining' \in Nat /\ remaining' = Cardinality(Outstanding')
    BY <1>3, OneFewer DEF Promote, PoolInv, Looping
  <1>5. TypeOK'
    <2>1. attempt' \in [Task -> 0 .. MaxAttempts - 1]
      BY ParameterAssumption DEF ParameterAssumption, TypeOK, Promote
    <2> QED
      BY <1>1, <1>2, <1>4, <2>1 DEF Promote, Goto, TypeOK, PCs
  <1>6. ControlInv' /\ PoolInv'
    BY <1>1, <1>4 DEF Promote, Goto, ControlInv, PoolInv, Staged, Early, Looping, Id
  <1>7. TreeInv'
    <2>1. ASSUME ~restored', NEW j \in Task, Id(j) \in markers'
          PROVE  IsNew(j)'
      BY <1>2, <2>1 DEF TreeInv, ControlInv, Staged, Promote, Id
    <2>2. ASSUME ~restored', ~promotionFailed', ~budgetExhausted', NEW j \in Task
          PROVE  IsNew(j)' \/ j \in Outstanding'
      BY <1>2, <1>3, <2>2 DEF TreeInv, Looping, Promote
    <2> QED
      BY <1>2, <2>1, <2>2 DEF TreeInv, Promote, Goto, ControlInv, Running, Success
  <1> QED
    BY <1>5, <1>6, <1>7

LEMMA PromoteFailsKeeps ==
  ASSUME IInv, pc = "loop", NEW i \in inflight, PromoteFails(i)
  PROVE  IInv'
  <1> USE DEF IInv
  <1>1. i \in Task /\ Id(i) \notin markers
    BY DEF TypeOK, PoolInv
  <1>2. /\ cursor' \in 1 .. Len(Plan) + 1 /\ inflight' \subseteq Task
        /\ remaining' \in Nat
        /\ \A j \in inflight' : j < cursor' /\ Id(j) \notin markers
        /\ remaining' = Cardinality(Outstanding')
    BY GiveUpKeepsPool DEF PromoteFails
  <1>3. live' \in [Files -> Content] /\ shadow' \in [Files -> Shadow]
    <2>1. CASE UNCHANGED <<live, shadow>>
      BY <2>1 DEF TypeOK
    <2>2. CASE WritePage(Plan[i].file, Plan[i].chunk, "junk")
      BY <1>1, <2>2, PlanFacts DEF WritePage, TypeOK, Content, Bytes
    <2> QED
      BY <2>1, <2>2 DEF PromoteFails
  <1>4. TypeOK'
    <2>1. attempt' \in [Task -> 0 .. MaxAttempts - 1]
      BY ParameterAssumption DEF ParameterAssumption, TypeOK, PromoteFails
    <2> QED
      BY <1>2, <1>3, <2>1 DEF PromoteFails, TypeOK
  <1>5. ControlInv' /\ PoolInv'
    BY <1>2 DEF PromoteFails, ControlInv, PoolInv, Staged, Early, Looping, Id
  (* The chunk that may be torn has no marker.                             *)
  <1>6. ASSUME NEW j \in Task, Id(j) \in markers, IsNew(j)
        PROVE  IsNew(j)'
    <2>1. CASE UNCHANGED live
      BY <1>6, <2>1 DEF IsNew
    <2>2. CASE WritePage(Plan[i].file, Plan[i].chunk, "junk")
      <3>1. Plan[i].file # Plan[j].file \/ Plan[i].chunk # Plan[j].chunk
        BY <1>1, <1>6, TaskUnique
      <3> QED
        BY <1>1, <1>6, <2>2, <3>1, PlanFacts DEF WritePage, IsNew, TypeOK, Content
    <2> QED
      BY <2>1, <2>2 DEF PromoteFails
  <1>7. TreeInv'
    BY <1>6 DEF PromoteFails, TreeInv, ControlInv, Staged, Running, Success, Id
  <1> QED
    BY <1>4, <1>5, <1>7

LEMMA MarkKeeps == IInv /\ MarkDone => IInv'
  <1> SUFFICES ASSUME IInv, MarkDone PROVE IInv'
    OBVIOUS
  <1> USE DEF IInv
  <1>1. /\ pc = "mark" /\ promoted \in Task /\ promoted < cursor
        /\ promoted \notin inflight
    BY DEF MarkDone, ControlInv, PoolInv
  <1>2. markers' \subseteq markers \cup {Id(promoted)} /\ markers \subseteq markers'
        /\ Id(promoted) \in Entry
    BY <1>1, PlanFacts DEF MarkDone, Id
  <1>3. ASSUME NEW j \in Task, Id(j) \notin markers, j # promoted
        PROVE  Id(j) \notin markers'
    BY <1>1, <1>2, <1>3, PlanAssumption DEF PlanAssumption, Id
  <1>4. Unfed(cursor, markers') = Unfed(cursor, markers)
    <2>1. \A j \in cursor .. Len(Plan) : j \in Task /\ j # promoted
      BY <1>1, PlanFacts DEF TypeOK, Task
    <2> QED
      BY <1>2, <1>3, <2>1 DEF Unfed
  <1>5. /\ cursor' \in 1 .. Len(Plan) + 1 /\ inflight' \subseteq Task
        /\ inflight' \cup Unfed(cursor', markers') = inflight \cup Unfed(cursor, markers')
        /\ \A j \in inflight' : j < cursor' /\ (j \in inflight \/ Id(j) \notin markers')
    <2>1. Feed(inflight, markers') /\ \A j \in inflight : j < cursor
      BY DEF MarkDone, PoolInv
    <2> QED
      BY <2>1, FeedKeeps DEF TypeOK
  <1>6. Outstanding' = Outstanding
    BY <1>4, <1>5 DEF Outstanding
  <1>7. \A j \in inflight : Id(j) \notin markers'
    BY <1>1, <1>3 DEF PoolInv, TypeOK
  <1>8. TypeOK'
    BY <1>2, <1>5 DEF MarkDone, Goto, TypeOK, PCs
  <1>9. ControlInv' /\ PoolInv'
    BY <1>1, <1>5, <1>6, <1>7
    DEF MarkDone, Goto, ControlInv, PoolInv, Staged, Early, Looping
  <1>10. TreeInv'
    <2>1. \A j \in Task : IsNew(j)' = IsNew(j)
      BY DEF MarkDone, IsNew
    <2>2. ASSUME ~restored', NEW j \in Task, Id(j) \in markers'
          PROVE  IsNew(j)'
      BY <1>1, <1>3, <2>1, <2>2 DEF MarkDone, TreeInv, ControlInv, Staged
    <2>3. ASSUME ~restored', ~promotionFailed', ~budgetExhausted', NEW j \in Task
          PROVE  IsNew(j)' \/ j \in Outstanding'
      BY <1>1, <1>6, <2>1, <2>3 DEF MarkDone, TreeInv, Looping
    <2> QED
      BY <1>1, <2>2, <2>3 DEF MarkDone, Goto, TreeInv, ControlInv, Running, Success, Id
  <1> QED
    BY <1>8, <1>9, <1>10

LEMMA LoopEndsKeeps == IInv /\ LoopEnds => IInv'
  <1> SUFFICES ASSUME IInv, LoopEnds PROVE IInv'
    OBVIOUS
  <1> USE DEF IInv, disk, pool
  <1>1. TypeOK'
    BY DEF LoopEnds, Goto, Exit, TypeOK, PCs, Codes, NetworkBudgetExhausted
  <1>2. ControlInv' /\ PoolInv'
    BY DEF LoopEnds, Goto, Exit, ControlInv, PoolInv, Staged, Early, Looping, Id
  <1>3. Outstanding = {}
    BY OutstandingTasks, TasksFinite, FS_EmptySet DEF LoopEnds, PoolInv, Looping
  <1>4. TreeInv'
    BY <1>3 DEF LoopEnds, Goto, Exit, ControlInv, TreeInv, Staged, Looping, IsNew, Id,
                NetworkBudgetExhausted, Running, Success
  <1> QED
    BY <1>1, <1>2, <1>4

LEMMA LoopKeeps == IInv /\ LoopStep => IInv'
  <1> SUFFICES ASSUME IInv, LoopStep PROVE IInv'
    OBVIOUS
  <1>1. ASSUME NEW i \in Task, FetchFailed(i) \/ HashMismatch(i)
        PROVE  IInv'
    BY <1>1, RequeueKeeps DEF FetchFailed, HashMismatch
  <1>2. ASSUME NEW i \in Task, Promote(i)
        PROVE  IInv'
    BY <1>2, PromoteKeeps DEF Promote
  <1>3. ASSUME NEW i \in Task, PromoteFails(i)
        PROVE  IInv'
    BY <1>3, PromoteFailsKeeps DEF PromoteFails
  <1> QED
    BY <1>1, <1>2, <1>3, PrimeKeeps, MarkKeeps, LoopEndsKeeps DEF LoopStep
-----------------------------------------------------------------------------
(* Verification, rollback and cleanup.                                     *)
LEMMA EndKeeps == IInv /\ EndStep => IInv'
  <1> SUFFICES ASSUME IInv, EndStep PROVE IInv'
    OBVIOUS
  <1> USE DEF IInv, Goto, Exit, disk, pool
  <1>1. CASE VerifyPasses \/ VerifyFails
    <2>1. TypeOK'
      BY <1>1 DEF VerifyPasses, VerifyFails, TypeOK, PCs
    <2>2. ControlInv' /\ PoolInv' /\ TreeInv'
      BY <1>1 DEF VerifyPasses, VerifyFails, ControlInv, PoolInv, TreeInv, Staged,
                  Early, Looping, IsNew, Id, Running, Success
    <2> QED
      BY <2>1, <2>2
  <1>2. CASE RollbackEnds
    <2>1. TypeOK'
      BY <1>2 DEF RollbackEnds, TypeOK, PCs, Codes
    <2>2. ControlInv' /\ PoolInv' /\ TreeInv'
      BY <1>2 DEF RollbackEnds, ControlInv, PoolInv, TreeInv, Staged, Early, Looping,
                  IsNew, Id, RollbackCompleted, RollbackFailed, Success
    <2> QED
      BY <2>1, <2>2
  <1>3. CASE Cleanup
    <2>1. TypeOK'
      BY <1>3, ContentFacts DEF Cleanup, TypeOK, PCs, Codes
    <2>2. ControlInv' /\ PoolInv' /\ TreeInv'
      BY <1>3 DEF Cleanup, ControlInv, PoolInv, TreeInv, Staged, Early, Looping, IsNew, Id
    <2> QED
      BY <2>1, <2>2
  <1>4. ASSUME NEW f \in Files, Restore(f)
        PROVE  IInv'
    <2>1. ShadowContent(f) \in Content
      BY DEF ShadowContent, TypeOK, Shadow
    <2>2. TypeOK'
      BY <1>4, <2>1, ContentFacts DEF Restore, TypeOK
    <2>3. ControlInv' /\ PoolInv' /\ TreeInv'
      BY <1>4 DEF Restore, ControlInv, PoolInv, TreeInv, Staged, Early, Looping, Id
    <2> QED
      BY <2>2, <2>3
  <1>5. ASSUME NEW f \in Files, RestoreFails(f)
        PROVE  IInv'
    <2>1. TypeOK'
      BY <1>5 DEF RestoreFails, TypeOK
    <2>2. ControlInv' /\ PoolInv' /\ TreeInv'
      BY <1>5 DEF RestoreFails, ControlInv, PoolInv, TreeInv, Staged, Early, Looping,
                  IsNew, Id
    <2> QED
      BY <2>1, <2>2
  <1> QED
    BY <1>1, <1>2, <1>3, <1>4, <1>5 DEF EndStep

LEMMA StutterKeeps == IInv /\ UNCHANGED vars => IInv'
  BY DEF vars, disk, pool, IInv, TypeOK, ControlInv, PoolInv, TreeInv, Staged, Early,
         Looping, Outstanding, Unfed, IsNew, Id

LEMMA NextKeeps == IInv /\ [Next]_vars => IInv'
  <1>1. IInv /\ Finished => IInv'
    BY StutterKeeps DEF Finished
  <1> QED
    BY <1>1, StartKeeps, CrashKeeps, StagingKeeps, ShadowKeeps, LoopKeeps, EndKeeps,
       StutterKeeps
    DEF Next, Run
-----------------------------------------------------------------------------
(* The inductive invariant holds of every run of the doctor.               *)
THEOREM Invariance == Spec => []IInv
  BY InitInv, NextKeeps, PTL DEF Spec

(* Every variable keeps its type.                                          *)
THEOREM TypeCorrect == Spec => []TypeOK
  <1>1. IInv => TypeOK
    BY DEF IInv
  <1> QED
    BY <1>1, Invariance, PTL

(* A completion marker under this plan's hash is truthful until a rollback *)
(* touches the tree, through kills, resumes and foreign directories.       *)
THEOREM MarkersTruthful == Spec => []MarkersSound
  <1>1. IInv => MarkersSound
    BY DEF IInv, TreeInv, MarkersSound
  <1> QED
    BY <1>1, Invariance, PTL

(* Exit code 0 without a rollback in the history of the plan means that    *)
(* every chunk of the plan is canonical in the live tree.                  *)
THEOREM SuccessTruthful == Spec => []SuccessMeansCanonical
  <1>1. IInv => SuccessMeansCanonical
    BY DEF IInv, TreeInv, SuccessMeansCanonical
  <1> QED
    BY <1>1, Invariance, PTL

(* The loop waits for exactly the tasks that are in flight or still to be  *)
(* fed: the eager first pass and the lazy feed agree on the work.          *)
THEOREM LoopAccounting == Spec => []Accounting
  <1>1. IInv => Accounting
    BY DEF IInv, PoolInv, Accounting, Looping, Outstanding
  <1> QED
    BY <1>1, Invariance, PTL

(* No chunk with a completion marker is ever fetched again.                *)
THEOREM NoRefetch == Spec => []CompletedWorkNotRefetched
  <1>1. IInv => CompletedWorkNotRefetched
    BY DEF IInv, PoolInv, CompletedWorkNotRefetched
  <1> QED
    BY <1>1, Invariance, PTL
-----------------------------------------------------------------------------
(* Overwriting a page in flight leaves every marked chunk alone.           *)
LEMMA MarkedPagesUntouched ==
  ASSUME IInv, NEW j \in inflight, NEW b, WritePage(Plan[j].file, Plan[j].chunk, b),
         NEW i \in Task, Id(i) \in markers, IsNew(i)
  PROVE  IsNew(i)'
  <1>1. j \in Task /\ Id(j) \notin markers
    BY DEF IInv, TypeOK, PoolInv
  <1>2. Plan[i].file # Plan[j].file \/ Plan[i].chunk # Plan[j].chunk
    BY <1>1, TaskUnique
  <1> QED
    BY <1>1, <1>2, PlanFacts DEF WritePage, IsNew, IInv, TypeOK, Content

(* The steps that write to the live tree, and what each does to a chunk    *)
(* that is canonical and marked.                                           *)
LEMMA LiveChanges ==
  ASSUME IInv, [Next]_vars, NEW i \in Task, Id(i) \in markers, IsNew(i), pc # "rollback"
  PROVE  IsNew(i)'
  <1>1. CASE UNCHANGED live
    BY <1>1 DEF IsNew
  <1>2. CASE Crash
    <2>1. CASE HalfWritten
      BY <2>1, MarkedPagesUntouched DEF HalfWritten
    <2> QED
      BY <1>1, <1>2, <2>1 DEF Crash, disk, HalfDiscarded, HalfCopied, HalfCleaned
  <1>3. CASE LoopStep
    <2>1. ASSUME NEW j \in Task, Promote(j)
          PROVE  IsNew(i)'
      BY <2>1, PromoteTree DEF Promote, IInv
    <2>2. ASSUME NEW j \in Task, PromoteFails(j)
          PROVE  IsNew(i)'
      BY <1>1, <2>2, MarkedPagesUntouched DEF PromoteFails
    <2>3. ASSUME NEW j \in Task, FetchFailed(j) \/ HashMismatch(j)
          PROVE  IsNew(i)'
      BY <1>1, <2>3 DEF FetchFailed, HashMismatch, RequeueOrGiveUp, disk
    <2> QED
      BY <1>1, <1>3, <2>1, <2>2, <2>3 DEF LoopStep, Prime, MarkDone, LoopEnds, disk
  <1>4. CASE EndStep
    BY <1>1, <1>4
    DEF EndStep, VerifyPasses, VerifyFails, RollbackEnds, Cleanup, Restore, RestoreFails, disk
  <1>5. CASE StagingStep \/ ShadowStep \/ Start \/ Finished \/ UNCHANGED vars
    BY <1>1, <1>5
    DEF StagingStep, Resume, DiscardStale, StampPlanHash, ScanPending, ShadowStep,
        ShadowsTaken, TakeShadow, ShadowFails, Start, Finished, vars, disk
  <1> QED
    BY <1>2, <1>3, <1>4, <1>5 DEF Next, Run

(* Canonical bytes whose marker exists are taken back by a rollback only:  *)
(* no kill, retry, failed promotion or later run of the plan loses them.   *)
THEOREM MarkedWorkKept == Spec => CompletedWorkUndoneOnlyByRollback
  <1> DEFINE Step == \A i \in Task : Id(i) \in markers /\ IsNew(i) /\ planHash = "this"
                                      => IsNew(i)' \/ pc = "rollback"
  <1>1. IInv /\ [Next]_vars => [Step]_vars
    BY LiveChanges
  <1>2. Spec => [][Step]_vars
    BY <1>1, Invariance, PTL DEF Spec
  <1> QED
    BY <1>2 DEF CompletedWorkUndoneOnlyByRollback
-----------------------------------------------------------------------------
(***************************************************************************)
(* Whole files and their shadows: what apply restores, and what it can     *)
(* still restore, for every plan, tree and environment in which shadows    *)
(* are hard links.  (A shadow copied by a process that is killed half-way  *)
(* is taken for a complete one by the next; see the README.)               *)
(***************************************************************************)
(* Shadows are hard links, and whole files absent before apply are fetched *)
(* in full, which is how diagnose marks them (file_compare.go).            *)
Linked == LinkMode = "link" /\ Missing \cap WholeFiles \subseteq FetchFull

(* Before the directory is this plan's, nothing has been done.             *)
PristineInv ==
  /\ planHash # "this" => \A f \in WholeFiles : live[f] = Origin[f]
  /\ pc = "fresh" => /\ planHash # "this"
                     /\ \A f \in WholeFiles : shadow[f].kind = "none"

(* A whole file and its shadow are each one of the two files.              *)
WholeInv ==
  \A f \in WholeFiles :
    /\ live[f] \in {Origin[f], AllOf("new")}
    /\ planHash = "this" /\ shadow[f].kind = "own"
         => shadow[f].data \in {Origin[f], AllOf("new")}

(* Until a verification, a whole file that is shadowed is in its shadow,   *)
(* and one that is not is as it was.                                       *)
RecoverableInv ==
  /\ pc = "cleanup" => verified
  /\ planHash = "this" /\ ~verified =>
       \A f \in WholeFiles \ FetchFull :
         IF shadow[f].kind = "own" THEN shadow[f].data = Origin[f] ELSE live[f] = Origin[f]

(* What pass 1 leaves to the loop has its shadow.                          *)
TakenInv ==
  /\ taken \cap FetchFull = {}
  /\ pc \in {"staging", "fresh", "scan"} => taken = {}
  /\ pc \in {"shadow", "prime", "loop", "mark", "verify"}
       => \A f \in taken \cap WholeFiles : shadow[f].kind # "none"
  /\ pc = "shadow" => \A i \in Outstanding :
       Plan[i].file \in WholeFiles \ FetchFull => Plan[i].file \in todo \cup taken
  /\ pc \in {"prime", "loop", "mark"} => \A i \in Outstanding :
       Plan[i].file \in WholeFiles \ FetchFull => Plan[i].file \in taken

(* The rollback and what it leaves.                                        *)
RollbackInv ==
  /\ pc \notin {"rollback", "down"} => failed = {}
  /\ pc = "rollback" \/ exit = RollbackFailed =>
       /\ planHash = "this"
       /\ todo \cap failed = {} /\ todo \cup failed \subseteq taken
       /\ \A f \in (todo \cup failed) \cap WholeFiles : shadow[f].kind # "none"
  /\ ~verified /\ pc = "rollback" =>
       \A f \in (taken \ (todo \cup failed)) \cap WholeFiles : live[f] = Origin[f]
  /\ RollbackRestoresShadowed

(* Without faults, and with nothing undone, nothing is left undone.        *)
ResumeInv ==
  ~restored /\ runs > FaultyRuns =>
    /\ pc # "down" => ~promotionFailed /\ ~budgetExhausted
    /\ pc # "rollback"
    /\ pc = "down" => exit = Success

TreesInv == PristineInv /\ WholeInv /\ RecoverableInv
SInv == TreesInv /\ TakenInv /\ RollbackInv /\ ResumeInv
-----------------------------------------------------------------------------
LEMMA Indices == WholeFiles \subseteq Files /\ FetchFull \subseteq Files
  BY FileAssumption DEF FileAssumption

(* A whole file of the plan that is one of the two files is not absent,    *)
(* unless it was absent at first; and it is canonical if its chunk is.     *)
LEMMA WholeFacts ==
  ASSUME NEW i \in Task, live[Plan[i].file] \in {Origin[Plan[i].file], AllOf("new")}
  PROVE  /\ live[Plan[i].file] = Absent => Plan[i].file \in Missing
         /\ IsNew(i) => live[Plan[i].file] = AllOf("new")
  <1>1. Plan[i].file \in Files /\ Plan[i].chunk \in Chunk
    BY PlanFacts
  <1>2. /\ Absent[Plan[i].chunk] = "none"
        /\ AllOf("old")[Plan[i].chunk] = "old"
        /\ AllOf("new")[Plan[i].chunk] = "new"
    BY <1>1 DEF Absent, AllOf
  <1>3. Origin[Plan[i].file] = IF Plan[i].file \in Missing THEN Absent ELSE AllOf("old")
    BY <1>1 DEF Origin
  <1> QED
    BY <1>2, <1>3 DEF IsNew

(* Where neither whole files nor shadows change, the trees stay as they are.*)
LEMMA TreesKept ==
  ASSUME TreesInv, planHash' = planHash, verified' = verified,
         pc' = "fresh" => pc = "fresh", pc' # "cleanup",
         \A f \in WholeFiles : live'[f] = live[f] /\ shadow'[f] = shadow[f]
  PROVE  TreesInv'
  BY DEF TreesInv, PristineInv, WholeInv, RecoverableInv

(* Writing a page changes no whole file.                                   *)
LEMMA PageKeepsWhole ==
  ASSUME TypeOK, NEW i \in Task, Plan[i].file \notin WholeFiles, NEW b,
         WritePage(Plan[i].file, Plan[i].chunk, b)
  PROVE  \A f \in WholeFiles : live'[f] = live[f] /\ shadow'[f] = shadow[f]
  BY Indices DEF WritePage, TypeOK

(* A process that is gone has nothing to restore or to resume.             *)
LEMMA DownKeeps ==
  ASSUME pc' \in {"down", "staging"}, exit' \in {Running, Killed, GenericError},
         taken' = {} \/ (taken' = taken /\ taken \cap FetchFull = {} /\ pc' = "down"),
         failed' = {} \/ (failed' = failed /\ pc' = "down")
  PROVE  TakenInv' /\ RollbackInv'
  BY DEF TakenInv, RollbackInv, RollbackRestoresShadowed, Running, Killed, GenericError,
         RollbackFailed, RollbackCompleted
-----------------------------------------------------------------------------
LEMMA SInit == Init => SInv
  <1> SUFFICES ASSUME Init PROVE SInv
    OBVIOUS
  <1>1. TreesInv
    <2>1. \A f \in WholeFiles : live[f] = Origin[f] /\ planHash # "this"
      BY DEF Init
    <2> QED
      BY <2>1 DEF Init, TreesInv, PristineInv, WholeInv, RecoverableInv
  <1>2. TakenInv /\ RollbackInv
    BY DEF Init, TakenInv, RollbackInv, RollbackRestoresShadowed, Running,
           RollbackFailed, RollbackCompleted
  <1>3. ResumeInv
    BY ParameterAssumption DEF Init, ResumeInv, ParameterAssumption
  <1> QED
    BY <1>1, <1>2, <1>3 DEF SInv

LEMMA SStart == IInv /\ SInv /\ Start => SInv'
  <1> SUFFICES ASSUME IInv, SInv, Start PROVE SInv'
    OBVIOUS
  <1>1. TreesInv'
    BY TreesKept DEF SInv, Start, disk
  <1>2. TakenInv' /\ RollbackInv'
    <2>1. pc' = "staging" /\ exit' = Running /\ taken' = {} /\ failed' = {}
      BY DEF Start, ForgetProcess
    <2> QED
      BY <2>1, DownKeeps
  <1>3. ResumeInv'
    BY DEF Start, ForgetProcess, ResumeInv
  <1> QED
    BY <1>1, <1>2, <1>3 DEF SInv

LEMMA SCrash == Linked /\ IInv /\ SInv /\ Crash => SInv'
  <1> SUFFICES ASSUME Linked, IInv, SInv, Crash PROVE SInv'
    OBVIOUS
  <1> USE DEF SInv
  <1>1. pc' = "down" /\ exit' = Killed /\ verified' = verified
    BY DEF Crash, Exit
  <1>2. TreesInv'
    <2>1. CASE UNCHANGED disk
      BY <1>1, <2>1, TreesKept DEF disk
    <2>2. CASE HalfDiscarded
      BY <1>1, <2>2 DEF HalfDiscarded, TreesInv, PristineInv, WholeInv, RecoverableInv
    <2>3. CASE HalfCopied
      BY <2>3 DEF HalfCopied, Linked
    <2>4. CASE HalfWritten
      <3>1. \A f \in WholeFiles : live'[f] = live[f] /\ shadow'[f] = shadow[f]
        BY <2>4, PageKeepsWhole DEF HalfWritten, IInv, TypeOK
      <3> QED
        BY <1>1, <2>4, <3>1, TreesKept DEF HalfWritten
    <2>5. CASE HalfCleaned
      <3>1. PICK S \in SUBSET Files :
              shadow' = [f \in Files |-> IF f \in S THEN NoShadow ELSE shadow[f]]
        BY <2>5 DEF HalfCleaned
      <3>2. \A f \in WholeFiles : shadow'[f] = NoShadow \/ shadow'[f] = shadow[f]
        BY <3>1, Indices
      <3>3. live' = live /\ planHash' = planHash /\ verified
        BY <2>5 DEF HalfCleaned, TreesInv, RecoverableInv
      <3> QED
        BY <1>1, <3>2, <3>3
        DEF TreesInv, PristineInv, WholeInv, RecoverableInv, NoShadow
    <2> QED
      BY <2>1, <2>2, <2>3, <2>4, <2>5 DEF Crash
  <1>3. TakenInv' /\ RollbackInv'
    BY <1>1, DownKeeps DEF Crash, ForgetProcess
  <1>4. ResumeInv'
    BY ParameterAssumption
    DEF Crash, Fault, ResumeInv, IInv, TypeOK, ParameterAssumption
  <1> QED
    BY <1>2, <1>3, <1>4
-----------------------------------------------------------------------------
LEMMA SStaging == IInv /\ SInv /\ StagingStep => SInv'
  <1> SUFFICES ASSUME IInv, SInv, StagingStep PROVE SInv'
    OBVIOUS
  <1> USE DEF SInv, Goto, disk, pool
  <1>1. CASE Resume
    <2>1. TreesInv'
      BY <1>1, TreesKept DEF Resume
    <2>2. TakenInv' /\ RollbackInv' /\ ResumeInv'
      BY <1>1 DEF Resume, IInv, ControlInv, TakenInv, RollbackInv, RollbackRestoresShadowed,
                  ResumeInv, Running, RollbackFailed, RollbackCompleted
    <2> QED
      BY <2>1, <2>2
  <1>2. CASE DiscardStale
    <2>1. \A f \in WholeFiles : shadow'[f] = NoShadow
      BY <1>2, Indices DEF DiscardStale
    <2>2. TreesInv'
      BY <1>2, <2>1 DEF DiscardStale, TreesInv, PristineInv, WholeInv, RecoverableInv, NoShadow
    <2>3. TakenInv' /\ RollbackInv' /\ ResumeInv'
      BY <1>2 DEF DiscardStale, IInv, ControlInv, TakenInv, RollbackInv,
                  RollbackRestoresShadowed, ResumeInv, Running, RollbackFailed,
                  RollbackCompleted
    <2> QED
      BY <2>2, <2>3
  <1>3. CASE StampPlanHash
    <2>1. TreesInv'
      BY <1>3 DEF StampPlanHash, TreesInv, PristineInv, WholeInv, RecoverableInv
    <2>2. TakenInv' /\ RollbackInv' /\ ResumeInv'
      BY <1>3 DEF StampPlanHash, IInv, ControlInv, TakenInv, RollbackInv,
                  RollbackRestoresShadowed, ResumeInv, Running, RollbackFailed,
                  RollbackCompleted
    <2> QED
      BY <2>1, <2>2
  <1>4. CASE ScanPending
    <2>1. TreesInv'
      BY <1>4, TreesKept DEF ScanPending, Exit
    <2>2. CASE Pending = {}
      BY <1>4, <2>1, <2>2
      DEF ScanPending, Exit, IInv, ControlInv, TakenInv, RollbackInv,
          RollbackRestoresShadowed, ResumeInv, Running, Success, RollbackFailed,
          RollbackCompleted
    <2>3. CASE Pending # {}
      <3>1. Outstanding' = Pending /\ todo' = {Plan[i].file : i \in Pending}
        <4>1. Pending = Unfed(1, markers)
          BY PlanFacts DEF Pending, Unfed, Task
        <4> QED
          BY <1>4, <2>3, <4>1 DEF ScanPending, IInv, ControlInv, Early, Outstanding, Unfed, Id
      <3>2. pc' = "shadow" /\ exit' = Running /\ taken' = taken /\ failed' = {}
        BY <1>4, <2>3 DEF ScanPending, IInv, ControlInv, RollbackInv
      <3>3. TakenInv'
        <4>1. taken = {}
          BY <1>4 DEF ScanPending, TakenInv
        <4> QED
          BY <3>1, <3>2, <4>1 DEF TakenInv
      <3>4. RollbackInv' /\ ResumeInv'
        BY <1>4, <3>2 DEF ScanPending, IInv, ControlInv, Early, RollbackInv,
          RollbackRestoresShadowed, ResumeInv, Running, RollbackFailed, RollbackCompleted
      <3> QED
        BY <2>1, <3>3, <3>4
    <2> QED
      BY <2>2, <2>3
  <1> QED
    BY <1>1, <1>2, <1>3, <1>4 DEF StagingStep

LEMMA SShadow == Linked /\ IInv /\ SInv /\ ShadowStep => SInv'
  <1> SUFFICES ASSUME Linked, IInv, SInv, ShadowStep PROVE SInv'
    OBVIOUS
  <1> USE DEF SInv, Goto, disk, pool
  <1>1. pc = "shadow" /\ planHash = "this" /\ exit = Running
    BY DEF ShadowStep, ShadowsTaken, TakeShadow, ShadowFails, IInv, ControlInv, Staged
  <1>2. CASE ShadowsTaken
    <2>1. TreesInv'
      BY <1>2, TreesKept DEF ShadowsTaken
    <2>2. Outstanding' = Outstanding
      BY <1>2 DEF ShadowsTaken, Outstanding, Unfed, Id
    <2>3. TakenInv'
      BY <1>2, <2>2 DEF ShadowsTaken, TakenInv
    <2>4. RollbackInv' /\ ResumeInv'
      BY <1>1, <1>2 DEF ShadowsTaken, RollbackInv, RollbackRestoresShadowed, ResumeInv,
                        Running, RollbackFailed, RollbackCompleted
    <2> QED
      BY <2>1, <2>3, <2>4
  <1>3. ASSUME NEW f \in Files, TakeShadow(f)
        PROVE  SInv'
    <2>1. Outstanding' = Outstanding /\ live' = live /\ pc' = "shadow"
      BY <1>1, <1>3 DEF TakeShadow, Outstanding, Unfed, Id
    <2>2. /\ \A g \in WholeFiles : g # f => shadow'[g] = shadow[g]
          /\ shadow'[f] = shadow[f] \/ (shadow[f].kind = "none" /\ shadow'[f].kind = "link")
          /\ NeedsShadow(f) => shadow'[f].kind # "none"
      BY <1>3, Indices DEF TakeShadow, ShadowAfterTake, LinkedShadow, Linked, IInv, TypeOK
    <2>3. TreesInv'
      BY <1>1, <1>3, <2>1, <2>2
      DEF TakeShadow, TreesInv, PristineInv, WholeInv, RecoverableInv
    <2>4. TakenInv'
      <3>1. taken' \cap FetchFull = {} /\ \A g \in taken' \cap WholeFiles : shadow'[g].kind # "none"
        BY <1>1, <1>3, <2>2 DEF TakeShadow, TakenInv, NeedsShadow
      <3>2. ASSUME NEW i \in Outstanding, Plan[i].file \in WholeFiles \ FetchFull
            PROVE  Plan[i].file \in todo' \cup taken'
        <4>1. Plan[i].file \in todo \cup taken
          BY <1>1, <3>2 DEF TakenInv
        <4>2. Plan[i].file = f => NeedsShadow(f)
          BY <3>2, WholeFacts, OutstandingTasks
          DEF NeedsShadow, Linked, TreesInv, WholeInv, IInv
        <4> QED
          BY <1>3, <4>1, <4>2 DEF TakeShadow
      <3> QED
        BY <2>1, <3>1, <3>2 DEF TakenInv
    <2>5. RollbackInv' /\ ResumeInv'
      BY <1>1, <1>3 DEF TakeShadow, RollbackInv, RollbackRestoresShadowed, ResumeInv,
                        Running, RollbackFailed, RollbackCompleted
    <2> QED
      BY <2>3, <2>4, <2>5
  <1>4. ASSUME NEW f \in Files, ShadowFails(f)
        PROVE  SInv'
    <2>1. UNCHANGED disk /\ pc' = "down" /\ exit' = GenericError
      BY <1>4 DEF ShadowFails, Exit, Linked
    <2>2. TreesInv'
      BY <1>4, <2>1, TreesKept DEF ShadowFails
    <2>3. TakenInv' /\ RollbackInv'
      BY <1>4, <2>1, DownKeeps DEF ShadowFails, TakenInv
    <2>4. ResumeInv'
      BY <1>4, ParameterAssumption
      DEF ShadowFails, Fault, ResumeInv, IInv, TypeOK, ParameterAssumption
    <2> QED
      BY <2>2, <2>3, <2>4
  <1> QED
    BY <1>2, <1>3, <1>4 DEF ShadowStep
-----------------------------------------------------------------------------
(* The loop only takes tasks out of what is outstanding.                   *)
LEMMA Shrinks ==
  ASSUME IInv, pc \in {"prime", "loop", "mark"}, NEW busy, busy \subseteq inflight,
         markers \subseteq markers', Feed(busy, markers')
  PROVE  Outstanding' \subseteq Outstanding
  <1>1. busy \subseteq Task /\ cursor \in 1 .. Len(Plan) + 1 /\ \A i \in busy : i < cursor
    BY DEF IInv, TypeOK, PoolInv
  <1>2. inflight' \cup Unfed(cursor', markers') = busy \cup Unfed(cursor, markers')
    BY <1>1, FeedKeeps
  <1>3. Unfed(cursor, markers') \subseteq Unfed(cursor, markers)
    BY DEF Unfed, Id
  <1> QED
    BY <1>2, <1>3 DEF Outstanding

(* The steps of the loop that go on, whatever they do to the tree.         *)
LEMMA LoopGoesOn ==
  ASSUME IInv, TakenInv, RollbackInv, ResumeInv,
         pc \in {"prime", "loop", "mark"}, pc' \in {"prime", "loop", "mark"},
         exit' = exit, taken' = taken, failed' = failed, runs' = runs,
         restored' = restored, Outstanding' \subseteq Outstanding,
         \A f \in WholeFiles : shadow[f].kind # "none" => shadow'[f].kind # "none",
         runs > FaultyRuns =>
           promotionFailed' = promotionFailed /\ budgetExhausted' = budgetExhausted
  PROVE  TakenInv' /\ RollbackInv' /\ ResumeInv'
  <1>1. exit = Running /\ failed = {}
    BY DEF IInv, ControlInv, RollbackInv
  <1>2. TakenInv'
    BY DEF TakenInv
  <1>3. RollbackInv'
    BY <1>1 DEF RollbackInv, RollbackRestoresShadowed, Running, RollbackFailed,
                RollbackCompleted
  <1>4. ResumeInv'
    BY DEF ResumeInv
  <1> QED
    BY <1>2, <1>3, <1>4

(* A file renamed over f leaves the old one to a shadow linked to it, and  *)
(* every file of the loop that can have one has a shadow.                  *)
LEMMA SwapKeepsTrees ==
  ASSUME IInv, TreesInv, TakenInv, pc = "loop", NEW i \in inflight,
         Plan[i].file \in WholeFiles, SwapWholeFile(Plan[i].file, "new"),
         planHash' = planHash, verified' = verified, pc' = "mark"
  PROVE  TreesInv'
  <1> DEFINE f == Plan[i].file
  <1>1. /\ f \in WholeFiles /\ f \in Files /\ planHash = "this"
        /\ live \in [Files -> Content] /\ shadow \in [Files -> Shadow]
    BY Indices DEF IInv, TypeOK, ControlInv, Staged
  <1>2. /\ live'[f] = AllOf("new")
        /\ \A g \in WholeFiles : g # f => live'[g] = live[g] /\ shadow'[g] = shadow[g]
        /\ shadow[f].kind = "link" => shadow'[f].kind = "own" /\ shadow'[f].data = live[f]
        /\ shadow[f].kind # "link" => shadow'[f] = shadow[f]
    BY <1>1, Indices DEF SwapWholeFile, OwnShadow
  <1>3. f \notin FetchFull => shadow[f].kind \in {"link", "own"}
    <2>1. f \notin FetchFull => f \in taken
      BY <1>1 DEF TakenInv, Outstanding
    <2> QED
      BY <1>1, <2>1 DEF TakenInv, Shadow, ShadowKinds
  <1>4. WholeInv'
    <2>1. ASSUME NEW g \in WholeFiles
          PROVE  /\ live'[g] \in {Origin[g], AllOf("new")}
                 /\ shadow'[g].kind = "own" => shadow'[g].data \in {Origin[g], AllOf("new")}
      <3>1. CASE g = f
        BY <1>1, <1>2, <3>1 DEF TreesInv, WholeInv
      <3>2. CASE g # f
        BY <1>1, <1>2, <3>2 DEF TreesInv, WholeInv
      <3> QED
        BY <3>1, <3>2
    <2> QED
      BY <2>1 DEF WholeInv
  <1>5. RecoverableInv'
    <2>1. ASSUME ~verified, NEW g \in WholeFiles \ FetchFull
          PROVE  IF shadow'[g].kind = "own" THEN shadow'[g].data = Origin[g]
                 ELSE live'[g] = Origin[g]
      <3>1. CASE g = f
        BY <1>1, <1>2, <1>3, <2>1, <3>1 DEF TreesInv, RecoverableInv
      <3>2. CASE g # f
        BY <1>1, <1>2, <2>1, <3>2 DEF TreesInv, RecoverableInv
      <3> QED
        BY <3>1, <3>2
    <2> QED
      BY <2>1 DEF RecoverableInv
  <1> QED
    BY <1>1, <1>4, <1>5 DEF TreesInv, PristineInv

LEMMA SPromote ==
  ASSUME IInv, SInv, NEW i \in Task, Promote(i)
  PROVE  SInv'
  <1> USE DEF SInv
  <1>1. /\ pc = "loop" /\ pc' = "mark" /\ i \in inflight
        /\ planHash' = planHash /\ verified' = verified
    BY DEF Promote, Goto
  <1>2. \/ Plan[i].file \in WholeFiles /\ SwapWholeFile(Plan[i].file, "new")
        \/ Plan[i].file \notin WholeFiles /\ WritePage(Plan[i].file, Plan[i].chunk, "new")
    BY DEF Promote, HashMatches
  <1>3. TreesInv'
    <2>1. CASE Plan[i].file \in WholeFiles
      BY <1>1, <1>2, <2>1, SwapKeepsTrees
    <2>2. CASE Plan[i].file \notin WholeFiles
      BY <1>1, <1>2, <2>2, PageKeepsWhole, TreesKept DEF IInv
    <2> QED
      BY <2>1, <2>2
  <1>4. \A f \in WholeFiles : shadow[f].kind # "none" => shadow'[f].kind # "none"
    <2>1. CASE SwapWholeFile(Plan[i].file, "new")
      BY <2>1, Indices DEF SwapWholeFile, OwnShadow, IInv, TypeOK
    <2>2. CASE WritePage(Plan[i].file, Plan[i].chunk, "new")
      BY <2>2 DEF WritePage
    <2> QED
      BY <1>2, <2>1, <2>2
  <1>5. Outstanding' \subseteq Outstanding
    BY DEF Promote, Outstanding, Unfed, Id
  <1>6. TakenInv' /\ RollbackInv' /\ ResumeInv'
    BY <1>1, <1>4, <1>5, LoopGoesOn DEF Promote, Goto, IInv, ControlInv
  <1> QED
    BY <1>3, <1>6

LEMMA SLoop == Linked /\ IInv /\ SInv /\ LoopStep => SInv'
  <1> SUFFICES ASSUME Linked, IInv, SInv, LoopStep PROVE SInv'
    OBVIOUS
  <1> USE DEF SInv
  <1> DEFINE SameTrees == UNCHANGED <<live, shadow, planHash, verified>>
             SameRun == UNCHANGED <<taken, failed, runs, restored>>
  <1>1. CASE Prime
    <2>1. Outstanding' \subseteq Outstanding
      <3>1. CASE Feed(inflight, markers)
        BY <1>1, <3>1, Shrinks DEF Prime, disk
      <3>2. CASE UNCHANGED <<cursor, inflight>>
        BY <1>1, <3>2 DEF Prime, disk, Outstanding, Unfed, Id
      <3> QED
        BY <1>1, <3>1, <3>2 DEF Prime
    <2>2. SameTrees /\ SameRun /\ pc = "prime" /\ pc' \in {"prime", "loop"} /\ exit' = exit
      BY <1>1 DEF Prime, Goto, disk
    <2>3. TreesInv'
      BY <2>2, TreesKept
    <2>4. TakenInv' /\ RollbackInv' /\ ResumeInv'
      BY <1>1, <2>1, <2>2, LoopGoesOn DEF Prime
    <2> QED
      BY <2>3, <2>4
  <1>2. CASE MarkDone
    <2>1. markers \subseteq markers' /\ Outstanding' \subseteq Outstanding
      BY <1>2, Shrinks DEF MarkDone
    <2>2. SameTrees /\ SameRun /\ pc = "mark" /\ pc' = "loop" /\ exit' = exit
      BY <1>2 DEF MarkDone, Goto
    <2>3. TreesInv'
      BY <2>2, TreesKept
    <2>4. TakenInv' /\ RollbackInv' /\ ResumeInv'
      BY <1>2, <2>1, <2>2, LoopGoesOn DEF MarkDone
    <2> QED
      BY <2>3, <2>4
  (* A task given up spends the budget, but only faults make it so.        *)
  <1>3. ASSUME NEW i \in Task, FetchFailed(i) \/ HashMismatch(i)
        PROVE  SInv'
    <2>1. pc = "loop" /\ i \in inflight /\ RequeueOrGiveUp(i)
      BY <1>3 DEF FetchFailed, HashMismatch
    <2>2. ~(runs > FaultyRuns)
      BY <1>3, ParameterAssumption
      DEF FetchFailed, HashMismatch, Delivered, HashMatches, Fault, IInv, TypeOK,
          ParameterAssumption
    <2>3. Outstanding' \subseteq Outstanding
      <3>1. CASE Feed(inflight \ {i}, markers)
        BY <2>1, <3>1, Shrinks DEF RequeueOrGiveUp, disk
      <3>2. CASE UNCHANGED <<cursor, inflight>>
        BY <2>1, <3>2 DEF RequeueOrGiveUp, disk, Outstanding, Unfed, Id
      <3> QED
        BY <2>1, <3>1, <3>2 DEF RequeueOrGiveUp
    <2>4. SameTrees /\ SameRun /\ pc' = "loop" /\ exit' = exit
      BY <2>1 DEF RequeueOrGiveUp, disk
    <2>5. TreesInv'
      BY <2>1, <2>4, TreesKept
    <2>6. TakenInv' /\ RollbackInv' /\ ResumeInv'
      BY <2>1, <2>2, <2>3, <2>4, LoopGoesOn
    <2> QED
      BY <2>5, <2>6
  <1>4. ASSUME NEW i \in Task, Promote(i)
        PROVE  SInv'
    BY <1>4, SPromote
  <1>5. ASSUME NEW i \in Task, PromoteFails(i)
        PROVE  SInv'
    <2>1. /\ pc = "loop" /\ pc' = "loop" /\ i \in inflight /\ exit' = exit /\ SameRun
          /\ planHash' = planHash /\ verified' = verified
          /\ Feed(inflight \ {i}, markers) /\ markers' = markers
      BY <1>5 DEF PromoteFails
    <2>2. ~(runs > FaultyRuns)
      BY <1>5, ParameterAssumption
      DEF PromoteFails, Fault, Linked, IInv, TypeOK, ParameterAssumption
    <2>3. \A f \in WholeFiles : live'[f] = live[f] /\ shadow'[f] = shadow[f]
      BY <1>5, PageKeepsWhole DEF PromoteFails, IInv
    <2>4. Outstanding' \subseteq Outstanding
      BY <2>1, Shrinks
    <2>5. TreesInv'
      BY <2>1, <2>3, TreesKept
    <2>6. TakenInv' /\ RollbackInv' /\ ResumeInv'
      BY <2>1, <2>2, <2>3, <2>4, LoopGoesOn
    <2> QED
      BY <2>5, <2>6
  <1>6. CASE LoopEnds
    <2>1. /\ pc = "loop" /\ planHash = "this" /\ exit = Running /\ failed = {}
          /\ UNCHANGED disk /\ SameTrees /\ SameRun
      BY <1>6 DEF LoopEnds, disk, IInv, ControlInv, Staged, RollbackInv
    <2>2. TreesInv'
      BY <1>6, <2>1, TreesKept DEF LoopEnds, Goto, Exit
    <2>3. \A f \in taken \cap WholeFiles : shadow'[f].kind # "none"
      BY <2>1 DEF TakenInv
    <2>4. TakenInv'
      BY <1>6, <2>1, <2>3 DEF LoopEnds, Goto, Exit, TakenInv
    <2>5. RollbackInv'
      BY <1>6, <2>1, <2>3
      DEF LoopEnds, Goto, Exit, RollbackInv, RollbackRestoresShadowed, Running,
          NetworkBudgetExhausted, RollbackFailed, RollbackCompleted
    <2>6. ResumeInv'
      BY <1>6, <2>1 DEF LoopEnds, Goto, Exit, pool, ResumeInv
    <2> QED
      BY <2>2, <2>4, <2>5, <2>6
  <1> QED
    BY <1>1, <1>2, <1>3, <1>4, <1>5, <1>6 DEF LoopStep
-----------------------------------------------------------------------------
(* Verification fails without a fault only where something was undone.     *)
LEMMA CanonicalPasses ==
  ASSUME IInv, WholeInv, pc = "verify", ~restored
  PROVE  HashesMatch
  <1>1. \A i \in Task : IsNew(i)
    BY DEF IInv, TreeInv
  <1>2. ASSUME NEW i \in Task, Plan[i].file \in WholeFiles
        PROVE  live[Plan[i].file] = AllOf("new")
    BY <1>1, <1>2, WholeFacts DEF WholeInv
  <1> QED
    BY <1>2 DEF HashesMatch, HashChecked

LEMMA SVerify == IInv /\ SInv /\ (VerifyPasses \/ VerifyFails) => SInv'
  <1> SUFFICES ASSUME IInv, SInv, VerifyPasses \/ VerifyFails PROVE SInv'
    OBVIOUS
  <1> USE DEF SInv, Goto
  <1>1. /\ pc = "verify" /\ planHash = "this" /\ exit = Running /\ failed = {}
        /\ UNCHANGED disk /\ exit' = exit /\ UNCHANGED <<taken, failed, runs, restored, pool>>
    BY DEF VerifyPasses, VerifyFails, IInv, ControlInv, Staged, RollbackInv
  <1>2. CASE VerifyPasses
    <2>1. TreesInv'
      BY <1>1, <1>2 DEF VerifyPasses, disk, TreesInv, PristineInv, WholeInv, RecoverableInv
    <2>2. TakenInv' /\ RollbackInv' /\ ResumeInv'
      BY <1>1, <1>2
      DEF VerifyPasses, pool, TakenInv, RollbackInv, RollbackRestoresShadowed, ResumeInv,
          Running, RollbackFailed, RollbackCompleted
    <2> QED
      BY <2>1, <2>2
  <1>3. CASE VerifyFails
    <2>1. TreesInv'
      BY <1>1, <1>3, TreesKept DEF VerifyFails, disk
    <2>2. \A f \in taken \cap WholeFiles : shadow'[f].kind # "none"
      BY <1>1 DEF disk, TakenInv
    <2>3. TakenInv' /\ RollbackInv'
      BY <1>1, <1>3, <2>2
      DEF VerifyFails, disk, TakenInv, RollbackInv, RollbackRestoresShadowed,
          Running, RollbackFailed, RollbackCompleted
    <2>4. restored \/ ~(runs > FaultyRuns)
      BY <1>1, <1>3, CanonicalPasses, ParameterAssumption
      DEF VerifyFails, Fault, TreesInv, IInv, TypeOK, ParameterAssumption
    <2>5. ResumeInv'
      BY <1>1, <2>4 DEF ResumeInv
    <2> QED
      BY <2>1, <2>3, <2>5
  <1> QED
    BY <1>2, <1>3

(* Renaming the shadow back: nothing changes for a link, and for a shadow  *)
(* of its own the original file is back.                                   *)
LEMMA SRestore ==
  ASSUME IInv, SInv, NEW f \in Files, Restore(f)
  PROVE  SInv'
  <1> USE DEF SInv
  <1>1. /\ pc = "rollback" /\ pc' = pc /\ planHash = "this" /\ f \in todo
        /\ exit = Running /\ exit' = exit /\ shadow[f].kind # "none"
        /\ todo' = todo \ {f} /\ restored' = TRUE
        /\ UNCHANGED <<planHash, verified, taken, failed, runs, pool>>
    BY DEF Restore, IInv, ControlInv, Staged
  <1>2. /\ f \in taken /\ f \notin FetchFull /\ f \notin failed
        /\ todo \cap failed = {} /\ todo \cup failed \subseteq taken
    BY <1>1 DEF RollbackInv, TakenInv
  <1>3. /\ live'[f] = ShadowContent(f)
        /\ \A g \in WholeFiles : g # f => live'[g] = live[g] /\ shadow'[g] = shadow[g]
        /\ shadow[f].kind = "link" => shadow'[f] = shadow[f]
        /\ shadow[f].kind # "link" => shadow'[f].kind = "none"
    BY Indices DEF Restore, NoShadow, IInv, TypeOK
  <1>4. shadow[f].kind \in {"link", "own"}
    BY <1>1 DEF IInv, TypeOK, Shadow, ShadowKinds
  <1>5. f \in WholeFiles => live'[f] \in {Origin[f], AllOf("new")}
    BY <1>1, <1>3, <1>4 DEF ShadowContent, TreesInv, WholeInv
  <1>6. f \in WholeFiles /\ ~verified => live'[f] = Origin[f]
    BY <1>1, <1>2, <1>3, <1>4 DEF ShadowContent, TreesInv, RecoverableInv
  <1>7. TreesInv'
    <2>1. WholeInv'
      BY <1>1, <1>3, <1>5 DEF TreesInv, WholeInv
    <2>2. ASSUME ~verified, NEW g \in WholeFiles \ FetchFull
          PROVE  IF shadow'[g].kind = "own" THEN shadow'[g].data = Origin[g]
                 ELSE live'[g] = Origin[g]
      <3>1. CASE g = f
        BY <1>3, <1>4, <1>6, <2>2, <3>1
      <3>2. CASE g # f
        BY <1>1, <1>3, <2>2, <3>2 DEF TreesInv, RecoverableInv
      <3> QED
        BY <3>1, <3>2
    <2> QED
      BY <1>1, <2>1, <2>2 DEF TreesInv, PristineInv, RecoverableInv
  <1>8. TakenInv'
    BY <1>1 DEF TakenInv
  <1>9. RollbackInv'
    <2>1. \A g \in (todo' \cup failed) \cap WholeFiles : g # f /\ shadow'[g].kind # "none"
      BY <1>1, <1>2, <1>3 DEF RollbackInv
    <2>2. ASSUME ~verified, NEW g \in (taken \ (todo' \cup failed)) \cap WholeFiles
          PROVE  live'[g] = Origin[g]
      BY <1>1, <1>3, <1>6, <2>2 DEF RollbackInv
    <2> QED
      BY <1>1, <1>2, <2>1, <2>2
      DEF RollbackInv, RollbackRestoresShadowed, Running, RollbackFailed, RollbackCompleted
  <1>10. ResumeInv'
    BY <1>1 DEF ResumeInv
  <1> QED
    BY <1>7, <1>8, <1>9, <1>10

LEMMA SEnd == IInv /\ SInv /\ EndStep => SInv'
  <1> SUFFICES ASSUME IInv, SInv, EndStep PROVE SInv'
    OBVIOUS
  <1> USE DEF SInv, Exit
  <1>1. ASSUME NEW f \in Files, RestoreFails(f)
        PROVE  SInv'
    <2>1. /\ pc = "rollback" /\ pc' = pc /\ exit = Running /\ exit' = exit /\ f \in todo
          /\ UNCHANGED disk /\ verified' = verified
      BY <1>1 DEF RestoreFails, IInv, ControlInv
    <2>2. TreesInv'
      BY <2>1, TreesKept DEF disk
    <2>3. TakenInv' /\ ResumeInv'
      BY <1>1, <2>1 DEF RestoreFails, TakenInv, ResumeInv
    <2>4. todo' \cup failed' = todo \cup failed /\ todo' \cap failed' = {}
      BY <1>1, <2>1 DEF RestoreFails, RollbackInv
    <2>5. RollbackInv'
      BY <1>1, <2>1, <2>4
      DEF RestoreFails, disk, RollbackInv, RollbackRestoresShadowed, Running,
          RollbackFailed, RollbackCompleted
    <2> QED
      BY <2>2, <2>3, <2>5
  <1>2. CASE RollbackEnds
    <2>1. TreesInv'
      BY <1>2, TreesKept DEF RollbackEnds, disk
    <2>2. TakenInv' /\ ResumeInv'
      BY <1>2 DEF RollbackEnds, TakenInv, ResumeInv
    <2>3. RollbackInv'
      BY <1>2 DEF RollbackEnds, disk, RollbackInv, RollbackRestoresShadowed,
                  RollbackFailed, RollbackCompleted
    <2> QED
      BY <2>1, <2>2, <2>3
  <1>3. CASE Cleanup
    <2>1. \A f \in WholeFiles : shadow'[f] = NoShadow
      BY <1>3, Indices DEF Cleanup
    <2>2. TreesInv'
      BY <1>3, <2>1 DEF Cleanup, NoShadow, TreesInv, PristineInv, WholeInv, RecoverableInv
    <2>3. TakenInv' /\ RollbackInv' /\ ResumeInv'
      BY <1>3 DEF Cleanup, TakenInv, RollbackInv, RollbackRestoresShadowed, ResumeInv,
                  Success, RollbackFailed, RollbackCompleted
    <2> QED
      BY <2>2, <2>3
  <1> QED
    BY <1>1, <1>2, <1>3, SVerify, SRestore DEF EndStep

LEMMA SStutter == SInv /\ UNCHANGED vars => SInv'
  <1> SUFFICES ASSUME SInv, UNCHANGED vars PROVE SInv'
    OBVIOUS
  <1>1. TreesInv'
    BY DEF SInv, vars, disk, TreesInv, PristineInv, WholeInv, RecoverableInv
  <1>2. Outstanding' = Outstanding
    BY DEF vars, disk, pool, Outstanding, Unfed, Id
  <1>3. TakenInv' /\ RollbackInv' /\ ResumeInv'
    BY <1>2 DEF SInv, vars, disk, pool, TakenInv, RollbackInv, RollbackRestoresShadowed,
                ResumeInv
  <1> QED
    BY <1>1, <1>3 DEF SInv

LEMMA SNext == Linked /\ IInv /\ SInv /\ [Next]_vars => SInv'
  <1>1. SInv /\ Finished => SInv'
    BY SStutter DEF Finished
  <1> QED
    BY <1>1, SStart, SCrash, SStaging, SShadow, SLoop, SEnd, SStutter DEF Next, Run
-----------------------------------------------------------------------------
(* With hard-linked shadows, what an invocation knows of its whole files   *)
(* and their shadows holds in every run.                                   *)
THEOREM ShadowInvariance == Spec => [](Linked => SInv)
  <1>1. Init => (Linked => SInv)
    BY SInit
  <1>2. IInv /\ (Linked => SInv) /\ [Next]_vars => (Linked => SInv)'
    BY SNext DEF Linked
  <1> QED
    BY <1>1, <1>2, Invariance, PTL DEF Spec

(* At every instant, whatever was killed or rolled back before, a whole    *)
(* file is entirely the old one or entirely the canonical one.             *)
THEOREM WholeFilesAtomic == Spec => [](Linked => WholeFilesSwapAtomically)
  <1>1. SInv => WholeFilesSwapAtomically
    BY DEF SInv, TreesInv, WholeInv, WholeFilesSwapAtomically
  <1> QED
    BY <1>1, ShadowInvariance, PTL

(* While an invocation may roll back, and where a restoration has failed,  *)
(* the shadow of each whole file holds the original.                       *)
THEOREM ShadowsRecoverable == Spec => [](Linked => ShadowsIntact)
  <1>1. SInv /\ IInv => ShadowsIntact
    <2> SUFFICES ASSUME SInv, IInv PROVE ShadowsIntact
      OBVIOUS
    <2>1. ASSUME ~verified, planHash = "this", NEW f \in taken \cap WholeFiles,
                 shadow[f].kind # "none"
          PROVE  ShadowContent(f) = Origin[f]
      <3>1. shadow[f].kind \in {"link", "own"} /\ f \notin FetchFull
        BY <2>1, Indices DEF IInv, TypeOK, Shadow, ShadowKinds, SInv, TakenInv
      <3> QED
        BY <2>1, <3>1 DEF SInv, TreesInv, RecoverableInv, ShadowContent
    <2>2. pc \in {"prime", "loop", "mark", "verify"} =>
            planHash = "this" /\ \A f \in taken \cap WholeFiles : shadow[f].kind # "none"
      BY DEF SInv, TakenInv, IInv, ControlInv, Staged
    <2>3. pc = "rollback" \/ exit = RollbackFailed =>
            /\ planHash = "this" /\ todo \cup failed \subseteq taken
            /\ \A f \in (todo \cup failed) \cap WholeFiles : shadow[f].kind # "none"
      BY DEF SInv, RollbackInv
    <2> QED
      BY <2>1, <2>2, <2>3 DEF ShadowsIntact
  <1> QED
    BY <1>1, ShadowInvariance, Invariance, PTL

(* Exit 10 is true of the whole files that the invocation has shadowed.    *)
THEOREM RollbackTruthful == Spec => [](Linked => RollbackRestoresShadowed)
  <1>1. SInv => RollbackRestoresShadowed
    BY DEF SInv, RollbackInv
  <1> QED
    BY <1>1, ShadowInvariance, PTL

(* Whatever kills, exhausted budgets and failures came before, as long as  *)
(* nothing was renamed back, an invocation that returns and in which       *)
(* nothing fails has completed the plan.                                   *)
THEOREM ResumptionCompletes == Spec => [](Linked => ResumeCompletes)
  <1>1. SInv => ResumeCompletes
    BY DEF SInv, ResumeInv, ResumeCompletes
  <1> QED
    BY <1>1, ShadowInvariance, PTL
-----------------------------------------------------------------------------
(***************************************************************************)
(* The rollback of a first invocation, where shadows are copies.           *)
(***************************************************************************)
(* Shadows have bytes of their own, no file of the tree is missing, and    *)
(* only a missing one is marked to be fetched in full.                     *)
Copied == LinkMode # "link" /\ Missing = {} /\ FetchFull \subseteq Missing

(* The original of f is in its shadow.                                     *)
Saved(f) == shadow[f] = OwnShadow(Origin[f])

(* What a first invocation has done to the tree and to the shadows.        *)
FirstRunInv ==
  /\ runs = 0 => pc = "down" /\ live = Origin /\ planHash # "this"
  /\ pc \notin {"down", "rollback"} => failed = {}
  /\ pc \in Early => live = Origin
  /\ pc \in {"staging", "fresh", "scan"} => taken = {}
  /\ pc = "staging" => planHash # "this"
  /\ pc \in {"fresh", "scan"} => markers = {} /\ \A f \in Files : shadow[f].kind = "none"
  /\ pc = "shadow" =>
       /\ \A f \in Files : IF f \in taken THEN Saved(f) ELSE shadow[f].kind = "none"
       /\ \A i \in Task : Plan[i].file \in todo \cup taken
  /\ pc \in {"prime", "loop", "mark", "verify"} =>
       /\ \A f \in Files : IF f \in taken THEN Saved(f) ELSE live[f] = Origin[f]
       /\ \A i \in Task : Plan[i].file \in taken
  /\ pc = "rollback" =>
       \A f \in Files : /\ f \in todo => Saved(f)
                        /\ f \notin todo \cup failed => live[f] = Origin[f]
  /\ RolledBackIsPreApply
FInv == runs <= 1 => FirstRunInv

LEMMA FInit == Init => FInv
  BY DEF Init, FInv, FirstRunInv, Early, RolledBackIsPreApply

LEMMA FStart == IInv /\ FInv /\ Start => FInv'
  <1> SUFFICES ASSUME IInv, FInv, Start, runs' <= 1 PROVE FirstRunInv'
    BY DEF FInv
  <1>1. runs = 0 /\ runs' = 1
    BY DEF Start, IInv, TypeOK
  <1>2. live = Origin /\ planHash # "this"
    BY <1>1 DEF FInv, FirstRunInv
  <1> QED
    BY <1>1, <1>2 DEF Start, ForgetProcess, disk, FirstRunInv, Early, RolledBackIsPreApply, Running,
       RollbackCompleted

(* Whatever ends an invocation without a rollback.                         *)
LEMMA FDown ==
  ASSUME IInv, FInv, pc # "down", pc' = "down", exit' # RollbackCompleted, runs' = runs
  PROVE  FInv'
  BY DEF FInv, FirstRunInv, Early, RolledBackIsPreApply

LEMMA FStaging == IInv /\ FInv /\ StagingStep => FInv'
  <1> SUFFICES ASSUME IInv, FInv, StagingStep, runs' <= 1 PROVE FirstRunInv'
    BY DEF FInv
  <1> USE DEF Goto, pool, disk
  <1>1. runs' = runs /\ runs # 0 /\ FirstRunInv /\ exit = Running
    BY DEF StagingStep, Resume, DiscardStale, StampPlanHash, ScanPending, FInv, FirstRunInv, IInv,
           ControlInv
  <1>2. CASE Resume
    BY <1>1, <1>2 DEF Resume, FirstRunInv
  <1>3. CASE DiscardStale
    <2>1. \A f \in Files : shadow'[f].kind = "none"
      BY <1>3 DEF DiscardStale, NoShadow
    <2> QED
      BY <1>1, <1>3, <2>1
      DEF DiscardStale, FirstRunInv, Early, RolledBackIsPreApply, Running, RollbackCompleted
  <1>4. CASE StampPlanHash
    BY <1>1, <1>4
    DEF StampPlanHash, FirstRunInv, Early, RolledBackIsPreApply, Running, RollbackCompleted
  <1>5. CASE ScanPending
    <2>1. CASE Pending = {}
      <3>1. pc = "scan" /\ pc' = "down" /\ exit' = Success
        BY <1>5, <2>1 DEF ScanPending, Exit
      <3> QED
        BY <1>1, <3>1, FDown DEF FInv, Success, RollbackCompleted
    <2>2. CASE Pending # {}
      <3>1. markers = {} /\ taken = {} /\ live = Origin
        BY <1>1, <1>5 DEF ScanPending, FirstRunInv, Early
      <3>2. \A i \in Task : Plan[i].file \in todo'
        BY <1>5, <2>2, <3>1 DEF ScanPending, Pending
      <3> QED
        BY <1>1, <1>5, <2>2, <3>1, <3>2
        DEF ScanPending, FirstRunInv, Early, RolledBackIsPreApply, Running, RollbackCompleted
    <2> QED
      BY <2>1, <2>2
  <1> QED
    BY <1>2, <1>3, <1>4, <1>5 DEF StagingStep

LEMMA FShadow == Copied /\ IInv /\ FInv /\ ShadowStep => FInv'
  <1> SUFFICES ASSUME Copied, IInv, FInv, ShadowStep, runs' <= 1 PROVE FirstRunInv'
    BY DEF FInv
  <1> USE DEF Goto, pool, disk
  <1>1. runs' = runs /\ runs # 0 /\ FirstRunInv /\ pc = "shadow" /\ exit = Running
    BY DEF ShadowStep, ShadowsTaken, TakeShadow, ShadowFails, FInv, FirstRunInv, IInv, ControlInv
  <1>2. CASE ShadowsTaken
    BY <1>1, <1>2
    DEF ShadowsTaken, FirstRunInv, Early, Saved, RolledBackIsPreApply, Running, RollbackCompleted
  <1>3. ASSUME NEW f \in Files, ShadowFails(f)
        PROVE  FirstRunInv'
    <2>1. pc' = "down" /\ exit' = GenericError
      BY <1>3 DEF ShadowFails, Exit
    <2> QED
      BY <1>1, <2>1, FDown DEF FInv, GenericError, RollbackCompleted
  <1>4. ASSUME NEW f \in Files, TakeShadow(f)
        PROVE  FirstRunInv'
    <2>1. /\ live' = live /\ live = Origin /\ pc' = pc /\ exit' = exit /\ failed' = failed
          /\ todo' = todo \ {f}
      BY <1>1, <1>4 DEF TakeShadow, FirstRunInv, Early
    <2>2. CASE NeedsShadow(f)
      <3>1. taken' = taken \cup {f} /\ shadow' = [shadow EXCEPT ![f] = ShadowAfterTake(f)]
        BY <1>4, <2>2 DEF TakeShadow
      <3>2. shadow[f].kind = "none" => ShadowAfterTake(f) = OwnShadow(Origin[f])
        BY <2>1 DEF ShadowAfterTake, Copied
      <3>3. f \in taken => ShadowAfterTake(f) = OwnShadow(Origin[f])
        BY <1>1 DEF FirstRunInv, Saved, ShadowAfterTake, OwnShadow
      <3>4. shadow' \in [Files -> Shadow] /\ shadow'[f] = OwnShadow(Origin[f])
              /\ \A g \in Files \ {f} : shadow'[g] = shadow[g]
        <4>1. ShadowAfterTake(f) = OwnShadow(Origin[f])
          BY <1>1, <3>2, <3>3 DEF FirstRunInv
        <4>2. OwnShadow(Origin[f]) \in Shadow
          BY ContentFacts
        <4> QED
          BY <3>1, <4>1, <4>2 DEF IInv, TypeOK
      <3>5. \A g \in Files : IF g \in taken' THEN Saved(g)' ELSE shadow'[g].kind = "none"
        BY <1>1, <3>1, <3>4 DEF FirstRunInv, Saved
      <3> QED
        BY <1>1, <2>1, <3>1, <3>5
        DEF FirstRunInv, Early, RolledBackIsPreApply, Running, RollbackCompleted
    <2>3. CASE ~NeedsShadow(f)
      <3>1. UNCHANGED <<taken, shadow>>
        BY <1>4, <2>3 DEF TakeShadow
      <3>2. ASSUME NEW i \in Task
            PROVE  Plan[i].file # f
        <4>1. Plan[i].file \in Files /\ Plan[i].chunk \in Chunk
          BY PlanFacts
        <4>2. AllOf("old")[Plan[i].chunk] = "old" /\ Absent[Plan[i].chunk] = "none"
          BY <4>1 DEF AllOf, Absent
        <4>3. Origin[f] = AllOf("old")
          BY DEF Origin, Copied
        <4>4. live[f] = Absent
          BY <2>3 DEF NeedsShadow, Copied
        <4> QED
          BY <2>1, <4>2, <4>3, <4>4
      <3> QED
        BY <1>1, <2>1, <3>1, <3>2
        DEF FirstRunInv, Early, Saved, RolledBackIsPreApply, Running, RollbackCompleted
    <2> QED
      BY <2>2, <2>3
  <1> QED
    BY <1>2, <1>3, <1>4 DEF ShadowStep

(* The loop changes files of its tasks only, and no saved shadow.          *)
LEMMA FTouched ==
  ASSUME TypeOK, NEW i \in Task, Saved(Plan[i].file), NEW b,
         \/ SwapWholeFile(Plan[i].file, b) \/ WritePage(Plan[i].file, Plan[i].chunk, b)
  PROVE  shadow' = shadow /\ \A f \in Files \ {Plan[i].file} : live'[f] = live[f]
  BY PlanFacts DEF SwapWholeFile, WritePage, Saved, OwnShadow, TypeOK

LEMMA FGoesOn ==
  ASSUME FirstRunInv, pc \in {"prime", "loop", "mark", "verify"}, runs # 0, runs' = runs,
         pc' \in {"prime", "loop", "mark", "verify"}, exit' = Running,
         UNCHANGED <<shadow, taken, failed>>,
         \A f \in Files \ taken : live'[f] = live[f]
  PROVE  FirstRunInv'
  BY DEF FirstRunInv, Early, Saved, RolledBackIsPreApply, Running, RollbackCompleted

LEMMA FToRollback ==
  ASSUME FirstRunInv, pc \in {"loop", "verify"}, runs # 0, runs' = runs,
         pc' = "rollback", exit' = Running, todo' = taken, UNCHANGED <<live, shadow, taken, failed>>
  PROVE  FirstRunInv'
  BY DEF FirstRunInv, Early, Saved, RolledBackIsPreApply, Running, RollbackCompleted

LEMMA FLoop == IInv /\ FInv /\ LoopStep => FInv'
  <1> SUFFICES ASSUME IInv, FInv, LoopStep, runs' <= 1 PROVE FirstRunInv'
    BY DEF FInv
  <1> USE DEF Goto, pool, disk
  <1>1. runs' = runs /\ runs # 0 /\ FirstRunInv /\ pc \in {"prime", "loop", "mark"}
          /\ exit = Running /\ failed' = failed /\ taken' = taken
    BY DEF LoopStep, Prime, MarkDone, LoopEnds, FetchFailed, HashMismatch, Promote, PromoteFails,
           RequeueOrGiveUp, FInv, FirstRunInv, IInv, ControlInv
  <1>2. CASE Prime \/ MarkDone \/ \E i \in Task : FetchFailed(i) \/ HashMismatch(i)
    <2>1. UNCHANGED <<live, shadow>> /\ pc' \in {"prime", "loop", "mark"} /\ exit' = exit
      BY <1>1, <1>2 DEF Prime, MarkDone, FetchFailed, HashMismatch, RequeueOrGiveUp
    <2> QED
      BY <1>1, <2>1, FGoesOn
  <1>3. ASSUME NEW i \in Task, Promote(i) \/ PromoteFails(i)
        PROVE  FirstRunInv'
    <2>1. pc = "loop" /\ Plan[i].file \in taken /\ Plan[i].file \in Files
      BY <1>1, <1>3, PlanFacts DEF Promote, PromoteFails, FirstRunInv
    <2>2. Saved(Plan[i].file)
      BY <1>1, <2>1 DEF FirstRunInv
    <2>3. shadow' = shadow /\ \A f \in Files \ {Plan[i].file} : live'[f] = live[f]
      <3>1. CASE UNCHANGED <<live, shadow>>
        BY <3>1
      <3>2. ASSUME NEW b, \/ SwapWholeFile(Plan[i].file, b)
                          \/ WritePage(Plan[i].file, Plan[i].chunk, b)
            PROVE  shadow' = shadow /\ \A f \in Files \ {Plan[i].file} : live'[f] = live[f]
        BY <2>2, <3>2, FTouched DEF IInv
      <3> QED
        BY <1>3, <3>1, <3>2 DEF Promote, PromoteFails
    <2>4. pc' \in {"loop", "mark"} /\ exit' = exit
      BY <1>3, <2>1 DEF Promote, PromoteFails
    <2> QED
      BY <1>1, <2>1, <2>3, <2>4, FGoesOn
  <1>4. CASE LoopEnds
    <2>1. CASE pc' = "down" /\ exit' = NetworkBudgetExhausted
      BY <1>1, <2>1, FDown DEF FInv, NetworkBudgetExhausted, RollbackCompleted
    <2>2. CASE pc' = "rollback" /\ todo' = taken /\ exit' = exit
      BY <1>1, <1>4, <2>2, FToRollback DEF LoopEnds
    <2>3. CASE pc' = "verify" /\ exit' = exit
      BY <1>1, <1>4, <2>3, FGoesOn DEF LoopEnds
    <2> QED
      BY <1>4, <2>1, <2>2, <2>3 DEF LoopEnds, Exit
  <1> QED
    BY <1>2, <1>3, <1>4 DEF LoopStep

LEMMA FEnd == IInv /\ FInv /\ EndStep => FInv'
  <1> SUFFICES ASSUME IInv, FInv, EndStep, runs' <= 1 PROVE FirstRunInv'
    BY DEF FInv
  <1> USE DEF Goto, pool, disk
  <1>1. runs' = runs /\ runs # 0 /\ FirstRunInv /\ pc \in {"verify", "rollback", "cleanup"}
          /\ exit = Running
    BY DEF EndStep, VerifyPasses, VerifyFails, RollbackEnds, Cleanup, Restore, RestoreFails, FInv,
           FirstRunInv, IInv, ControlInv
  <1>2. CASE VerifyPasses
    BY <1>1, <1>2
    DEF VerifyPasses, FirstRunInv, Early, RolledBackIsPreApply, Running, RollbackCompleted
  <1>3. CASE VerifyFails
    BY <1>1, <1>3, FToRollback DEF VerifyFails
  <1>4. CASE Cleanup
    <2>1. pc' = "down" /\ exit' = Success
      BY <1>4 DEF Cleanup, Exit
    <2> QED
      BY <1>1, <2>1, FDown DEF FInv, Success, RollbackCompleted
  <1>5. CASE RollbackEnds
    <2>1. pc = "rollback" /\ todo = {} /\ pc' = "down" /\ live' = live
            /\ (exit' = RollbackCompleted => failed = {})
      BY <1>5 DEF RollbackEnds, Exit, RollbackFailed, RollbackCompleted
    <2>2. failed = {} => live = Origin
      <3> SUFFICES ASSUME failed = {} PROVE live = Origin
        OBVIOUS
      <3>1. \A f \in Files : live[f] = Origin[f]
        BY <1>1, <2>1 DEF FirstRunInv
      <3>2. live = [f \in Files |-> live[f]] /\ Origin = [f \in Files |-> Origin[f]]
        BY DEF IInv, TypeOK, Origin
      <3> QED
        BY <3>1, <3>2
    <2> QED
      BY <1>1, <2>1, <2>2 DEF FirstRunInv, Early, RolledBackIsPreApply
  <1>6. ASSUME NEW f \in Files, Restore(f)
        PROVE  FirstRunInv'
    <2>1. Saved(f) /\ pc = "rollback" /\ pc' = pc /\ exit' = exit /\ failed' = failed
            /\ todo' = todo \ {f} /\ f \in todo
      BY <1>1, <1>6 DEF Restore, FirstRunInv
    <2>2. ShadowContent(f) = Origin[f] /\ shadow[f].kind = "own"
      BY <2>1 DEF Saved, OwnShadow, ShadowContent
    <2>3. live' = [live EXCEPT ![f] = Origin[f]] /\ shadow' = [shadow EXCEPT ![f] = NoShadow]
      BY <1>6, <2>2 DEF Restore
    <2>4. live'[f] = Origin[f] /\ \A g \in Files \ {f} : live'[g] = live[g] /\ shadow'[g] = shadow[g]
      BY <2>3 DEF IInv, TypeOK
    <2> QED
      BY <1>1, <2>1, <2>4
      DEF FirstRunInv, Early, Saved, RolledBackIsPreApply, Running, RollbackCompleted
  <1>7. ASSUME NEW f \in Files, RestoreFails(f)
        PROVE  FirstRunInv'
    BY <1>1, <1>7
    DEF RestoreFails, FirstRunInv, Early, Saved, RolledBackIsPreApply, Running, RollbackCompleted
  <1> QED
    BY <1>2, <1>3, <1>4, <1>5, <1>6, <1>7 DEF EndStep

LEMMA FNext == Copied /\ IInv /\ FInv /\ [Next]_vars => FInv'
  <1> SUFFICES ASSUME Copied, IInv, FInv, [Next]_vars PROVE FInv'
    OBVIOUS
  <1>1. CASE Crash
    BY <1>1, FDown DEF Crash, Exit, Killed, RollbackCompleted
  <1>2. CASE UNCHANGED vars
    BY <1>2 DEF vars, disk, pool, FInv, FirstRunInv, Early, Saved, RolledBackIsPreApply
  <1>3. CASE Start \/ Run
    BY <1>3, FStart, FStaging, FShadow, FLoop, FEnd DEF Run
  <1> QED
    BY <1>1, <1>2, <1>3 DEF Next, Finished

(* README, exit 10: "rolled back to the pre-apply state".  Byte for byte   *)
(* and for every file, where shadows are copies, whatever fails before and *)
(* during the rollback, as long as nothing had to be created.              *)
THEOREM FirstRollbackComplete == Spec => [](Copied => RolledBackIsPreApply)
  <1>1. Init => (Copied => FInv)
    BY FInit
  <1>2. IInv /\ (Copied => FInv) /\ [Next]_vars => (Copied => FInv)'
    BY FNext DEF Copied
  <1>3. IInv /\ (Copied => FInv) => (Copied => RolledBackIsPreApply)
    BY DEF IInv, FInv, FirstRunInv, RolledBackIsPreApply
  <1> QED
    BY <1>1, <1>2, <1>3, Invariance, PTL DEF Spec
-----------------------------------------------------------------------------
(***************************************************************************)
(* Apply implements ApplyContract for every plan, tree, pool and           *)
(* environment.  The refinement needs more than IInv: what an invocation   *)
(* believes without having checked it, also after a rollback.              *)
(***************************************************************************)
(* What this invocation vouches for: its own work, and the markers.        *)
Vouched(i) == IsNew(i) \/ Id(i) \in markers

VouchInv ==
  /\ pc = "mark" => IsNew(promoted)
  /\ pc \in Looping /\ ~promotionFailed /\ ~budgetExhausted
       => \A i \in Task : Vouched(i) \/ i \in Outstanding
  /\ pc \in {"verify", "cleanup"} => \A i \in Task : Vouched(i)

CInv == IInv /\ VouchInv
-----------------------------------------------------------------------------
(* Where nothing outstanding changes, what is vouched for stays so.        *)
LEMMA VouchKept ==
  ASSUME IInv, VouchInv,
         \A i \in Task : IsNew(i)' = IsNew(i), markers \subseteq markers',
         Outstanding' = Outstanding,
         promotionFailed' = promotionFailed, budgetExhausted' = budgetExhausted,
         pc' \in Looping => pc \in Looping,
         pc' = "mark" => pc = "mark" /\ promoted' = promoted,
         pc' \in {"verify", "cleanup"} => pc \in {"verify", "cleanup"}
  PROVE  VouchInv'
  <1>1. \A i \in Task : Vouched(i) => Vouched(i)'
    BY DEF Vouched, Id
  <1>2. pc' = "mark" => IsNew(promoted)'
    BY DEF VouchInv, IInv, ControlInv
  <1> QED
    BY <1>1, <1>2 DEF VouchInv

LEMMA LiveSame ==
  ASSUME live' = live
  PROVE  \A i \in Task : IsNew(i)' = IsNew(i)
  BY DEF IsNew

LEMMA FeedOutstanding ==
  ASSUME IInv, Feed(inflight, markers), UNCHANGED markers
  PROVE  Outstanding' = Outstanding
  <1>1. inflight' \cup Unfed(cursor', markers) = inflight \cup Unfed(cursor, markers)
    BY FeedKeeps DEF IInv, TypeOK, PoolInv
  <1> QED
    BY <1>1 DEF Outstanding, Unfed

(* The marker of the promoted task, and the task that is fed after it.     *)
LEMMA MarkOutstanding ==
  ASSUME IInv, MarkDone
  PROVE  Outstanding' = Outstanding
  <1> USE DEF IInv
  <1>1. promoted \in Task /\ promoted < cursor
    BY DEF MarkDone, ControlInv, PoolInv
  <1>2. \A j \in Task : j # promoted => (Id(j) \in markers' <=> Id(j) \in markers)
    BY <1>1, PlanAssumption DEF PlanAssumption, MarkDone, Id
  <1>3. \A j \in cursor .. Len(Plan) : j \in Task /\ j # promoted
    BY <1>1, PlanFacts DEF TypeOK, Task
  <1>4. Unfed(cursor, markers') = Unfed(cursor, markers)
    BY <1>2, <1>3 DEF Unfed
  <1>5. inflight' \cup Unfed(cursor', markers') = inflight \cup Unfed(cursor, markers')
    <2>1. Feed(inflight, markers') /\ \A j \in inflight : j < cursor
      BY DEF MarkDone, PoolInv
    <2> QED
      BY <2>1, FeedKeeps DEF TypeOK
  <1> QED
    BY <1>4, <1>5 DEF Outstanding

LEMMA VouchStaging == CInv /\ (StagingStep \/ ShadowStep) => VouchInv'
  <1> SUFFICES ASSUME CInv, StagingStep \/ ShadowStep PROVE VouchInv'
    OBVIOUS
  <1> USE DEF CInv, disk, pool, Goto, Exit
  <1>1. CASE Resume \/ DiscardStale \/ StampPlanHash
    BY <1>1 DEF Resume, DiscardStale, StampPlanHash, VouchInv, Looping
  <1>2. CASE ScanPending
    <2>1. Pending = Unfed(1, markers)
      BY PlanFacts DEF Pending, Unfed, Task
    <2>2. pc' = "shadow" => Outstanding' = Pending
      BY <1>2, <2>1 DEF ScanPending, Outstanding, Unfed, IInv, ControlInv, Early
    <2>3. \A i \in Task : Vouched(i)' \/ i \in Pending
      BY <1>2 DEF ScanPending, Vouched, Pending, Id
    <2> QED
      BY <1>2, <2>2, <2>3 DEF ScanPending, VouchInv, Looping
  <1>3. CASE ShadowsTaken \/ \E f \in Files : TakeShadow(f) \/ ShadowFails(f)
    <2>1. UNCHANGED <<live, markers, inflight, cursor, promotionFailed, budgetExhausted, promoted>>
      BY <1>3 DEF ShadowsTaken, TakeShadow, ShadowFails
    <2>2. pc = "shadow" /\ pc' \in {"shadow", "prime", "down"}
      BY <1>3 DEF ShadowsTaken, TakeShadow, ShadowFails
    <2>3. Outstanding' = Outstanding /\ \A i \in Task : IsNew(i)' = IsNew(i)
      BY <2>1 DEF Outstanding, Unfed, IsNew, Id
    <2> QED
      BY <2>1, <2>2, <2>3, VouchKept DEF Looping
  <1> QED
    BY <1>1, <1>2, <1>3 DEF StagingStep, ShadowStep

LEMMA VouchLoop == CInv /\ LoopStep => VouchInv'
  <1> SUFFICES ASSUME CInv, LoopStep PROVE VouchInv'
    OBVIOUS
  <1> USE DEF CInv, disk, pool, Goto, Exit
  <1>1. CASE Prime
    <2>1. Outstanding' = Outstanding
      BY <1>1, FeedOutstanding DEF Prime, Outstanding, Unfed, Id
    <2> QED
      BY <1>1, <2>1, LiveSame, VouchKept DEF Prime, Looping
  <1>2. CASE MarkDone
    <2>1. Outstanding' = Outstanding
      BY <1>2, MarkOutstanding
    <2> QED
      BY <1>2, <2>1, LiveSame, VouchKept DEF MarkDone, Looping
  <1>3. CASE LoopEnds
    <2>1. Outstanding = {}
      BY <1>3, OutstandingTasks, TasksFinite, FS_EmptySet DEF LoopEnds, IInv, PoolInv, Looping
    <2>2. pc' = "verify" => \A i \in Task : Vouched(i)
      BY <1>3, <2>1 DEF LoopEnds, VouchInv, Looping
    <2> QED
      BY <1>3, <2>2 DEF LoopEnds, VouchInv, Looping, Vouched, IsNew, Id
  <1>4. ASSUME NEW i \in Task, FetchFailed(i) \/ HashMismatch(i)
        PROVE  VouchInv'
    <2>1. RequeueOrGiveUp(i) /\ pc = "loop"
      BY <1>4 DEF FetchFailed, HashMismatch
    <2>2. CASE budgetExhausted' = TRUE
      BY <2>1, <2>2 DEF RequeueOrGiveUp, VouchInv
    <2>3. CASE UNCHANGED <<budgetExhausted, remaining, cursor, inflight>>
      <3>1. Outstanding' = Outstanding
        BY <2>1, <2>3 DEF RequeueOrGiveUp, Outstanding, Unfed
      <3> QED
        BY <2>1, <2>3, <3>1, LiveSame, VouchKept DEF RequeueOrGiveUp
    <2> QED
      BY <2>1, <2>2, <2>3 DEF RequeueOrGiveUp
  <1>5. ASSUME NEW i \in Task, PromoteFails(i)
        PROVE  VouchInv'
    BY <1>5 DEF PromoteFails, VouchInv
  <1>6. ASSUME NEW i \in Task, Promote(i)
        PROVE  VouchInv'
    <2>1. IsNew(i)' /\ \A j \in Task : IsNew(j) => IsNew(j)'
      BY <1>6, PromoteTree DEF Promote, IInv
    <2>2. Outstanding \subseteq Outstanding' \cup {i}
      BY <1>6 DEF Promote, Outstanding, Unfed
    <2>3. \A j \in Task : Vouched(j) \/ j = i => Vouched(j)'
      BY <1>6, <2>1 DEF Promote, Vouched, Id
    <2> QED
      BY <1>6, <2>1, <2>2, <2>3 DEF Promote, VouchInv, Looping
  <1> QED
    BY <1>1, <1>2, <1>3, <1>4, <1>5, <1>6 DEF LoopStep

LEMMA VouchNext == CInv /\ [Next]_vars => CInv'
  <1> SUFFICES ASSUME CInv, [Next]_vars PROVE VouchInv'
    BY NextKeeps DEF CInv
  <1> USE DEF CInv, disk, pool, Goto, Exit
  <1>1. CASE Start \/ Crash
    BY <1>1 DEF Start, Crash, VouchInv, Looping
  <1>2. CASE VerifyPasses \/ VerifyFails
    BY <1>2 DEF VerifyPasses, VerifyFails, VouchInv, Looping, Vouched, IsNew, Id
  <1>3. CASE RollbackEnds \/ Cleanup \/ \E f \in Files : Restore(f) \/ RestoreFails(f)
    BY <1>3 DEF RollbackEnds, Cleanup, Restore, RestoreFails, VouchInv, Looping
  <1>4. CASE Finished \/ UNCHANGED vars
    BY <1>4 DEF Finished, vars, VouchInv, Looping, Outstanding, Unfed, Vouched, IsNew, Id
  <1> QED
    BY <1>1, <1>2, <1>3, <1>4, VouchStaging, VouchLoop DEF Next, Run, EndStep

LEMMA VouchInit == Init => CInv
  <1> SUFFICES ASSUME Init PROVE CInv
    OBVIOUS
  <1>1. VouchInv
    BY DEF Init, VouchInv, Looping
  <1> QED
    BY <1>1, InitInv DEF CInv

(* The invariant behind the refinement holds of every run.                 *)
THEOREM Vouching == Spec => []CInv
  BY VouchInit, VouchNext, PTL DEF Spec
-----------------------------------------------------------------------------
(* The abstract state.                                                     *)
Canonical == {Id(i) : i \in {j \in Task : IsNew(j)}}
Believed == IF planHash = "this" THEN markers \cap Ids ELSE {}
Mode == CASE pc = "down" -> "down" [] pc = "rollback" -> "undoing" [] OTHER -> "working"
Abstract == <<Ids, Canonical, Believed, Mode, exit>>

LEMMA SameIds ==
  ASSUME NEW i \in Task, NEW j \in Task, Id(i) = Id(j)
  PROVE  i = j
  BY PlanAssumption DEF PlanAssumption, Id

LEMMA CanonicalFacts ==
  /\ Canonical \subseteq Ids
  /\ \A i \in Task : Id(i) \in Canonical <=> IsNew(i)
  BY SameIds DEF Canonical, Ids

LEMMA Modes ==
  /\ Mode \in {"down", "working", "undoing"}
  /\ Mode = "down" <=> pc = "down"
  /\ Mode = "undoing" <=> pc = "rollback"
  BY DEF Mode

LEMMA LiveCanonical ==
  ASSUME live' = live
  PROVE  Canonical' = Canonical
  BY DEF Canonical, IsNew, Id

(* Equal live chunks make equal abstract sets.                             *)
LEMMA CanonicalBy ==
  ASSUME NEW S, \A i \in Task : IsNew(i)' <=> (Id(i) \in S), S \subseteq Ids
  PROVE  Canonical' = S
  <1>1. Canonical' = {Id(i) : i \in {j \in Task : IsNew(j)'}}
    BY DEF Canonical, Id
  <1> QED
    BY <1>1 DEF Ids

LEMMA Stutters ==
  ASSUME live' = live, markers' = markers, planHash' = planHash, exit' = exit,
         Mode' = Mode
  PROVE  UNCHANGED Abstract
  <1>1. Canonical' = Canonical
    BY LiveCanonical
  <1>2. Believed' = Believed /\ Ids' = Ids
    BY DEF Believed, Ids, Id
  <1> QED
    BY <1>1, <1>2 DEF Abstract

LEMMA Exits ==
  ASSUME live' = live, markers' = markers, planHash' = planHash,
         pc # "down", pc' = "down", exit' \in {0, 1, 10, 11, 12},
         exit' \in {10, 11} => pc = "rollback",
         exit' = 0 => pc # "rollback" /\ Ids \subseteq Canonical \cup Believed
  PROVE  Contract!Next
  <1>1. UNCHANGED <<Ids, Canonical, Believed>>
    BY LiveCanonical DEF Believed, Ids, Id
  <1>2. Mode # "down" /\ Mode' = "down" /\ (exit' \in {10, 11} => Mode = "undoing")
    BY Modes DEF Mode
  <1>3. exit' = 0 => Mode = "working"
    BY DEF Mode
  <1>4. Contract!End(exit')
    BY <1>1, <1>2, <1>3
    DEF Contract!End, Contract!Running, Contract!Success, Contract!Undone, Ids, Canonical,
        Believed, Mode
  <1> QED
    BY <1>4 DEF Contract!Next, Contract!Success

(* Everything vouched for, in a directory of this plan, may be claimed.    *)
LEMMA AllVouched ==
  ASSUME planHash = "this", \A i \in Task : Vouched(i)
  PROVE  Ids \subseteq Canonical \cup Believed
  BY CanonicalFacts DEF Ids, Vouched, Believed

LEMMA StagingImplements ==
  ASSUME CInv, StagingStep \/ ShadowStep
  PROVE  [Contract!Next]_Abstract
  <1> USE DEF disk, pool, Goto, Exit
  <1>1. CASE Resume
    BY <1>1, Stutters DEF Resume, Mode
  <1>2. CASE DiscardStale \/ StampPlanHash
    <2>1. Believed = {} /\ Believed' = {}
      BY <1>2 DEF DiscardStale, StampPlanHash, Believed, CInv, IInv, ControlInv, Staged
    <2>2. Canonical' = Canonical
      BY <1>2, LiveCanonical DEF DiscardStale, StampPlanHash
    <2>3. Mode' = Mode /\ exit' = exit /\ Ids' = Ids
      BY <1>2 DEF DiscardStale, StampPlanHash, Mode, Ids, Id
    <2> QED
      BY <2>1, <2>2, <2>3 DEF Abstract
  <1>3. CASE ScanPending
    <2>1. planHash = "this" /\ UNCHANGED disk /\ pc = "scan"
      BY <1>3 DEF ScanPending, CInv, IInv, ControlInv, Staged
    <2>2. CASE Pending = {}
      <3>1. \A i \in Task : Vouched(i)
        BY <2>2 DEF Pending, Vouched
      <3>2. exit' = 0 /\ pc' = "down"
        BY <1>3, <2>2 DEF ScanPending, Success
      <3> QED
        BY <2>1, <3>1, <3>2, AllVouched, Exits
    <2>3. CASE Pending # {}
      BY <1>3, <2>1, <2>3, Stutters DEF ScanPending, Mode
    <2> QED
      BY <2>2, <2>3
  <1>4. CASE ShadowsTaken \/ \E f \in Files : TakeShadow(f)
    BY <1>4, Stutters DEF ShadowsTaken, TakeShadow, Mode
  <1>5. ASSUME NEW f \in Files, ShadowFails(f)
        PROVE  Contract!Next
    BY <1>5, Exits DEF ShadowFails, GenericError
  <1> QED
    BY <1>1, <1>2, <1>3, <1>4, <1>5 DEF StagingStep, ShadowStep

(* A promotion lands one chunk and changes no other: a whole file has one. *)
LEMMA PromoteImplements ==
  ASSUME CInv, NEW i \in inflight, Promote(i)
  PROVE  Contract!Next
  <1> USE DEF CInv, IInv
  <1>1. i \in Task /\ Id(i) \notin markers /\ pc = "loop" /\ pc' = "mark" /\ exit' = exit
    BY DEF TypeOK, PoolInv, Promote, Goto
  <1>2. IsNew(i)' /\ \A j \in Task : IsNew(j) => IsNew(j)'
    BY PromoteTree
  <1>3. ASSUME NEW j \in Task, j # i
        PROVE  IsNew(j)' => IsNew(j)
    <2>1. CASE Plan[i].file \in WholeFiles
      <3>1. Plan[j].file # Plan[i].file
        BY <1>1, <1>3, <2>1, FileAssumption DEF FileAssumption
      <3>2. \E staged : live' = [live EXCEPT ![Plan[i].file] = AllOf(staged)]
        BY <2>1 DEF Promote, SwapWholeFile
      <3> QED
        BY <1>1, <3>1, <3>2, PlanFacts DEF IsNew, TypeOK
    <2>2. CASE Plan[i].file \notin WholeFiles
      <3>1. Plan[i].file # Plan[j].file \/ Plan[i].chunk # Plan[j].chunk
        BY <1>1, <1>3, TaskUnique
      <3>2. \E staged : live' = [live EXCEPT ![Plan[i].file][Plan[i].chunk] = staged]
        BY <2>2 DEF Promote, WritePage
      <3> QED
        BY <1>1, <3>1, <3>2, PlanFacts DEF IsNew, TypeOK, Content
    <2> QED
      BY <2>1, <2>2
  <1>4. Canonical' = Canonical \cup {Id(i)}
    <2>1. \A j \in Task : IsNew(j)' <=> Id(j) \in Canonical \cup {Id(i)}
      BY <1>1, <1>2, <1>3, CanonicalFacts, SameIds
    <2>2. Canonical \cup {Id(i)} \subseteq Ids
      BY <1>1, CanonicalFacts DEF Ids
    <2> QED
      BY <2>1, <2>2, CanonicalBy
  <1>5. Believed' = Believed /\ Id(i) \notin Believed /\ Mode = "working" /\ Mode' = "working"
    BY <1>1 DEF Promote, Believed, Mode, Ids, Id
  <1>6. Id(i) \in Ids /\ Ids' = Ids
    BY <1>1 DEF Ids, Id
  <1>7. Contract!Land(Id(i))
    BY <1>1, <1>4, <1>5, <1>6 DEF Contract!Land, Canonical, Believed, Mode, Ids
  <1> QED
    BY <1>6, <1>7 DEF Contract!Next, Ids

(* A write that is cut off takes at most the chunk that was in flight.     *)
LEMMA TornPage ==
  ASSUME CInv, NEW i \in inflight, WritePage(Plan[i].file, Plan[i].chunk, "junk")
  PROVE  /\ i \in Task /\ Id(i) \notin Believed
         /\ Canonical' = Canonical \ {Id(i)}
  <1> USE DEF CInv, IInv
  <1>1. i \in Task /\ Id(i) \notin markers
    BY DEF TypeOK, PoolInv
  <1>2. ~IsNew(i)'
    BY <1>1, PlanFacts DEF WritePage, IsNew, TypeOK, Content
  <1>3. ASSUME NEW j \in Task, j # i
        PROVE  IsNew(j)' = IsNew(j)
    <2>1. Plan[i].file # Plan[j].file \/ Plan[i].chunk # Plan[j].chunk
      BY <1>1, <1>3, TaskUnique
    <2> QED
      BY <1>1, <2>1, PlanFacts DEF WritePage, IsNew, TypeOK, Content
  <1>4. \A j \in Task : IsNew(j)' <=> Id(j) \in Canonical \ {Id(i)}
    BY <1>1, <1>2, <1>3, CanonicalFacts, SameIds
  <1>5. Canonical' = Canonical \ {Id(i)}
    BY <1>4, CanonicalFacts, CanonicalBy
  <1> QED
    BY <1>1, <1>5 DEF Believed

LEMMA PromoteFailsImplements ==
  ASSUME CInv, NEW i \in Task, PromoteFails(i)
  PROVE  [Contract!Next]_Abstract
  <1>1. /\ pc = "loop" /\ pc' = pc /\ i \in inflight
        /\ UNCHANGED <<markers, planHash, exit>>
    BY DEF PromoteFails
  <1>2. CASE UNCHANGED live
    BY <1>1, <1>2, Stutters DEF Mode
  <1>3. CASE WritePage(Plan[i].file, Plan[i].chunk, "junk")
    <2>1. Id(i) \notin Believed /\ Canonical' = Canonical \ {Id(i)}
      BY <1>1, <1>3, TornPage
    <2>2. UNCHANGED <<Ids, Believed, Mode>> /\ Mode = "working" /\ Id(i) \in Ids
      BY <1>1 DEF Ids, Believed, Mode, Id
    <2>3. Contract!Tear(Id(i))
      BY <1>1, <2>1, <2>2 DEF Contract!Tear, Canonical, Believed, Mode, Ids
    <2> QED
      BY <2>2, <2>3 DEF Contract!Next, Ids
  <1> QED
    BY <1>2, <1>3 DEF PromoteFails

LEMMA MarkImplements ==
  ASSUME CInv, MarkDone
  PROVE  [Contract!Next]_Abstract
  <1>1. /\ pc = "mark" /\ pc' = "loop" /\ UNCHANGED <<live, planHash, exit>>
        /\ promoted \in Task /\ IsNew(promoted) /\ planHash = "this"
    BY DEF MarkDone, Goto, CInv, IInv, ControlInv, VouchInv, Staged
  <1>2. CASE UNCHANGED markers
    BY <1>1, <1>2, Stutters DEF Mode
  <1>3. CASE markers' = markers \cup {Id(promoted)}
    <2>1. Id(promoted) \in Ids /\ Id(promoted) \in Canonical
      BY <1>1, CanonicalFacts DEF Ids
    <2>2. Believed' = Believed \cup {Id(promoted)}
      BY <1>1, <1>3, <2>1 DEF Believed, Ids, Id
    <2>3. UNCHANGED <<Ids, Canonical, Mode>> /\ Mode = "working"
      BY <1>1, LiveCanonical DEF Ids, Id, Mode
    <2>4. Contract!Mark(Id(promoted))
      BY <1>1, <2>1, <2>2, <2>3 DEF Contract!Mark, Canonical, Believed, Mode, Ids
    <2> QED
      BY <2>1, <2>4 DEF Contract!Next, Ids
  <1> QED
    BY <1>2, <1>3 DEF MarkDone

(* A rollback begins, or goes on.                                          *)
LEMMA UndoImplements ==
  ASSUME pc # "down", pc' = "rollback", UNCHANGED <<markers, planHash, exit>>
  PROVE  Contract!Next
  <1>1. UNCHANGED <<Ids, Believed, exit>> /\ Mode' = "undoing" /\ Mode \in {"working", "undoing"}
    BY Modes DEF Ids, Believed, Id, Mode
  <1>2. Canonical' \in SUBSET Ids
    BY CanonicalFacts, <1>1 DEF Canonical, Ids, Id
  <1>3. Contract!Undo
    BY <1>1, <1>2 DEF Contract!Undo, Canonical, Believed, Mode, Ids
  <1> QED
    BY <1>3 DEF Contract!Next

LEMMA LoopImplements ==
  ASSUME CInv, LoopStep
  PROVE  [Contract!Next]_Abstract
  <1> USE DEF disk, pool, Goto, Exit
  <1>1. CASE Prime
    BY <1>1, Stutters DEF Prime, Mode
  <1>2. CASE LoopEnds
    <2>1. CASE pc' = "rollback"
      BY <1>2, <2>1, UndoImplements DEF LoopEnds
    <2>2. CASE pc' = "down" /\ exit' = NetworkBudgetExhausted
      BY <1>2, <2>2, Exits DEF LoopEnds, NetworkBudgetExhausted
    <2>3. CASE pc' = "verify" /\ UNCHANGED exit
      BY <1>2, <2>3, Stutters DEF LoopEnds, Mode
    <2> QED
      BY <1>2, <2>1, <2>2, <2>3 DEF LoopEnds
  <1>3. ASSUME NEW i \in Task, FetchFailed(i) \/ HashMismatch(i)
        PROVE  UNCHANGED Abstract
    BY <1>3, Stutters DEF FetchFailed, HashMismatch, RequeueOrGiveUp, Mode
  <1>4. ASSUME NEW i \in Task, Promote(i)
        PROVE  Contract!Next
    BY <1>4, PromoteImplements DEF Promote
  <1> QED
    BY <1>1, <1>2, <1>3, <1>4, PromoteFailsImplements, MarkImplements DEF LoopStep

LEMMA EndImplements ==
  ASSUME CInv, EndStep
  PROVE  [Contract!Next]_Abstract
  <1> USE DEF disk, pool, Goto, Exit
  <1>1. CASE VerifyPasses
    BY <1>1, Stutters DEF VerifyPasses, Mode
  <1>2. CASE VerifyFails
    BY <1>2, UndoImplements DEF VerifyFails
  <1>3. CASE RollbackEnds
    BY <1>3, Exits DEF RollbackEnds, RollbackCompleted, RollbackFailed
  <1>4. CASE Cleanup
    <2>1. planHash = "this" /\ \A i \in Task : Vouched(i)
      BY <1>4 DEF Cleanup, CInv, IInv, ControlInv, VouchInv, Staged
    <2> QED
      BY <1>4, <2>1, AllVouched, Exits DEF Cleanup, Success
  <1>5. ASSUME NEW f \in Files, Restore(f) \/ RestoreFails(f)
        PROVE  Contract!Next
    BY <1>5, UndoImplements DEF Restore, RestoreFails
  <1> QED
    BY <1>1, <1>2, <1>3, <1>4, <1>5 DEF EndStep

LEMMA StartImplements ==
  ASSUME CInv, Start
  PROVE  Contract!Next
  <1>1. UNCHANGED <<live, markers, planHash>> /\ pc = "down" /\ pc' = "staging" /\ exit' = -1
    BY DEF Start, disk, Running
  <1>2. UNCHANGED <<Ids, Canonical, Believed>> /\ Mode = "down" /\ Mode' = "working"
    BY <1>1, LiveCanonical DEF Ids, Believed, Mode, Id
  <1>3. Contract!Begin
    BY <1>1, <1>2 DEF Contract!Begin, Contract!Running, Canonical, Believed, Mode, Ids
  <1> QED
    BY <1>3 DEF Contract!Next

LEMMA CrashImplements ==
  ASSUME CInv, Crash
  PROVE  Contract!Next
  <1>1. pc # "down" /\ pc' = "down" /\ exit' = -2
    BY DEF Crash, Exit, Killed
  <1>2. Ids' = Ids /\ Mode # "down" /\ Mode' = "down"
    BY <1>1, Modes DEF Ids, Id, Mode
  <1>3. Believed' = Believed
    BY DEF Crash, disk, HalfDiscarded, HalfCopied, HalfWritten, HalfCleaned, Believed, Ids, Id
  <1>4. PICK torn \in SUBSET Ids : torn \cap Believed = {} /\ Canonical' = Canonical \ torn
    <2>1. CASE UNCHANGED live
      <3>1. {} \cap Believed = {} /\ Canonical' = Canonical \ {}
        BY <2>1, LiveCanonical
      <3> QED
        BY <3>1
    <2>2. CASE HalfWritten
      <3>1. PICK i \in inflight : WritePage(Plan[i].file, Plan[i].chunk, "junk")
        BY <2>2 DEF HalfWritten
      <3>2. /\ i \in Task /\ Id(i) \notin Believed
            /\ Canonical' = Canonical \ {Id(i)}
        BY <3>1, TornPage
      <3>3. {Id(i)} \in SUBSET Ids
        BY <3>2 DEF Ids
      <3> QED
        BY <3>2, <3>3
    <2> QED
      BY <2>1, <2>2 DEF Crash, disk, HalfDiscarded, HalfCopied, HalfCleaned
  <1>5. Contract!Kill(torn)
    BY <1>1, <1>2, <1>3, <1>4
    DEF Contract!Kill, Contract!Killed, Canonical, Believed, Mode, Ids
  <1> QED
    BY <1>5 DEF Contract!Next, Ids

LEMMA StepImplements ==
  ASSUME CInv, [Next]_vars
  PROVE  [Contract!Next]_Abstract
  <1>1. CASE Finished \/ UNCHANGED vars
    BY <1>1, Stutters DEF Finished, vars, disk, Mode
  <1> QED
    BY <1>1, StartImplements, CrashImplements, StagingImplements, LoopImplements, EndImplements
    DEF Next, Run

(* Over any number of invocations, whatever is killed or fails, apply does *)
(* to the work of its plan what the contract allows: it leaves marked work *)
(* alone but in a rollback, marks what has landed, and claims success only *)
(* for what has landed or is marked.                                       *)
THEOREM ApplyImplements == Spec => ImplementsContract
  <1>1. Init => Contract!Init
    <2> SUFFICES ASSUME Init PROVE Contract!Init
      OBVIOUS
    <2>1. Believed = {} /\ Mode = "down" /\ exit = -1
      BY DEF Init, Believed, Mode, Running
    <2>2. Canonical = {}
      <3>1. \A i \in Task : ~IsNew(i)
        BY PlanFacts DEF Init, IsNew, Origin, AllOf, Absent
      <3> QED
        BY <3>1 DEF Canonical
    <2> QED
      BY <2>1, <2>2 DEF Contract!Init, Contract!Running, Canonical, Believed, Mode
  <1>2. CInv /\ [Next]_vars => [Contract!Next]_(Contract!vars)
    BY StepImplements DEF Contract!vars, Abstract, Ids, Canonical, Believed, Mode
  <1> QED
    BY <1>1, <1>2, Vouching, PTL DEF Spec, ImplementsContract, Contract!ContractSpec
=============================================================================
