----------------------------- MODULE PoolProofs -----------------------------
(***************************************************************************)
(* What holds of the fetch pool for any plan, any number of workers and    *)
(* any number of attempts and tries.                                       *)
(***************************************************************************)
EXTENDS WorkerPool, FiniteSetTheorems, TLAPS

(* The main goroutine has a task in hand exactly while it sends one.       *)
SenderOK ==
  /\ IF main = "feed" THEN outgoing \in Task ELSE outgoing = NoTask
  /\ main = "prime" => primed < Parallel

(* A worker has a task exactly while it works.                             *)
HolderOK ==
  \A w \in Workers :
     IF at[w] \in {"idle", "gone"} THEN holding[w] = NoTask ELSE holding[w] \in Task

(* An entry of the plan is in one place of the pool at most: in one slot   *)
(* of one channel, with one worker, or with the main goroutine.            *)
NoDup ==
  /\ \A k, l \in 1 .. Len(taskCh) : taskCh[k].entry = taskCh[l].entry => k = l
  /\ \A k, l \in 1 .. Len(resultCh) : resultCh[k].task.entry = resultCh[l].task.entry => k = l
  /\ \A v, w \in Workers : holding[v].entry = holding[w].entry /\ holding[v].entry # 0 => v = w

Apart ==
  /\ Queued \cap Answered = {} /\ Queued \cap Held = {} /\ Queued \cap Sending = {}
  /\ Answered \cap Held = {} /\ Answered \cap Sending = {} /\ Held \cap Sending = {}

Placed == TypeOK /\ SenderOK /\ HolderOK /\ NoDup /\ Apart

(* The entries out came before the cursor, and each took a turn of the     *)
(* priming loop or the place of a settled one.                             *)
InFlight ==
  /\ \A i \in Out : i \in Entry /\ i < cursor
  /\ Cardinality(Out) <= primed

PInv == Placed /\ InFlight
-----------------------------------------------------------------------------
(* Taking one entry away makes room for one.                               *)
LEMMA OneForOne ==
  \A out, left, now, room \in Nat : left = out - 1 /\ out <= room /\ now <= left + 1 => now <= room
  OBVIOUS

(* Channels are sequences.                                                 *)
LEMMA QueueAppend ==
  ASSUME NEW S, NEW s \in Seq(S), NEW x \in S
  PROVE  /\ Append(s, x) \in Seq(S)
         /\ Len(Append(s, x)) = Len(s) + 1
         /\ \A k \in 1 .. Len(s) : Append(s, x)[k] = s[k]
         /\ Append(s, x)[Len(s) + 1] = x
  OBVIOUS

LEMMA QueueTail ==
  ASSUME NEW S, NEW s \in Seq(S), s # <<>>
  PROVE  /\ Tail(s) \in Seq(S)
         /\ Len(s) >= 1 /\ Len(Tail(s)) = Len(s) - 1
         /\ \A k \in 1 .. Len(s) - 1 : Tail(s)[k] = s[k + 1]
         /\ Head(s) = s[1] /\ Head(s) \in S
  OBVIOUS

(* As many values as positions, when no value is repeated.                 *)
LEMMA DistinctCount ==
  ASSUME NEW n \in Nat, NEW f, \A k, l \in 1 .. n : f[k] = f[l] => k = l
  PROVE  /\ IsFiniteSet({f[k] : k \in 1 .. n})
         /\ Cardinality({f[k] : k \in 1 .. n}) = n
  <1> DEFINE T == {f[k] : k \in 1 .. n}
             g == [k \in 1 .. n |-> f[k]]
  <1>1. g \in Bijection(1 .. n, T)
    BY DEF Bijection, Injection, Surjection, IsInjective
  <1>2. ExistsBijection(1 .. n, T)
    BY <1>1 DEF ExistsBijection
  <1>3. IsFiniteSet(1 .. n) /\ Cardinality(1 .. n) = n
    BY FS_Interval
  <1> QED
    BY <1>2, <1>3, FS_Bijection

LEMMA PoolFacts ==
  /\ Parallel \in Nat /\ Parallel >= 1
  /\ Len(Plan) \in Nat
  /\ \A task \in Task : task.entry \in Entry /\ task.entry # 0 /\ IdOf(task) \in Ids
  /\ NoTask \notin Task /\ NoTask.entry = 0
  <1>1. Parallel \in Nat
    BY PoolAssumption, FS_CardinalityType DEF PoolAssumption, Parallel
  <1>2. Parallel # 0
    BY PoolAssumption, FS_EmptySet DEF PoolAssumption, Parallel
  <1>3. Len(Plan) \in Nat /\ \A i \in Entry : Plan[i] \in Ids
    BY PoolAssumption DEF PoolAssumption, Entry
  <1> QED
    BY <1>1, <1>2, <1>3 DEF Task, NoTask, Entry, IdOf

(* Out is finite.                                                          *)
LEMMA FiniteOut ==
  ASSUME TypeOK
  PROVE  /\ Out \subseteq Entry
         /\ IsFiniteSet(Out) /\ Cardinality(Out) \in Nat
  <1>1. Out \subseteq Entry
    <2>1. \A k \in 1 .. Len(taskCh) : taskCh[k] \in Task
      BY DEF TypeOK
    <2>2. \A k \in 1 .. Len(resultCh) : resultCh[k] \in Result
      BY DEF TypeOK
    <2> QED
      BY <2>1, <2>2, PoolFacts DEF TypeOK, Out, Queued, Answered, Held, Sending, Result
  <1>2. IsFiniteSet(Entry)
    BY PoolFacts, FS_Interval DEF Entry
  <1> QED
    BY <1>1, <1>2, FS_Subset, FS_CardinalityType
-----------------------------------------------------------------------------
(* What each step does to the places.  A task enters the task channel.     *)
LEMMA SendTaskPlaces ==
  ASSUME Placed, SendTask
  PROVE  NoDup' /\ Apart' /\ Out' = Out
  <1> DEFINE e == outgoing.entry
  <1>1. outgoing \in Task /\ e # 0 /\ Sending = {e} /\ Sending' = {}
    BY PoolFacts DEF Placed, SenderOK, SendTask, Sending
  <1>2. taskCh \in Seq(Task) /\ taskCh' = Append(taskCh, outgoing)
    BY DEF Placed, TypeOK, SendTask
  <1>3. /\ Len(taskCh) \in Nat /\ Len(taskCh') = Len(taskCh) + 1
        /\ \A k \in 1 .. Len(taskCh) : taskCh'[k] = taskCh[k]
        /\ taskCh'[Len(taskCh) + 1] = outgoing
    BY <1>1, <1>2, QueueAppend
  <1>4. Queued' = Queued \cup {e}
    BY <1>3 DEF Queued
  <1>5. Answered' = Answered /\ Held' = Held
    BY DEF SendTask, crew, Answered, Held
  <1>6. e \notin Queued
    BY <1>1 DEF Placed, Apart
  <1>7. \A k, l \in 1 .. Len(taskCh') : taskCh'[k].entry = taskCh'[l].entry => k = l
    BY <1>3, <1>6 DEF Placed, NoDup, Queued
  <1>8. NoDup'
    BY <1>7 DEF NoDup, Placed, SendTask, crew
  <1> QED
    BY <1>1, <1>4, <1>5, <1>8 DEF Placed, Apart, Out

(* A worker takes the head of the task channel.                            *)
LEMMA TakeTaskPlaces ==
  ASSUME Placed, NEW w \in Workers, TakeTask(w)
  PROVE  NoDup' /\ Apart' /\ Out' = Out /\ HolderOK'
  <1> DEFINE e == Head(taskCh).entry
  <1>1. taskCh \in Seq(Task) /\ taskCh # <<>> /\ taskCh' = Tail(taskCh)
    BY DEF Placed, TypeOK, TakeTask
  <1>2. /\ Len(taskCh) \in Nat /\ Len(taskCh) >= 1 /\ Len(taskCh') = Len(taskCh) - 1
        /\ \A k \in 1 .. Len(taskCh) - 1 : taskCh'[k] = taskCh[k + 1]
        /\ Head(taskCh) = taskCh[1] /\ Head(taskCh) \in Task
    BY <1>1, QueueTail
  <1>3. e # 0
    BY <1>2, PoolFacts
  <1>4. holding[w] = NoTask /\ holding[w].entry = 0
    BY PoolFacts DEF Placed, HolderOK, TakeTask
  <1>5. /\ holding'[w] = Head(taskCh)
        /\ \A v \in Workers \ {w} : holding'[v] = holding[v] /\ at'[v] = at[v]
        /\ at'[w] = "connecting"
    BY DEF Placed, TypeOK, TakeTask
  <1>6. Held' = Held \cup {e}
    BY <1>3, <1>4, <1>5 DEF Held
  <1>7. \A k \in 1 .. Len(taskCh) : taskCh[k].entry = e => k = 1
    BY <1>2 DEF Placed, NoDup
  <1>8. Queued = Queued' \cup {e}
    <2>1. \A k \in 1 .. Len(taskCh) : k = 1 \/ (k - 1 \in 1 .. Len(taskCh) - 1 /\ taskCh'[k - 1] = taskCh[k])
      BY <1>2
    <2>2. Queued \subseteq Queued' \cup {e}
      BY <1>2, <2>1 DEF Queued
    <2>3. Queued' \subseteq Queued
      BY <1>2 DEF Queued
    <2>4. taskCh[1].entry \in Queued
      BY <1>2 DEF Queued
    <2> QED
      BY <1>2, <2>2, <2>3, <2>4
  <1>9. e \notin Queued'
    BY <1>2, <1>7 DEF Queued
  <1>10. Answered' = Answered /\ Sending' = Sending /\ resultCh' = resultCh
    BY DEF TakeTask, MainUnchanged, Answered, Sending
  <1>11. Apart' /\ Out' = Out
    BY <1>6, <1>8, <1>9, <1>10 DEF Placed, Apart, Out
  <1>12. NoDup'
    <2>1. \A k, l \in 1 .. Len(taskCh') : taskCh'[k].entry = taskCh'[l].entry => k = l
      BY <1>2 DEF Placed, NoDup
    <2>2. \A v \in Workers : holding[v].entry # e
      BY <1>3, <1>8 DEF Placed, Apart, Held
    <2>3. \A v, u \in Workers : holding'[v].entry = holding'[u].entry /\ holding'[v].entry # 0 => v = u
      BY <1>5, <2>2 DEF Placed, NoDup
    <2> QED
      BY <1>10, <2>1, <2>3 DEF NoDup, Placed
  <1>13. HolderOK'
    BY <1>2, <1>5 DEF Placed, HolderOK
  <1> QED
    BY <1>11, <1>12, <1>13

(* A worker reports: its task goes to the end of the result channel.       *)
LEMMA SendResultPlaces ==
  ASSUME Placed, NEW w \in Workers, SendResult(w)
  PROVE  NoDup' /\ Apart' /\ Out' = Out /\ HolderOK'
  <1> DEFINE e == holding[w].entry
             r == [task |-> holding[w], ok |-> at[w] = "fetched"]
  <1>1. holding[w] \in Task /\ e # 0
    BY PoolFacts DEF Placed, HolderOK, SendResult
  <1>2. r \in Result /\ r.task.entry = e
    BY <1>1 DEF Result
  <1>3. resultCh \in Seq(Result) /\ resultCh' = Append(resultCh, r)
    BY DEF Placed, TypeOK, SendResult
  <1>4. /\ Len(resultCh) \in Nat /\ Len(resultCh') = Len(resultCh) + 1
        /\ \A k \in 1 .. Len(resultCh) : resultCh'[k] = resultCh[k]
        /\ resultCh'[Len(resultCh) + 1] = r
    BY <1>2, <1>3, QueueAppend
  <1>5. Answered' = Answered \cup {e}
    BY <1>2, <1>4 DEF Answered
  <1>6. /\ holding'[w] = NoTask /\ at'[w] = "idle"
        /\ \A v \in Workers \ {w} : holding'[v] = holding[v] /\ at'[v] = at[v]
    BY DEF Placed, TypeOK, SendResult
  <1>7. \A v \in Workers \ {w} : holding[v].entry # e
    BY <1>1 DEF Placed, NoDup
  <1>8. Held = Held' \cup {e} /\ e \notin Held'
    BY <1>1, <1>6, <1>7, PoolFacts DEF Held
  <1>9. Queued' = Queued /\ Sending' = Sending /\ taskCh' = taskCh
    BY DEF SendResult, MainUnchanged, Queued, Sending
  <1>10. Apart' /\ Out' = Out
    BY <1>5, <1>8, <1>9 DEF Placed, Apart, Out
  <1>11. e \notin Answered
    BY <1>1, <1>8 DEF Placed, Apart
  <1>12. \A k, l \in 1 .. Len(resultCh') :
            resultCh'[k].task.entry = resultCh'[l].task.entry => k = l
    BY <1>2, <1>4, <1>11 DEF Placed, NoDup, Answered
  <1>13. \A v, u \in Workers : holding'[v].entry = holding'[u].entry /\ holding'[v].entry # 0 => v = u
    BY <1>6, PoolFacts DEF Placed, NoDup
  <1>14. NoDup'
    BY <1>9, <1>12, <1>13 DEF NoDup, Placed
  <1>15. HolderOK'
    BY <1>6 DEF Placed, HolderOK
  <1> QED
    BY <1>10, <1>14, <1>15

(* The main goroutine receives the head of the result channel, and goes on *)
(* with the same entry, with one that was out nowhere, or with none.       *)
LEMMA ReceivePlaces ==
  ASSUME Placed, Receive,
         NEW next \in Nat, outgoing'.entry = next,
         \/ next = 0
         \/ next = Head(resultCh).task.entry
         \/ next \notin Out
  PROVE  /\ NoDup' /\ Apart' /\ HolderOK'
         /\ Head(resultCh) \in Result /\ Head(resultCh).task \in Task
         /\ Head(resultCh).task.entry \in Answered
         /\ Out' = (Out \ {Head(resultCh).task.entry}) \cup ({next} \ {0})
  <1> DEFINE e == Head(resultCh).task.entry
  <1>1. resultCh \in Seq(Result) /\ resultCh # <<>> /\ resultCh' = Tail(resultCh)
    BY DEF Placed, TypeOK, Receive
  <1>2. /\ Len(resultCh) \in Nat /\ Len(resultCh) >= 1 /\ Len(resultCh') = Len(resultCh) - 1
        /\ \A k \in 1 .. Len(resultCh) - 1 : resultCh'[k] = resultCh[k + 1]
        /\ Head(resultCh) = resultCh[1] /\ Head(resultCh) \in Result
    BY <1>1, QueueTail
  <1>3. Head(resultCh).task \in Task /\ e # 0 /\ e \in Answered
    BY <1>2, PoolFacts DEF Result, Answered
  <1>4. Answered = Answered' \cup {e}
    <2>1. \A k \in 1 .. Len(resultCh) :
             k = 1 \/ (k - 1 \in 1 .. Len(resultCh) - 1 /\ resultCh'[k - 1] = resultCh[k])
      BY <1>2
    <2>2. Answered \subseteq Answered' \cup {e}
      BY <1>2, <2>1 DEF Answered
    <2>3. Answered' \subseteq Answered
      BY <1>2 DEF Answered
    <2> QED
      BY <1>3, <2>2, <2>3
  <1>5. e \notin Answered'
    <2>1. \A k \in 1 .. Len(resultCh) : resultCh[k].task.entry = e => k = 1
      BY <1>2 DEF Placed, NoDup
    <2>2. \A k \in 1 .. Len(resultCh') : resultCh'[k].task.entry # e
      BY <1>2, <2>1
    <2> QED
      BY <2>2 DEF Answered
  <1>6. Queued' = Queued /\ Held' = Held /\ taskCh' = taskCh /\ holding' = holding /\ at' = at
    BY DEF Receive, crew, Queued, Held
  <1>7. Sending = {}
    BY PoolFacts DEF Placed, SenderOK, Receive, Sending
  <1>8. Sending' = {next} \ {0}
    BY DEF Sending
  <1>9. Apart'
    BY <1>3, <1>4, <1>5, <1>6, <1>8 DEF Placed, Apart, Out
  <1>10. Out' = (Out \ {e}) \cup ({next} \ {0})
    BY <1>3, <1>4, <1>5, <1>6, <1>7, <1>8 DEF Placed, Apart, Out
  <1>11. NoDup'
    <2>1. \A k, l \in 1 .. Len(resultCh') :
             resultCh'[k].task.entry = resultCh'[l].task.entry => k = l
      <3>1. \A i, j \in 1 .. Len(resultCh) :
               resultCh[i].task.entry = resultCh[j].task.entry => i = j
        BY DEF Placed, NoDup
      <3>2. SUFFICES ASSUME NEW k \in 1 .. Len(resultCh) - 1, NEW l \in 1 .. Len(resultCh) - 1,
                            resultCh'[k].task.entry = resultCh'[l].task.entry
                     PROVE  k = l
        BY <1>2
      <3>3. resultCh'[k] = resultCh[k + 1] /\ resultCh'[l] = resultCh[l + 1]
        BY <1>2
      <3>4. k + 1 \in 1 .. Len(resultCh) /\ l + 1 \in 1 .. Len(resultCh)
        BY <1>2
      <3>5. k + 1 = l + 1
        BY <3>1, <3>2, <3>3, <3>4
      <3> QED
        BY <3>5
    <2> QED
      BY <1>6, <2>1 DEF NoDup, Placed
  <1>12. HolderOK'
    BY <1>6 DEF Placed, HolderOK
  <1> QED
    BY <1>2, <1>3, <1>9, <1>10, <1>11, <1>12

(* Pulling the feed: nothing is left of it, or its first task goes out.    *)
LEMMA PullEffect ==
  ASSUME Placed, InFlight, NEW done, NEW otherwise, Pull(done, otherwise)
  PROVE  \/ /\ Unfed(done) = {}
            /\ cursor' = Len(Plan) + 1 /\ main' = otherwise /\ outgoing' = NoTask
         \/ \E j \in Entry : /\ j \in Unfed(done) /\ \A k \in Unfed(done) : j <= k
                             /\ j >= cursor /\ j \notin Out
                             /\ cursor' = j + 1 /\ main' = "feed"
                             /\ outgoing' = [entry |-> j, attempt |-> 0]
                             /\ outgoing' \in Task
  <1>1. Unfed(done) \subseteq Entry /\ \A j \in Unfed(done) : j >= cursor
    BY PoolFacts DEF Placed, TypeOK, Unfed, Entry
  <1>2. \A j \in Unfed(done) : j \notin Out
    BY <1>1, PoolFacts DEF InFlight, Placed, TypeOK, Entry
  <1>3. \A j \in Entry : [entry |-> j, attempt |-> 0] \in Task
    BY PoolAssumption DEF PoolAssumption, Task
  <1> QED
    BY <1>1, <1>2, <1>3 DEF Pull

(* A received result is followed by the next try of its task, ...          *)
Retries ==
  LET task == Head(resultCh).task IN
    /\ task.attempt + 1 < MaxAttempts
    /\ outgoing' = [task EXCEPT !.attempt = @ + 1]
    /\ main' = "feed"
    /\ UNCHANGED <<cursor, remaining, markers>>

(* ... or its task is settled.                                             *)
Settles == SettleAndFeed(markers')

LEMMA RetryOrSettle ==
  ASSUME Placed, ReceiveError \/ ReceiveMismatch \/ ReceivePromoteFails \/ ReceivePromoted
  PROVE  /\ Receive
         /\ Head(resultCh).task \in Task
         /\ Retries \/ Settles
  <1>1. Receive /\ Head(resultCh).task \in Task
    <2>1. Receive
      BY DEF ReceiveError, ReceiveMismatch, ReceivePromoteFails, ReceivePromoted
    <2>2. resultCh \in Seq(Result) /\ resultCh # <<>>
      BY <2>1 DEF Receive, Placed, TypeOK
    <2>3. Head(resultCh) \in Result
      BY <2>2, QueueTail
    <2> QED
      BY <2>1, <2>3 DEF Result
  <1>2. Head(resultCh).task.attempt \in Nat /\ MaxAttempts \in Nat
    BY <1>1, PoolAssumption DEF Task, PoolAssumption
  <1>3. CASE ReceiveError \/ ReceiveMismatch
    BY <1>1, <1>2, <1>3 DEF ReceiveError, ReceiveMismatch, RetryOrGiveUp, Retries, Settles
  <1>4. CASE ReceivePromoteFails
    BY <1>1, <1>4 DEF ReceivePromoteFails, Settles
  <1>5. CASE ReceivePromoted
    BY <1>1, <1>5 DEF ReceivePromoted, Settles
  <1> QED
    BY <1>1, <1>3, <1>4, <1>5

LEMMA RetryTask ==
  ASSUME Head(resultCh).task \in Task, Retries
  PROVE  outgoing' \in Task /\ outgoing'.entry = Head(resultCh).task.entry
  BY PoolAssumption DEF PoolAssumption, Task, Retries

(* Every step keeps the types.                                             *)
LEMMA TypeKept ==
  ASSUME PInv, [Next]_vars
  PROVE  TypeOK'
  <1> USE DEF PInv, Placed
  <1>1. CASE Prime
    <2>1. primed' \in 0 .. Parallel
      BY <1>1, PoolFacts DEF TypeOK, Prime, SenderOK
    <2>2. cursor' \in 1 .. Len(Plan) + 1 /\ outgoing' \in Task \cup {NoTask}
          /\ main' \in {"prime", "select", "feed", "returned"}
      <3>1. Pull(markers, "select")
        BY <1>1 DEF Prime
      <3> QED
        BY <3>1, PullEffect, PoolFacts DEF Entry
    <2> QED
      BY <1>1, <2>1, <2>2 DEF TypeOK, Prime, chans, crew
  <1>2. CASE SendTask
    <2>1. taskCh \in Seq(Task) /\ outgoing \in Task
      BY <1>2 DEF SendTask, TypeOK, SenderOK
    <2>2. taskCh' \in Seq(Task)
      BY <1>2, <2>1, QueueAppend DEF SendTask
    <2> QED
      BY <1>2, <2>2 DEF TypeOK, SendTask, crew
  <1>3. CASE ReceiveError \/ ReceiveMismatch \/ ReceivePromoteFails \/ ReceivePromoted
    <2>1. Receive /\ Head(resultCh).task \in Task /\ (Retries \/ Settles)
      BY <1>3, RetryOrSettle
    <2>2. resultCh' \in Seq(Result)
      BY <2>1, QueueTail DEF Receive, TypeOK
    <2>3. IdOf(Head(resultCh).task) \in Ids
      BY <2>1, PoolFacts
    <2>4. staged' \in [Ids -> {"none", "partial", "good", "bad"}] /\ markers' \subseteq Ids
      BY <1>3, <2>3 DEF TypeOK, ReceiveError, ReceiveMismatch, ReceivePromoteFails, ReceivePromoted
    <2>5. /\ cursor' \in 1 .. Len(Plan) + 1 /\ outgoing' \in Task \cup {NoTask}
          /\ main' \in {"prime", "select", "feed", "returned"} /\ remaining' \in Nat
      <3>1. CASE Retries
        BY <2>1, <3>1, RetryTask DEF TypeOK, Retries
      <3>2. CASE Settles
        <4>1. Pull(markers', "select") /\ remaining' = remaining - 1 /\ remaining > 0
          BY <2>1, <3>2 DEF Settles, SettleAndFeed, Receive
        <4> QED
          BY <4>1, PullEffect, PoolFacts DEF Entry, TypeOK
      <3> QED
        BY <2>1, <3>1, <3>2
    <2> QED
      BY <2>1, <2>2, <2>4, <2>5 DEF TypeOK, Receive, crew
  <1>4. CASE Return
    BY <1>4 DEF TypeOK, Return, crew
  <1>5. ASSUME NEW w \in Workers, TakeTask(w)
        PROVE  TypeOK'
    <2>1. Head(taskCh) \in Task /\ taskCh' \in Seq(Task)
      BY <1>5, QueueTail DEF TakeTask, TypeOK
    <2> QED
      BY <1>5, <2>1, PoolAssumption DEF TakeTask, TypeOK, MainUnchanged, PoolAssumption
  <1>6. ASSUME NEW w \in Workers, CreateStaged(w) \/ FetchCompletes(w) \/ FetchErrs(w) \/ Leave(w)
        PROVE  TypeOK'
    <2>1. try[w] + 1 < FetchTries => try[w] + 1 \in 0 .. FetchTries - 1
      BY PoolAssumption DEF PoolAssumption, TypeOK
    <2> QED
      BY <1>6, <2>1 DEF TypeOK, CreateStaged, FetchCompletes, FetchErrs, Leave, MainUnchanged
  <1>7. ASSUME NEW w \in Workers, SendResult(w)
        PROVE  TypeOK'
    <2>1. [task |-> holding[w], ok |-> at[w] = "fetched"] \in Result
      BY <1>7 DEF SendResult, HolderOK, Result
    <2>2. resultCh' \in Seq(Result)
      BY <1>7, <2>1, QueueAppend DEF SendResult, TypeOK
    <2> QED
      BY <1>7, <2>2, PoolAssumption DEF TypeOK, SendResult, MainUnchanged, PoolAssumption
  <1>8. CASE Cancel \/ UNCHANGED vars
    BY <1>8 DEF TypeOK, Cancel, vars, chans, crew
  <1> QED
    BY <1>1, <1>2, <1>3, <1>4, <1>5, <1>6, <1>7, <1>8 DEF Next, Main, Worker, Done

(* What is out changes by one entry at a time, in step with the cursor.    *)
LEMMA PullPlaces ==
  ASSUME PInv, NEW done, NEW otherwise, otherwise # "feed",
         Pull(done, otherwise)
  PROVE  /\ main' = "feed" => outgoing' \in Task
         /\ main' # "feed" => main' = otherwise /\ outgoing' = NoTask
         /\ outgoing'.entry = 0 \/ (outgoing'.entry \in Entry /\ outgoing'.entry \notin Out)
         /\ cursor' \in Nat /\ cursor' >= cursor /\ outgoing'.entry < cursor'
  <1>1. Placed /\ InFlight /\ cursor \in 1 .. Len(Plan) + 1 /\ Len(Plan) \in Nat
    BY PoolFacts DEF PInv, Placed, TypeOK
  <1>2. CASE cursor' = Len(Plan) + 1 /\ main' = otherwise /\ outgoing' = NoTask
    BY <1>1, <1>2, PoolFacts
  <1>3. CASE \E j \in Entry : /\ j >= cursor /\ j \notin Out
                             /\ cursor' = j + 1 /\ main' = "feed"
                             /\ outgoing' = [entry |-> j, attempt |-> 0]
                             /\ outgoing' \in Task
    BY <1>1, <1>3 DEF Entry
  <1> QED
    BY <1>1, <1>2, <1>3, PullEffect

LEMMA PrimeKept ==
  ASSUME PInv, Prime
  PROVE  /\ NoDup' /\ Apart' /\ SenderOK' /\ HolderOK' /\ InFlight'
         /\ Out' = Out \cup ({outgoing'.entry} \ {0})
  <1>1. PInv /\ Placed /\ InFlight /\ TypeOK
    BY DEF PInv, Placed
  <1>2. Pull(markers, "select")
    BY DEF Prime
  <1>3. /\ main' = "feed" => outgoing' \in Task
        /\ main' # "feed" => main' = "select" /\ outgoing' = NoTask
        /\ outgoing'.entry = 0 \/ (outgoing'.entry \in Entry /\ outgoing'.entry \notin Out)
        /\ cursor' \in Nat /\ cursor' >= cursor /\ outgoing'.entry < cursor'
    BY <1>1, <1>2, PullPlaces
  <1>4. UNCHANGED <<taskCh, resultCh, at, holding>>
    BY DEF Prime, chans, crew
  <1>5. Queued' = Queued /\ Answered' = Answered /\ Held' = Held
    BY <1>4 DEF Queued, Answered, Held
  <1>6. Sending = {}
    BY <1>1, PoolFacts DEF Placed, SenderOK, Prime, Sending
  <1>7. Sending' = {outgoing'.entry} \ {0}
    BY DEF Sending
  <1>8. Out' = Out \cup ({outgoing'.entry} \ {0})
    BY <1>5, <1>6, <1>7 DEF Out
  <1>9. Apart'
    BY <1>1, <1>3, <1>5, <1>7 DEF Placed, Apart, Out
  <1>10. NoDup' /\ HolderOK'
    BY <1>1, <1>4 DEF Placed, NoDup, HolderOK
  <1>11. SenderOK'
    BY <1>1, <1>3 DEF SenderOK
  <1>12. Cardinality(Out') <= primed'
    <2>1. primed \in Nat /\ primed < Parallel /\ Cardinality(Out) <= primed
      BY <1>1 DEF PInv, Placed, TypeOK, SenderOK, InFlight, Prime
    <2>2. CASE Unfed(markers) = {}
      <3>1. outgoing' = NoTask
        BY <1>2, <2>2 DEF Pull
      <3>2. Out' = Out /\ primed' = Parallel
        BY <1>8, <2>2, <3>1, PoolFacts DEF Prime
      <3> QED
        BY <1>1, <2>1, <3>2, PoolFacts, FiniteOut
    <2>3. CASE Unfed(markers) # {}
      <3>1. primed' = primed + 1
        BY <2>3 DEF Prime
      <3>2. Cardinality(Out \cup {outgoing'.entry}) <= Cardinality(Out) + 1
        BY <1>1, FiniteOut, FS_AddElement
      <3>3. Out' = Out \/ Out' = Out \cup {outgoing'.entry}
        BY <1>8
      <3> QED
        BY <1>1, <2>1, <3>1, <3>2, <3>3, FiniteOut, FS_AddElement
    <2> QED
      BY <2>2, <2>3
  <1>13. \A i \in Out' : i \in Entry /\ i < cursor'
    BY <1>1, <1>3, <1>8, PoolFacts DEF InFlight, Entry, TypeOK
  <1> QED
    BY <1>8, <1>9, <1>10, <1>11, <1>12, <1>13 DEF InFlight

(* The next try keeps its entry out; a settled one makes room for at most  *)
(* one other.                                                              *)
LEMMA ReceiveKept ==
  ASSUME PInv, Receive, Retries \/ Settles, Head(resultCh).task \in Task
  PROVE  /\ NoDup' /\ Apart' /\ SenderOK' /\ HolderOK' /\ InFlight'
         /\ Head(resultCh).task.entry \in Answered
         /\ Retries => Out' = Out
         /\ Settles => Out' = (Out \ {Head(resultCh).task.entry}) \cup ({outgoing'.entry} \ {0})
  <1> DEFINE e == Head(resultCh).task.entry
             next == outgoing'.entry
  <1>1. PInv /\ Placed /\ InFlight /\ TypeOK
    BY DEF PInv, Placed
  <1>2. e \in Entry /\ e # 0 /\ e \in Nat
    BY PoolFacts DEF Entry
  <1>3. Retries => next = e /\ outgoing' \in Task /\ main' = "feed" /\ cursor' = cursor
    BY RetryTask DEF Retries
  <1>4. Settles => /\ main' = "feed" => outgoing' \in Task
                   /\ main' # "feed" => main' = "select" /\ outgoing' = NoTask
                   /\ next = 0 \/ (next \in Entry /\ next \notin Out)
                   /\ cursor' \in Nat /\ cursor' >= cursor /\ next < cursor'
    BY <1>1, PullPlaces DEF Settles, SettleAndFeed
  <1>5. next \in Nat /\ (next = 0 \/ next = e \/ next \notin Out)
    BY <1>2, <1>3, <1>4, PoolFacts DEF Entry
  <1>6. /\ NoDup' /\ Apart' /\ HolderOK' /\ e \in Answered
        /\ Out' = (Out \ {e}) \cup ({next} \ {0})
    BY <1>1, <1>5, ReceivePlaces
  <1>7. e \in Out
    BY <1>6 DEF Out
  <1>8. Retries => Out' = Out
    BY <1>2, <1>3, <1>6, <1>7
  <1>9. SenderOK'
    BY <1>1, <1>3, <1>4 DEF SenderOK
  <1>10. primed' = primed /\ Cardinality(Out) <= primed /\ primed \in Nat
    BY <1>1 DEF Receive, InFlight, TypeOK
  <1>11. IsFiniteSet(Out) /\ Cardinality(Out) \in Nat
    BY <1>1, FiniteOut
  <1>12. /\ IsFiniteSet(Out \ {e}) /\ Cardinality(Out \ {e}) = Cardinality(Out) - 1
         /\ Cardinality(Out \ {e}) \in Nat
    BY <1>7, <1>11, FS_RemoveElement, FS_CardinalityType
  <1>13. Cardinality(Out') <= primed'
    <2>1. CASE next = 0
      BY <1>6, <1>10, <1>11, <1>12, <2>1
    <2>2. CASE next # 0
      <3>1. Out' = (Out \ {e}) \cup {next}
        BY <1>6, <2>2
      <3> DEFINE rest == Out \ {e}
      <3>2. /\ Cardinality(rest \cup {next}) <= Cardinality(rest) + 1
            /\ Cardinality(rest \cup {next}) \in Nat
        <4>1. IsFiniteSet(rest) /\ Cardinality(rest) \in Nat
          BY <1>12
        <4> HIDE DEF rest
        <4>2. /\ IsFiniteSet(rest \cup {next})
              /\ Cardinality(rest \cup {next}) =
                   IF next \in rest THEN Cardinality(rest) ELSE Cardinality(rest) + 1
          BY <4>1, FS_AddElement
        <4> QED
          BY <4>1, <4>2
      <3>3. Cardinality(Out') <= Cardinality(rest) + 1 /\ Cardinality(Out') \in Nat
        BY <3>1, <3>2, Zenon
      <3> QED
        BY <1>10, <1>11, <1>12, <3>3, OneForOne, Zenon
    <2> QED
      BY <2>1, <2>2
  <1>14. \A i \in Out' : i \in Entry /\ i < cursor'
    BY <1>1, <1>2, <1>3, <1>4, <1>6, <1>7, PoolFacts DEF InFlight, Entry, TypeOK
  <1> QED
    BY <1>6, <1>8, <1>9, <1>13, <1>14 DEF InFlight

LEMMA InitPool == Init => PInv
  <1> SUFFICES ASSUME Init PROVE PInv
    OBVIOUS
  <1>1. IsFiniteSet(Pending) /\ Cardinality(Pending) \in Nat
    <2>1. IsFiniteSet(Entry) /\ Pending \subseteq Entry
      BY PoolFacts, FS_Interval DEF Entry, Pending
    <2> QED
      BY <2>1, FS_Subset, FS_CardinalityType
  <1>2. TypeOK
    <2>1. primed \in 0 .. Parallel /\ cursor \in 1 .. Len(Plan) + 1 /\ remaining \in Nat
      BY <1>1, PoolFacts DEF Init
    <2>2. taskCh \in Seq(Task) /\ resultCh \in Seq(Result)
      BY DEF Init
    <2>3. try \in [Workers -> 0 .. FetchTries - 1]
      BY PoolAssumption DEF Init, PoolAssumption
    <2>4. markers \subseteq Ids
      BY PoolAssumption DEF Init, PoolAssumption
    <2> QED
      BY <2>1, <2>2, <2>3, <2>4 DEF Init, TypeOK
  <1>3. SenderOK /\ HolderOK
    BY PoolFacts DEF Init, SenderOK, HolderOK
  <1>4. Queued = {} /\ Answered = {} /\ Held = {} /\ Sending = {} /\ NoDup
    BY PoolFacts DEF Init, Queued, Answered, Held, Sending, NoDup
  <1>5. Out = {} /\ Apart
    BY <1>4 DEF Out, Apart
  <1>6. InFlight
    BY <1>5, FS_EmptySet DEF InFlight, Init
  <1> QED
    BY <1>2, <1>3, <1>4, <1>5, <1>6 DEF PInv, Placed

(* The steps that move no task.                                            *)
Idles(w) == CreateStaged(w) \/ FetchCompletes(w) \/ FetchErrs(w) \/ Leave(w)

LEMMA StillPlaces ==
  ASSUME PInv,
         \/ Return \/ Cancel \/ UNCHANGED vars
         \/ \E w \in Workers : Idles(w)
  PROVE  /\ NoDup' /\ Apart' /\ SenderOK' /\ HolderOK' /\ InFlight'
         /\ UNCHANGED <<Queued, Answered, Held, Sending, Out, cursor, remaining, markers>>
  <1>1. UNCHANGED <<taskCh, resultCh, holding, outgoing, primed, cursor, remaining, markers>>
    BY DEF Return, Cancel, Idles, CreateStaged, FetchCompletes, FetchErrs, Leave,
       MainUnchanged, vars, chans, crew
  <1>2. main' = main \/ (main = "select" /\ main' = "returned")
    BY DEF Return, Cancel, Idles, CreateStaged, FetchCompletes, FetchErrs, Leave,
       MainUnchanged, vars
  <1>3. \A v \in Workers : at[v] \in {"idle", "gone"} <=> at'[v] \in {"idle", "gone"}
    BY DEF Return, Cancel, Idles, CreateStaged, FetchCompletes, FetchErrs, Leave,
       MainUnchanged, vars, crew, PInv, Placed, TypeOK
  <1>4. UNCHANGED <<Queued, Answered, Held, Sending, Out>>
    BY <1>1 DEF Queued, Answered, Held, Sending, Out
  <1>5. SenderOK'
    BY <1>1, <1>2 DEF SenderOK, PInv, Placed
  <1>6. HolderOK'
    BY <1>1, <1>3 DEF HolderOK, PInv, Placed
  <1>7. NoDup' /\ Apart' /\ InFlight'
    BY <1>1, <1>4 DEF NoDup, Apart, InFlight, PInv, Placed
  <1> QED
    BY <1>1, <1>4, <1>5, <1>6, <1>7

LEMMA StepPool == PInv /\ [Next]_vars => PInv'
  <1> SUFFICES ASSUME PInv, [Next]_vars PROVE PInv'
    OBVIOUS
  <1>1. TypeOK'
    BY TypeKept
  <1>2. CASE Prime
    BY <1>1, <1>2, PrimeKept DEF PInv, Placed
  <1>3. CASE SendTask
    <2>1. NoDup' /\ Apart' /\ Out' = Out
      BY <1>3, SendTaskPlaces DEF PInv
    <2>2. SenderOK' /\ HolderOK' /\ UNCHANGED <<cursor, primed>>
      BY <1>3, PoolFacts DEF PInv, Placed, SenderOK, HolderOK, SendTask, crew, TypeOK
    <2> QED
      BY <1>1, <2>1, <2>2 DEF PInv, Placed, InFlight
  <1>4. CASE ReceiveError \/ ReceiveMismatch \/ ReceivePromoteFails \/ ReceivePromoted
    BY <1>1, <1>4, RetryOrSettle, ReceiveKept DEF PInv, Placed
  <1>5. ASSUME NEW w \in Workers, TakeTask(w) \/ SendResult(w)
        PROVE  PInv'
    <2>1. NoDup' /\ Apart' /\ Out' = Out /\ HolderOK'
      BY <1>5, TakeTaskPlaces, SendResultPlaces DEF PInv
    <2>2. SenderOK' /\ UNCHANGED <<cursor, primed>>
      BY <1>5 DEF PInv, Placed, SenderOK, TakeTask, SendResult, MainUnchanged
    <2> QED
      BY <1>1, <2>1, <2>2 DEF PInv, Placed, InFlight
  <1>6. CASE Return \/ Cancel \/ UNCHANGED vars \/ \E w \in Workers : Idles(w)
    BY <1>1, <1>6, StillPlaces DEF PInv, Placed
  <1> QED
    BY <1>2, <1>3, <1>4, <1>5, <1>6 DEF Next, Main, Worker, Done, Idles

LEMMA PoolInvariant == Spec => []PInv
  BY InitPool, StepPool, PTL DEF Spec

(* The pool's variables keep their types: no index leaves its range.       *)
THEOREM PoolTypes == Spec => []TypeOK
  <1>1. PInv => TypeOK
    BY DEF PInv, Placed
  <1> QED
    BY <1>1, PoolInvariant, PTL

(* Whatever the plan, repeated entries included, however many workers and  *)
(* whatever fails: no goroutine waits for room in a channel, because each  *)
(* entry that is out is in one place, and they are opts.Parallel at most.  *)
THEOREM NeverBlocked == Spec => []SendsNeverBlock
  <1>1. PInv => SendsNeverBlock
    <2> SUFFICES ASSUME PInv PROVE SendsNeverBlock
      OBVIOUS
    <2>1. TypeOK /\ Placed /\ InFlight
      BY DEF PInv, Placed
    <2>2. /\ Len(taskCh) \in Nat /\ Len(resultCh) \in Nat
          /\ primed \in Nat /\ primed <= Parallel /\ Parallel \in Nat
      BY <2>1, PoolFacts DEF TypeOK
    <2>3. Cardinality(Queued) = Len(taskCh) /\ IsFiniteSet(Queued)
      <3> DEFINE f == [k \in 1 .. Len(taskCh) |-> taskCh[k].entry]
      <3>1. \A k, l \in 1 .. Len(taskCh) : f[k] = f[l] => k = l
        <4>1. \A k, l \in 1 .. Len(taskCh) : taskCh[k].entry = taskCh[l].entry => k = l
          <5>1. NoDup
            BY <2>1 DEF Placed
          <5> QED
            BY <5>1, Zenon DEF NoDup
        <4> QED
          BY <4>1
      <3>2. Queued = {f[k] : k \in 1 .. Len(taskCh)}
        BY DEF Queued
      <3> HIDE DEF f
      <3>3. LET S == {f[k] : k \in 1 .. Len(taskCh)} IN Cardinality(S) = Len(taskCh) /\ IsFiniteSet(S)
        BY <2>2, <3>1, DistinctCount
      <3> QED
        BY <3>2, <3>3, Zenon
    <2>4. Cardinality(Answered) = Len(resultCh) /\ IsFiniteSet(Answered)
      <3> DEFINE f == [k \in 1 .. Len(resultCh) |-> resultCh[k].task.entry]
      <3>1. \A k, l \in 1 .. Len(resultCh) : f[k] = f[l] => k = l
        <4>1. \A k, l \in 1 .. Len(resultCh) : resultCh[k].task.entry = resultCh[l].task.entry => k = l
          <5>1. NoDup
            BY <2>1 DEF Placed
          <5> QED
            BY <5>1, Zenon DEF NoDup
        <4> QED
          BY <4>1
      <3>2. Answered = {f[k] : k \in 1 .. Len(resultCh)}
        BY DEF Answered
      <3> HIDE DEF f
      <3>3. LET S == {f[k] : k \in 1 .. Len(resultCh)} IN Cardinality(S) = Len(resultCh) /\ IsFiniteSet(S)
        BY <2>2, <3>1, DistinctCount
      <3> QED
        BY <3>2, <3>3, Zenon
    <2>5. ASSUME NEW S, IsFiniteSet(S), S \subseteq Out, NEW e \in Out, e \notin S
          PROVE  Cardinality(S) < Parallel
      <3>1. /\ S \cup {e} \subseteq Out /\ Cardinality(S \cup {e}) = Cardinality(S) + 1
            /\ Cardinality(S) \in Nat
        BY <2>5, FS_AddElement, FS_CardinalityType
      <3>2. IsFiniteSet(Out) /\ Cardinality(Out) \in Nat
        BY <2>1, FiniteOut
      <3>3. Cardinality(S \cup {e}) <= Cardinality(Out)
        BY <3>1, <3>2, FS_Subset
      <3>4. Cardinality(Out) <= primed
        BY <2>1 DEF InFlight
      <3> QED
        BY <2>2, <3>1, <3>2, <3>3, <3>4
    <2>6. ASSUME main = "feed"
          PROVE  Len(taskCh) < Parallel
      <3>1. outgoing.entry \in Sending
        BY <2>1, <2>6, PoolFacts DEF Placed, SenderOK, Sending
      <3> QED
        BY <2>1, <2>3, <2>5, <3>1 DEF Placed, Apart, Out
    <2>7. ASSUME NEW w \in Workers, at[w] \in {"fetched", "gave_up"}
          PROVE  Len(resultCh) < Parallel
      <3>1. holding[w].entry \in Held
        BY <2>1, <2>7, PoolFacts DEF Placed, HolderOK, Held
      <3> QED
        BY <2>1, <2>4, <2>5, <3>1 DEF Placed, Apart, Out
    <2> QED
      BY <2>6, <2>7 DEF SendsNeverBlock
  <1> QED
    BY <1>1, PoolInvariant, PTL
-----------------------------------------------------------------------------
(* A plan that names no file and no page twice, as the plans of diagnose   *)
(* do: the reader accepts one that does, and then the eager count and the  *)
(* lazy feed disagree (README, section 4).                                 *)
DistinctPlan == \A i, j \in Entry : Plan[i] = Plan[j] => i = j

(* What a fetch that reported success has left in its staged file.         *)
BytesInv ==
  /\ \A w \in Workers : at[w] = "fetched" => staged[IdOf(holding[w])] \in {"good", "bad"}
  /\ \A k \in 1 .. Len(resultCh) :
        resultCh[k].ok => staged[IdOf(resultCh[k].task)] \in {"good", "bad"}

LEMMA InitBytes == Init => BytesInv
  BY DEF Init, BytesInv

(* With distinct entries, nobody else has the staged file of a task.       *)
LEMMA OwnFiles ==
  ASSUME PInv, DistinctPlan
  PROVE  /\ \A v, w \in Workers :
               holding[v] \in Task /\ holding[w] \in Task /\ IdOf(holding[v]) = IdOf(holding[w])
                 => v = w
         /\ \A k \in 1 .. Len(resultCh), w \in Workers :
               holding[w] \in Task => IdOf(resultCh[k].task) # IdOf(holding[w])
         /\ \A k, l \in 1 .. Len(resultCh) :
               IdOf(resultCh[k].task) = IdOf(resultCh[l].task) => k = l
         /\ \A k \in 1 .. Len(resultCh) :
               resultCh[k].task \in Task /\ IdOf(resultCh[k].task) \in Ids
  <1>1. \A a, b \in Task : IdOf(a) = IdOf(b) => a.entry = b.entry
    BY PoolFacts DEF DistinctPlan, IdOf
  <1>2. \A k \in 1 .. Len(resultCh) : resultCh[k].task \in Task
    <2>1. \A k \in 1 .. Len(resultCh) : resultCh[k] \in Result
      BY DEF PInv, Placed, TypeOK
    <2> QED
      BY <2>1 DEF Result
  <1>3. \A k \in 1 .. Len(resultCh) : resultCh[k].task.entry \in Answered
    BY DEF Answered
  <1>4. \A w \in Workers : holding[w] \in Task => holding[w].entry \in Held
    BY PoolFacts DEF Held
  <1>5. Answered \cap Held = {}
    BY DEF PInv, Placed, Apart
  <1>6. \A k \in 1 .. Len(resultCh), w \in Workers :
           holding[w] \in Task => IdOf(resultCh[k].task) # IdOf(holding[w])
    BY <1>1, <1>2, <1>3, <1>4, <1>5
  <1>7. \A k, l \in 1 .. Len(resultCh) :
           IdOf(resultCh[k].task) = IdOf(resultCh[l].task) => k = l
    BY <1>1, <1>2 DEF PInv, Placed, NoDup
  <1>8. \A v, w \in Workers :
           holding[v] \in Task /\ holding[w] \in Task /\ IdOf(holding[v]) = IdOf(holding[w])
             => v = w
    <2> SUFFICES ASSUME NEW v \in Workers, NEW w \in Workers,
                        holding[v] \in Task, holding[w] \in Task,
                        IdOf(holding[v]) = IdOf(holding[w])
                 PROVE  v = w
      OBVIOUS
    <2>1. holding[v].entry = holding[w].entry /\ holding[v].entry # 0
      BY <1>1, PoolFacts
    <2> QED
      BY <2>1 DEF PInv, Placed, NoDup
  <1> QED
    BY <1>2, <1>6, <1>7, <1>8, PoolFacts

LEMMA WorkerBytes ==
  ASSUME PInv, DistinctPlan, BytesInv, NEW w \in Workers, Worker(w)
  PROVE  BytesInv'
  <1> DEFINE id == IdOf(holding[w])
  <1>1. TypeOK /\ HolderOK
    BY DEF PInv, Placed
  <1>2. CASE CreateStaged(w) \/ FetchCompletes(w)
    <2>1. holding[w] \in Task /\ id \in Ids
      BY <1>1, <1>2, PoolFacts DEF HolderOK, CreateStaged, FetchCompletes
    <2>2. \A v \in Workers \ {w} : at'[v] = at[v]
      BY <1>1, <1>2 DEF TypeOK, CreateStaged, FetchCompletes
    <2>3. at'[w] = "fetched" => staged'[id] \in {"good", "bad"}
      BY <1>1, <1>2, <2>1 DEF TypeOK, CreateStaged, FetchCompletes
    <2>4. \A other \in Ids \ {id} : staged'[other] = staged[other]
      BY <1>1, <1>2 DEF TypeOK, CreateStaged, FetchCompletes
    <2>5. resultCh' = resultCh /\ holding' = holding
      BY <1>2 DEF CreateStaged, FetchCompletes
    <2>6. \A v \in Workers : at[v] = "fetched" => holding[v] \in Task
      BY <1>1 DEF HolderOK
    <2>7. \A v \in Workers \ {w} :
             at'[v] = "fetched" => IdOf(holding[v]) \in Ids \ {id}
      BY <2>1, <2>2, <2>6, OwnFiles, PoolFacts
    <2>8. \A k \in 1 .. Len(resultCh) : IdOf(resultCh[k].task) \in Ids \ {id}
      BY <2>1, OwnFiles
    <2>9. \A v \in Workers : at'[v] = "fetched" => staged'[IdOf(holding[v])] \in {"good", "bad"}
      BY <2>2, <2>3, <2>4, <2>7 DEF BytesInv
    <2>10. \A k \in 1 .. Len(resultCh) :
              resultCh[k].ok => staged'[IdOf(resultCh[k].task)] \in {"good", "bad"}
      BY <2>4, <2>8 DEF BytesInv
    <2> QED
      BY <2>5, <2>9, <2>10 DEF BytesInv, IdOf
  <1>3. CASE TakeTask(w) \/ FetchErrs(w) \/ Leave(w)
    <2>1. staged' = staged /\ resultCh' = resultCh
      BY <1>3 DEF TakeTask, FetchErrs, Leave
    <2>2. at'[w] # "fetched" /\ \A v \in Workers \ {w} : at'[v] = at[v] /\ holding'[v] = holding[v]
      BY <1>1, <1>3 DEF TypeOK, TakeTask, FetchErrs, Leave
    <2> QED
      BY <2>1, <2>2 DEF BytesInv, IdOf
  <1>4. CASE SendResult(w)
    <2> DEFINE r == [task |-> holding[w], ok |-> at[w] = "fetched"]
    <2>1. r \in Result
      BY <1>1, <1>4 DEF SendResult, HolderOK, Result
    <2>2. /\ Len(resultCh) \in Nat /\ Len(resultCh') = Len(resultCh) + 1
          /\ \A k \in 1 .. Len(resultCh) : resultCh'[k] = resultCh[k]
          /\ resultCh'[Len(resultCh) + 1] = r
      BY <1>1, <1>4, <2>1, QueueAppend DEF TypeOK, SendResult
    <2>3. r.ok => staged[IdOf(r.task)] \in {"good", "bad"}
      BY DEF BytesInv
    <2>4. /\ staged' = staged /\ at'[w] = "idle"
          /\ \A v \in Workers \ {w} : at'[v] = at[v] /\ holding'[v] = holding[v]
      BY <1>1, <1>4 DEF TypeOK, SendResult
    <2> QED
      BY <2>2, <2>3, <2>4 DEF BytesInv, IdOf
  <1> QED
    BY <1>2, <1>3, <1>4 DEF Worker

LEMMA MainBytes ==
  ASSUME PInv, DistinctPlan, BytesInv, Main \/ Cancel \/ UNCHANGED vars
  PROVE  BytesInv'
  <1>1. TypeOK /\ HolderOK
    BY DEF PInv, Placed
  <1>2. CASE Prime \/ SendTask \/ Return \/ Cancel \/ UNCHANGED vars
    BY <1>2 DEF BytesInv, Prime, SendTask, Return, Cancel, vars, chans, crew, IdOf
  <1>3. CASE ReceiveError \/ ReceiveMismatch \/ ReceivePromoteFails \/ ReceivePromoted
    <2> DEFINE id == IdOf(Head(resultCh).task)
    <2>1. Receive
      BY <1>3, RetryOrSettle DEF PInv
    <2>2. /\ Len(resultCh) \in Nat /\ Len(resultCh) >= 1 /\ Len(resultCh') = Len(resultCh) - 1
          /\ \A k \in 1 .. Len(resultCh) - 1 : resultCh'[k] = resultCh[k + 1]
          /\ Head(resultCh) = resultCh[1]
      BY <1>1, <2>1, QueueTail DEF Receive, TypeOK
    <2>3. at' = at /\ holding' = holding
      BY <2>1 DEF Receive, crew
    <2>4. \A other \in Ids \ {id} : staged'[other] = staged[other]
      BY <1>1, <1>3 DEF TypeOK, ReceiveError, ReceiveMismatch, ReceivePromoteFails, ReceivePromoted
    <2>5. \A v \in Workers : at[v] = "fetched" => IdOf(holding[v]) \in Ids \ {id}
      BY <1>1, <2>2, OwnFiles, PoolFacts DEF HolderOK
    <2>6. \A k \in 1 .. Len(resultCh') :
             k + 1 \in 1 .. Len(resultCh) /\ resultCh'[k] = resultCh[k + 1] /\ k + 1 # 1
      BY <2>2
    <2>7. \A k \in 1 .. Len(resultCh') : IdOf(resultCh'[k].task) \in Ids \ {id}
      BY <2>2, <2>6, OwnFiles
    <2>8. \A v \in Workers : at'[v] = "fetched" => staged'[IdOf(holding'[v])] \in {"good", "bad"}
      BY <2>3, <2>4, <2>5 DEF BytesInv
    <2>9. \A k \in 1 .. Len(resultCh') :
             resultCh'[k].ok => staged'[IdOf(resultCh'[k].task)] \in {"good", "bad"}
      BY <2>4, <2>6, <2>7 DEF BytesInv
    <2> QED
      BY <2>8, <2>9 DEF BytesInv, IdOf
  <1> QED
    BY <1>2, <1>3 DEF Main

(* Of a plan with distinct entries: from a reported success until the hash *)
(* gate has read the staged file, no other goroutine works on that file.   *)
THEOREM DeliveredBytes ==
  ASSUME DistinctPlan
  PROVE  Spec => []StagedUntouched
  <1>1. PInv /\ BytesInv /\ [Next]_vars => BytesInv'
    BY WorkerBytes, MainBytes DEF Next, Done
  <1>2. PInv /\ BytesInv => StagedUntouched
    <2> SUFFICES ASSUME PInv, BytesInv PROVE StagedUntouched
      OBVIOUS
    <2>1. \A w \in Workers : holding[w] # NoTask => holding[w] \in Task
      BY DEF PInv, Placed, HolderOK
    <2> QED
      BY <2>1, OwnFiles DEF BytesInv, StagedUntouched
  <1> QED
    BY <1>1, <1>2, InitBytes, PoolInvariant, PTL DEF Spec
-----------------------------------------------------------------------------
(* The eager count and the lazy feed agree: what is left of the feed are   *)
(* the pending entries from the cursor on, and a result is to come for     *)
(* each of them and for each entry that is out.                            *)
Waiting == {i \in Pending : i >= cursor}

FeedInv ==
  /\ Marked \subseteq markers
  /\ \A i \in Entry : i >= cursor /\ Plan[i] \in markers => Plan[i] \in Marked
  /\ Out \subseteq Pending
  /\ remaining = Cardinality(Out \cup Waiting)

LEMMA FiniteWork ==
  ASSUME TypeOK
  PROVE  IsFiniteSet(Out \cup Waiting) /\ Cardinality(Out \cup Waiting) \in Nat
  <1>1. IsFiniteSet(Entry) /\ Waiting \subseteq Entry /\ Out \subseteq Entry
    <2>1. IsFiniteSet(1 .. Len(Plan))
      BY PoolFacts, FS_Interval
    <2> QED
      BY <2>1, FiniteOut DEF Entry, Waiting, Pending
  <1>2. Out \cup Waiting \subseteq Entry
    BY <1>1
  <1> QED
    BY <1>1, <1>2, FS_Subset, FS_CardinalityType

LEMMA InitFeed == Init => FeedInv
  <1> SUFFICES ASSUME Init PROVE FeedInv
    OBVIOUS
  <1>1. Out = {}
    BY PoolFacts DEF Init, Out, Queued, Answered, Held, Sending
  <1>2. Waiting = Pending
    BY DEF Init, Waiting, Pending, Entry
  <1> QED
    BY <1>1, <1>2 DEF Init, FeedInv

(* The lazy feed and the waiting entries are the same set, and pulling     *)
(* takes the least of them.                                                *)
LEMMA PullWaits ==
  ASSUME PInv, NEW done, NEW otherwise, Pull(done, otherwise), Marked \subseteq done,
         \A i \in Entry : i >= cursor /\ Plan[i] \in done => Plan[i] \in Marked
  PROVE  /\ cursor' \in Nat /\ cursor' >= cursor
         /\ \/ Waiting = {} /\ Waiting' = {} /\ outgoing'.entry = 0
            \/ \E j \in Waiting : /\ \A k \in Waiting : j <= k
                                  /\ Waiting' = Waiting \ {j}
                                  /\ j \in Pending /\ j # 0 /\ j \notin Out
                                  /\ outgoing'.entry = j
  <1>1. Placed /\ InFlight /\ cursor \in 1 .. Len(Plan) + 1 /\ Len(Plan) \in Nat
    BY PoolFacts DEF PInv, Placed, TypeOK
  <1>2. Unfed(done) = Waiting
    BY <1>1 DEF Unfed, Waiting, Pending, Entry
  <1>3. Waiting' = {i \in Pending : i >= cursor'}
    BY DEF Waiting, Pending, Entry
  <1>4. Pending \subseteq Entry
    BY DEF Pending
  <1>5. CASE Waiting = {} /\ cursor' = Len(Plan) + 1 /\ outgoing' = NoTask
    <2>1. \A i \in Pending : ~(i >= cursor')
      BY <1>1, <1>4, <1>5 DEF Entry
    <2>2. cursor' \in Nat /\ cursor' >= cursor
      BY <1>1, <1>5
    <2> QED
      BY <1>3, <1>5, <2>1, <2>2, PoolFacts
  <1>6. ASSUME NEW j \in Waiting, \A k \in Waiting : j <= k, j \notin Out,
               cursor' = j + 1, outgoing' = [entry |-> j, attempt |-> 0]
        PROVE  /\ cursor' \in Nat /\ cursor' >= cursor
               /\ Waiting' = Waiting \ {j} /\ j \in Pending /\ j # 0
               /\ outgoing'.entry = j
    <2>1. j \in Pending /\ j \in Nat /\ j >= cursor /\ j # 0
      BY <1>1, <1>4 DEF Waiting, Entry
    <2>2. \A i \in Pending : i >= j + 1 <=> (i >= cursor /\ i # j)
      <3> SUFFICES ASSUME NEW i \in Pending PROVE i >= j + 1 <=> (i >= cursor /\ i # j)
        OBVIOUS
      <3>1. i \in Nat /\ (i >= cursor => j <= i)
        BY <1>4, <1>6 DEF Waiting, Entry
      <3> QED
        BY <1>1, <2>1, <3>1
    <2>3. Waiting' = {i \in Pending : i >= j + 1}
      BY <1>3, <1>6
    <2>4. Waiting' = Waiting \ {j}
      BY <2>2, <2>3 DEF Waiting
    <2>5. cursor' \in Nat /\ cursor' >= cursor
      BY <1>1, <1>6, <2>1
    <2> QED
      BY <1>6, <2>1, <2>4, <2>5
  <1>7. \/ Waiting = {} /\ cursor' = Len(Plan) + 1 /\ outgoing' = NoTask
        \/ \E j \in Waiting : /\ \A k \in Waiting : j <= k
                              /\ j \notin Out /\ cursor' = j + 1
                              /\ outgoing' = [entry |-> j, attempt |-> 0]
    BY <1>1, <1>2, PullEffect
  <1> QED
    BY <1>5, <1>6, <1>7

(* A settled task marks at most itself, and it came before the cursor.     *)
LEMMA MarksBehind ==
  ASSUME PInv, DistinctPlan, FeedInv,
         \/ markers' = markers
         \/ markers' = markers \cup {IdOf(Head(resultCh).task)}
            /\ Head(resultCh).task \in Task /\ Head(resultCh).task.entry \in Answered
  PROVE  /\ Marked \subseteq markers'
         /\ \A i \in Entry : i >= cursor /\ Plan[i] \in markers' => Plan[i] \in Marked
  <1> DEFINE e == Head(resultCh).task.entry
  <1>1. CASE markers' = markers
    BY <1>1 DEF FeedInv
  <1>2. CASE /\ markers' = markers \cup {Plan[e]} /\ Head(resultCh).task \in Task
             /\ e \in Answered
    <2>1. e \in Entry /\ e < cursor
      BY <1>2 DEF PInv, InFlight, Out
    <2>2. cursor \in Nat /\ Entry \subseteq Nat
      BY PoolFacts DEF PInv, Placed, TypeOK, Entry
    <2>3. \A i \in Entry : i >= cursor => Plan[i] # Plan[e]
      <3>1. \A i \in Entry : i >= cursor => i # e
        BY <2>1, <2>2
      <3> HIDE DEF e
      <3> QED
        BY <2>1, <3>1 DEF DistinctPlan
    <2> QED
      BY <1>2, <2>3 DEF FeedInv
  <1> QED
    BY <1>1, <1>2 DEF IdOf

AbstractVars == <<Waiting, Out, main = "returned", cancelled>>

(* A turn of the priming loop hands out the next entry, or finds none.     *)
LEMMA PrimeFeeds ==
  ASSUME PInv, DistinctPlan, FeedInv, Prime
  PROVE  FeedInv' /\ ((\E i \in Pending : Abstract!HandOut(i)) \/ UNCHANGED AbstractVars)
  <1>1. /\ Pull(markers, "select") /\ main = "prime" /\ primed < Parallel
        /\ UNCHANGED <<remaining, markers, cancelled>>
    BY DEF Prime, PInv, Placed, SenderOK
  <1>2. /\ Marked \subseteq markers
        /\ \A i \in Entry : i >= cursor /\ Plan[i] \in markers => Plan[i] \in Marked
        /\ Out \subseteq Pending /\ remaining = Cardinality(Out \cup Waiting)
    BY DEF FeedInv
  <1>3. Out' = Out \cup ({outgoing'.entry} \ {0})
    BY PrimeKept
  <1>4. main' # "returned"
    BY <1>1, PullPlaces
  <1>5. cursor' \in Nat /\ cursor' >= cursor /\ cursor \in Nat
    BY <1>1, <1>2, PullWaits DEF PInv, Placed, TypeOK
  <1>6. \A i \in Entry : i >= cursor' /\ Plan[i] \in markers' => Plan[i] \in Marked
    BY <1>1, <1>2, <1>5, PoolFacts DEF Entry
  <1>7. CASE Waiting = {} /\ Waiting' = {} /\ outgoing'.entry = 0
    BY <1>1, <1>2, <1>3, <1>4, <1>6, <1>7 DEF FeedInv, AbstractVars
  <1>8. ASSUME NEW j \in Waiting, \A k \in Waiting : j <= k, Waiting' = Waiting \ {j},
               j \in Pending, j # 0, j \notin Out, outgoing'.entry = j
        PROVE  FeedInv' /\ Abstract!HandOut(j)
    <2>1. Out' = Out \cup {j}
      BY <1>3, <1>8
    <2>2. Out' \cup Waiting' = Out \cup Waiting
      BY <1>8, <2>1
    <2>3. FeedInv'
      BY <1>1, <1>2, <1>6, <1>8, <2>1, <2>2 DEF FeedInv
    <2>4. Cardinality(Out) < Parallel
      BY <1>1, PoolFacts, FiniteOut DEF PInv, Placed, TypeOK, InFlight
    <2>5. Abstract!IsNext(j)
      BY <1>8 DEF Abstract!IsNext, Waiting
    <2>6. Abstract!Cardinality(Out) = Cardinality(Out)
      BY DEF Abstract!Cardinality, Cardinality
    <2>7. Abstract!HandOut(j)
      BY <1>1, <1>4, <1>8, <2>1, <2>4, <2>5, <2>6 DEF Abstract!HandOut, Waiting
    <2> QED
      BY <2>3, <2>7
  <1> QED
    BY <1>1, <1>2, <1>7, <1>8, PullWaits

(* A received result is a retry that nobody outside sees, or it settles    *)
(* its entry and the next waiting one takes the place.                     *)
LEMMA ReceiveFeeds ==
  ASSUME PInv, DistinctPlan, FeedInv,
         ReceiveError \/ ReceiveMismatch \/ ReceivePromoteFails \/ ReceivePromoted
  PROVE  FeedInv' /\ ((\E i \in Pending : Abstract!Settle(i)) \/ UNCHANGED AbstractVars)
  <1> PICK e : e = Head(resultCh).task.entry
    OBVIOUS
  <1>1. Receive /\ Head(resultCh).task \in Task /\ (Retries \/ Settles)
    BY RetryOrSettle DEF PInv
  <1>2. /\ e \in Answered
        /\ Retries => Out' = Out
        /\ Settles => Out' = (Out \ {e}) \cup ({outgoing'.entry} \ {0})
    BY <1>1, ReceiveKept
  <1>3. /\ main = "select" /\ remaining > 0 /\ cancelled' = cancelled
        /\ Out \subseteq Pending /\ remaining = Cardinality(Out \cup Waiting)
    BY <1>1 DEF Receive, FeedInv
  <1>4. \/ markers' = markers
        \/ markers' = markers \cup {IdOf(Head(resultCh).task)}
    BY DEF ReceiveError, ReceiveMismatch, ReceivePromoteFails, ReceivePromoted
  <1>5. /\ Marked \subseteq markers'
        /\ \A i \in Entry : i >= cursor /\ Plan[i] \in markers' => Plan[i] \in Marked
    BY <1>1, <1>2, <1>4, MarksBehind
  <1>6. CASE Retries
    <2>1. /\ cursor' = cursor /\ remaining' = remaining /\ main' = "feed"
          /\ markers' = markers /\ Out' = Out
      BY <1>2, <1>6 DEF Retries
    <2>2. Waiting' = Waiting
      BY <2>1 DEF Waiting
    <2> QED
      BY <1>3, <2>1, <2>2 DEF FeedInv, AbstractVars
  <1>7. CASE Settles
    <2>1. Pull(markers', "select") /\ remaining' = remaining - 1
      BY <1>7 DEF Settles, SettleAndFeed
    <2>2. main' # "returned"
      BY <2>1, PullPlaces
    <2>3. /\ cursor' \in Nat /\ cursor' >= cursor
          /\ \/ Waiting = {} /\ Waiting' = {} /\ outgoing'.entry = 0
             \/ \E j \in Waiting : /\ \A k \in Waiting : j <= k
                                   /\ Waiting' = Waiting \ {j}
                                   /\ j \in Pending /\ j # 0 /\ j \notin Out
                                   /\ outgoing'.entry = j
      BY <1>5, <2>1, PullWaits
    <2>4. e \in Out /\ e \in Pending /\ e \notin Waiting
      <3>1. e \in Out /\ e \in Entry /\ e < cursor
        BY <1>2 DEF Out, PInv, InFlight
      <3>2. cursor \in Nat /\ e \in Nat
        BY <3>1, PoolFacts DEF Entry, PInv, Placed, TypeOK
      <3> QED
        BY <1>3, <3>1, <3>2 DEF Waiting
    <2>5. /\ Out' \subseteq Pending
          /\ Out' \cup Waiting' = (Out \cup Waiting) \ {e}
      BY <1>2, <1>3, <1>7, <2>3, <2>4
    <2>6. remaining' = Cardinality(Out' \cup Waiting')
      <3>1. IsFiniteSet(Out \cup Waiting)
        BY FiniteWork DEF PInv, Placed
      <3>2. e \in Out \cup Waiting
        BY <2>4
      <3>3. Cardinality((Out \cup Waiting) \ {e}) = Cardinality(Out \cup Waiting) - 1
        BY <3>1, <3>2, FS_RemoveElement
      <3> QED
        BY <1>3, <2>1, <2>5, <3>3
    <2>7. \A i \in Entry : i >= cursor' /\ Plan[i] \in markers' => Plan[i] \in Marked
      BY <1>5, <2>3, PoolFacts DEF Entry, PInv, Placed, TypeOK
    <2>8. FeedInv'
      BY <1>5, <2>5, <2>6, <2>7 DEF FeedInv
    <2>9. Abstract!Settle(e)
      <3>1. CASE Waiting = {} /\ Waiting' = {} /\ outgoing'.entry = 0
        <4>1. Out' = Out \ {e}
          BY <1>2, <1>7, <3>1
        <4> QED
          BY <1>3, <2>2, <2>4, <3>1, <4>1 DEF Abstract!Settle, Waiting
      <3>2. ASSUME NEW j \in Waiting, \A k \in Waiting : j <= k, Waiting' = Waiting \ {j},
                   j # 0, outgoing'.entry = j
            PROVE  Abstract!Settle(e)
        <4>1. Out' = (Out \ {e}) \cup {j}
          BY <1>2, <1>7, <3>2
        <4> QED
          BY <1>3, <2>2, <2>4, <3>2, <4>1 DEF Abstract!Settle, Abstract!IsNext, Waiting
      <3> QED
        BY <2>3, <3>1, <3>2
    <2> QED
      BY <2>4, <2>8, <2>9
  <1> QED
    BY <1>1, <1>6, <1>7

LEMMA StepFeeds ==
  ASSUME PInv, DistinctPlan, FeedInv, [Next]_vars
  PROVE  FeedInv' /\ [Abstract!FeedNext]_AbstractVars
  <1>1. CASE Prime
    BY <1>1, PrimeFeeds DEF Abstract!FeedNext, Abstract!FeedStep
  <1>2. CASE ReceiveError \/ ReceiveMismatch \/ ReceivePromoteFails \/ ReceivePromoted
    BY <1>2, ReceiveFeeds DEF Abstract!FeedNext, Abstract!FeedStep
  <1>3. ASSUME UNCHANGED <<Out, cursor, remaining, markers, cancelled>>,
               main' = "returned" <=> main = "returned"
        PROVE  FeedInv' /\ UNCHANGED AbstractVars
    <2>1. Waiting' = Waiting
      BY <1>3 DEF Waiting
    <2> QED
      BY <1>3, <2>1 DEF FeedInv, AbstractVars
  <1>4. CASE SendTask
    <2>1. Out' = Out
      BY <1>4, SendTaskPlaces DEF PInv
    <2> QED
      BY <1>3, <1>4, <2>1 DEF SendTask
  <1>5. ASSUME NEW w \in Workers, Worker(w)
        PROVE  FeedInv' /\ UNCHANGED AbstractVars
    <2>1. UNCHANGED <<main, cursor, remaining, markers, cancelled>>
      BY <1>5 DEF Worker, TakeTask, CreateStaged, FetchCompletes, FetchErrs, SendResult, Leave,
         MainUnchanged
    <2>2. Out' = Out
      BY <1>5, TakeTaskPlaces, SendResultPlaces, StillPlaces DEF Worker, Idles, PInv
    <2> QED
      BY <1>3, <2>1, <2>2
  <1>6. CASE Return \/ Cancel \/ UNCHANGED vars
    <2>1. UNCHANGED <<Out, cursor, remaining, markers>>
      BY <1>6, StillPlaces
    <2>2. Waiting' = Waiting
      BY <2>1 DEF Waiting
    <2>3. FeedInv'
      BY <2>1, <2>2 DEF FeedInv
    <2>4. CASE UNCHANGED vars
      BY <2>1, <2>2, <2>3, <2>4 DEF vars, AbstractVars
    <2>5. CASE Cancel
      BY <2>1, <2>2, <2>3, <2>5 DEF Cancel, Abstract!FeedNext, Abstract!Cancelled, Waiting
    <2>6. CASE Return
      <3>1. cancelled \/ (Waiting = {} /\ Out = {})
        <4>1. remaining = 0 => Out \cup Waiting = {}
          BY FiniteWork, FS_EmptySet DEF FeedInv, PInv, Placed
        <4> QED
          BY <2>6, <4>1 DEF Return
      <3>2. Abstract!Return
        BY <2>1, <2>2, <2>6, <3>1 DEF Return, Abstract!Return, Waiting
      <3> QED
        BY <2>3, <3>2 DEF Abstract!FeedNext, Abstract!FeedStep
    <2> QED
      BY <1>6, <2>4, <2>5, <2>6
  <1> QED
    BY <1>1, <1>2, <1>4, <1>5, <1>6 DEF Next, Main, Done

(* Of a plan with distinct entries, the pool is the task feed the rest of  *)
(* apply relies on: entries go out in plan order, opts.Parallel at a time  *)
(* at most, each is settled once and replaced at once, and the loop ends   *)
(* with all of them settled, or cancelled.  (That it ends is checked.)     *)
THEOREM PoolIsTaskFeed ==
  ASSUME DistinctPlan
  PROVE  Spec => Abstract!FeedSafe
  <1>1. Init => Abstract!FeedInit
    <2> SUFFICES ASSUME Init PROVE Abstract!FeedInit
      OBVIOUS
    <2>1. Out = {}
      BY PoolFacts DEF Init, Out, Queued, Answered, Held, Sending
    <2>2. {i \in Pending : i >= cursor} = Pending
      BY DEF Init, Pending, Entry
    <2> QED
      BY <2>1, <2>2 DEF Init, Abstract!FeedInit
  <1>2. PInv /\ FeedInv /\ [Next]_vars => FeedInv' /\ [Abstract!FeedNext]_(Abstract!feedVars)
    BY StepFeeds DEF Abstract!feedVars, AbstractVars, Waiting
  <1> QED
    BY <1>1, <1>2, InitFeed, PoolInvariant, PTL DEF Spec, Abstract!FeedSafe

(* The loop counts right: a result is still to come for each pending entry *)
(* that is out or not yet handed out, for nothing else, so that it returns *)
(* neither early nor waits for a result nobody will send.                  *)
ResultsToCome == remaining = Cardinality(Out \cup Waiting) /\ Out \subseteq Pending

THEOREM CountIsExact ==
  ASSUME DistinctPlan
  PROVE  Spec => []ResultsToCome
  <1>1. PInv /\ FeedInv /\ [Next]_vars => FeedInv'
    BY StepFeeds
  <1>2. FeedInv => ResultsToCome
    BY DEF FeedInv, ResultsToCome
  <1> QED
    BY <1>1, <1>2, InitFeed, PoolInvariant, PTL DEF Spec
=============================================================================
