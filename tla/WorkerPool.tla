----------------------------- MODULE WorkerPool -----------------------------
(***************************************************************************)
(* The bounded fetch pool of apply.Run (internal/apply/apply.go) and its   *)
(* goroutines (internal/apply/worker.go): the two channels, the workers    *)
(* with the retries inside fetch.FetchWithRetry, the lazy task feed, and   *)
(* the loop of the main goroutine that consumes results, promotes, marks   *)
(* and feeds.  Apply collapses all of this into a set of tasks in flight;  *)
(* TaskFeed is what it relies on.                                          *)
(*                                                                         *)
(* A plan is a sequence of task identifiers (path, or path:offset).  The   *)
(* staged file of a task is named after its identifier, so two entries     *)
(* with one identifier share it, and a marker for one is a marker for both.*)
(***************************************************************************)
EXTENDS Integers, Sequences, FiniteSets

CONSTANTS
  Ids,          \* task identifiers
  Plan,         \* the divergences in feed order: a sequence of identifiers
  Marked,       \* identifiers that have a marker when the invocation begins
  Workers,      \* the worker goroutines, opts.Parallel of them
  MaxAttempts,  \* const maxAttempts of apply.go
  FetchTries,   \* const maxAttempts of FetchWithRetry
  Faults,       \* the failures this instance exhibits
  MayCancel     \* whether the caller may cancel the context

ASSUME PoolAssumption ==
  /\ Plan \in Seq(Ids)
  /\ Marked \subseteq Ids
  /\ IsFiniteSet(Workers) /\ Workers # {}
  /\ MaxAttempts \in Nat \ {0}
  /\ FetchTries \in Nat \ {0}
  /\ Faults \subseteq {"fetch", "corrupt", "promote", "marker"}
  /\ MayCancel \in BOOLEAN

VARIABLES
  main,       \* where the main goroutine is
  primed,     \* iterations of the priming loop so far
  outgoing,   \* the task the main goroutine is sending, when main = "feed"
  cursor,     \* position of the lazy iterator in the plan
  remaining,  \* the loop's count of results still to come
  taskCh, resultCh, closed,
  at, holding, try,   \* per worker: where it is, its task, failed tries so far
  staged,     \* per identifier: the content of the staged file
  markers,
  cancelled

chans == <<taskCh, resultCh, closed>>
crew == <<at, holding, try>>
vars == <<main, primed, outgoing, cursor, remaining, chans, crew, staged, markers, cancelled>>

Parallel == Cardinality(Workers)
Entry == 1 .. Len(Plan)
Task == [entry : Entry, attempt : 0 .. MaxAttempts - 1]
Result == [task : Task, ok : BOOLEAN]
NoTask == [entry |-> 0, attempt |-> 0]
IdOf(task) == Plan[task.entry]
Pending == {i \in Entry : Plan[i] \notin Marked}

TypeOK ==
  /\ main \in {"prime", "select", "feed", "returned"}
  /\ primed \in 0 .. Parallel
  /\ outgoing \in Task \cup {NoTask}
  /\ cursor \in 1 .. Len(Plan) + 1
  /\ remaining \in Nat
  /\ taskCh \in Seq(Task)
  /\ resultCh \in Seq(Result)
  /\ closed \in BOOLEAN
  /\ at \in [Workers -> {"idle", "connecting", "writing", "fetched", "gave_up", "gone"}]
  /\ holding \in [Workers -> Task \cup {NoTask}]
  /\ try \in [Workers -> 0 .. FetchTries - 1]
  /\ staged \in [Ids -> {"none", "partial", "good", "bad"}]
  /\ markers \subseteq Ids
  /\ cancelled \in BOOLEAN

Init ==
  /\ main = "prime" /\ primed = 0 /\ outgoing = NoTask
  /\ cursor = 1
  /\ remaining = Cardinality(Pending)
  /\ taskCh = <<>> /\ resultCh = <<>> /\ closed = FALSE
  /\ at = [w \in Workers |-> "idle"]
  /\ holding = [w \in Workers |-> NoTask]
  /\ try = [w \in Workers |-> 0]
  /\ staged = [id \in Ids |-> "none"]
  /\ markers = Marked
  /\ cancelled = FALSE
-----------------------------------------------------------------------------
(* The lazy feed: the next entry at or after the cursor whose marker does  *)
(* not exist at the moment it is pulled.                                   *)
Unfed(done) == {j \in cursor .. Len(Plan) : Plan[j] \notin done}

Pull(done, otherwise) ==
  IF Unfed(done) = {}
  THEN /\ cursor' = Len(Plan) + 1
       /\ main' = otherwise
       /\ outgoing' = NoTask
  ELSE \E j \in Unfed(done) :
          /\ \A k \in Unfed(done) : j <= k
          /\ cursor' = j + 1
          /\ outgoing' = [entry |-> j, attempt |-> 0]
          /\ main' = "feed"

(* Mutation of Prime: it goes on for as long as there are tasks.           *)
PrimeAll ==
  /\ main = "prime"
  /\ primed' = IF Unfed(markers) = {} THEN Parallel ELSE primed
  /\ Pull(markers, "select")
  /\ UNCHANGED <<remaining, chans, crew, staged, markers, cancelled>>

Prime ==
  /\ main = "prime"
  /\ primed' = IF Unfed(markers) = {} THEN Parallel ELSE primed + 1
  /\ Pull(markers, "select")
  /\ UNCHANGED <<remaining, chans, crew, staged, markers, cancelled>>

(* taskCh <- t blocks while the channel is full.                           *)
SendTask ==
  /\ main = "feed"
  /\ Len(taskCh) < Parallel
  /\ taskCh' = Append(taskCh, outgoing)
  /\ outgoing' = NoTask
  /\ main' = IF primed < Parallel THEN "prime" ELSE "select"
  /\ UNCHANGED <<primed, cursor, remaining, resultCh, closed, crew, staged,
                 markers, cancelled>>

(* One result is received while results are expected.                      *)
Receive ==
  /\ main = "select"
  /\ remaining > 0
  /\ resultCh # <<>>
  /\ resultCh' = Tail(resultCh)
  /\ UNCHANGED <<primed, taskCh, closed, crew, cancelled>>

SettleAndFeed(done) ==
  /\ remaining' = remaining - 1
  /\ Pull(done, "select")

(* Mutations of RetryOrGiveUp: no last attempt; the attempt is not        *)
(* counted.                                                                *)
RetryAlways(task) ==
  /\ outgoing' = [task EXCEPT !.attempt = @ + 1]
  /\ main' = "feed"
  /\ UNCHANGED <<cursor, remaining>>

RetryUncounted(task) ==
  /\ outgoing' = task
  /\ main' = "feed"
  /\ UNCHANGED <<cursor, remaining>>

RetryOrGiveUp(task) ==
  IF task.attempt + 1 >= MaxAttempts
  THEN SettleAndFeed(markers)
  ELSE /\ outgoing' = [task EXCEPT !.attempt = @ + 1]
       /\ main' = "feed"
       /\ UNCHANGED <<cursor, remaining>>

ReceiveError ==
  /\ Receive
  /\ ~Head(resultCh).ok
  /\ RetryOrGiveUp(Head(resultCh).task)
  /\ UNCHANGED <<staged, markers>>

(* The hash gate reads the staged file as it is now.                       *)
ReceiveMismatch ==
  /\ Receive
  /\ Head(resultCh).ok
  /\ LET id == IdOf(Head(resultCh).task) IN
       /\ staged[id] \in {"bad", "partial"}
       /\ staged' = [staged EXCEPT ![id] = "none"]
  /\ RetryOrGiveUp(Head(resultCh).task)
  /\ UNCHANGED markers

ReceivePromoteFails ==
  /\ Receive
  /\ Head(resultCh).ok
  /\ LET id == IdOf(Head(resultCh).task) IN
       staged[id] = "none" \/ (staged[id] = "good" /\ "promote" \in Faults)
  /\ SettleAndFeed(markers)
  /\ UNCHANGED <<staged, markers>>

ReceivePromoted ==
  /\ Receive
  /\ Head(resultCh).ok
  /\ LET id == IdOf(Head(resultCh).task) IN
       /\ staged[id] = "good"
       /\ staged' = [staged EXCEPT ![id] = "none"]
       /\ \/ markers' = markers \cup {id}
          \/ "marker" \in Faults /\ UNCHANGED markers
  /\ SettleAndFeed(markers')

(* Mutation of Return: the task channel is left open.                      *)
ReturnWithoutClosing ==
  /\ main = "select"
  /\ remaining = 0 \/ cancelled
  /\ main' = "returned"
  /\ UNCHANGED <<primed, outgoing, cursor, remaining, chans, crew, staged, markers, cancelled>>

(* The loop ends with every result in, or at a cancelled context.          *)
Return ==
  /\ main = "select"
  /\ remaining = 0 \/ cancelled
  /\ main' = "returned"
  /\ closed' = TRUE
  /\ UNCHANGED <<primed, outgoing, cursor, remaining, taskCh, resultCh, crew,
                 staged, markers, cancelled>>
-----------------------------------------------------------------------------
MainUnchanged == UNCHANGED <<main, primed, outgoing, cursor, remaining, closed,
                             markers, cancelled>>

TakeTask(w) ==
  /\ at[w] = "idle"
  /\ taskCh # <<>>
  /\ holding' = [holding EXCEPT ![w] = Head(taskCh)]
  /\ taskCh' = Tail(taskCh)
  /\ at' = [at EXCEPT ![w] = "connecting"]
  /\ try' = [try EXCEPT ![w] = 0]
  /\ MainUnchanged /\ UNCHANGED <<resultCh, staged>>

(* The response is there: os.Create truncates the staged file.             *)
CreateStaged(w) ==
  /\ at[w] = "connecting"
  /\ at' = [at EXCEPT ![w] = "writing"]
  /\ staged' = [staged EXCEPT ![IdOf(holding[w])] = "partial"]
  /\ MainUnchanged /\ UNCHANGED <<taskCh, resultCh, holding, try>>

FetchCompletes(w) ==
  /\ at[w] = "writing"
  /\ at' = [at EXCEPT ![w] = "fetched"]
  /\ \E bytes \in {"good"} \cup (IF "corrupt" \in Faults THEN {"bad"} ELSE {}) :
        staged' = [staged EXCEPT ![IdOf(holding[w])] = bytes]
  /\ MainUnchanged /\ UNCHANGED <<taskCh, resultCh, holding, try>>

(* A fetch fails before or after it created the file; the next try follows *)
(* a backoff, in which a cancelled context ends the retries.               *)
FetchErrs(w) ==
  /\ at[w] \in {"connecting", "writing"}
  /\ "fetch" \in Faults \/ cancelled
  /\ \/ /\ try[w] + 1 < FetchTries
        /\ try' = [try EXCEPT ![w] = @ + 1]
        /\ at' = [at EXCEPT ![w] = "connecting"]
     \/ /\ try[w] + 1 = FetchTries \/ cancelled
        /\ at' = [at EXCEPT ![w] = "gave_up"]
        /\ UNCHANGED try
  /\ MainUnchanged /\ UNCHANGED <<taskCh, resultCh, holding, staged>>

(* Mutation of SendResult: the error of the fetch is lost.                 *)
SendOk(w) ==
  /\ at[w] \in {"fetched", "gave_up"}
  /\ Len(resultCh) < Parallel
  /\ resultCh' = Append(resultCh, [task |-> holding[w], ok |-> TRUE])
  /\ at' = [at EXCEPT ![w] = "idle"]
  /\ holding' = [holding EXCEPT ![w] = NoTask]
  /\ try' = [try EXCEPT ![w] = 0]
  /\ MainUnchanged /\ UNCHANGED <<taskCh, staged>>

(* results <- r blocks while the channel is full.                          *)
SendResult(w) ==
  /\ at[w] \in {"fetched", "gave_up"}
  /\ Len(resultCh) < Parallel
  /\ resultCh' = Append(resultCh, [task |-> holding[w], ok |-> at[w] = "fetched"])
  /\ at' = [at EXCEPT ![w] = "idle"]
  /\ holding' = [holding EXCEPT ![w] = NoTask]
  /\ try' = [try EXCEPT ![w] = 0]
  /\ MainUnchanged /\ UNCHANGED <<taskCh, staged>>

Leave(w) ==
  /\ at[w] = "idle"
  /\ cancelled \/ (closed /\ taskCh = <<>>)
  /\ at' = [at EXCEPT ![w] = "gone"]
  /\ MainUnchanged /\ UNCHANGED <<taskCh, resultCh, holding, try, staged>>

Cancel ==
  /\ MayCancel
  /\ ~cancelled
  /\ cancelled' = TRUE
  /\ UNCHANGED <<main, primed, outgoing, cursor, remaining, chans, crew, staged, markers>>
-----------------------------------------------------------------------------
Main ==
  \/ Prime \/ SendTask \/ Return
  \/ ReceiveError \/ ReceiveMismatch \/ ReceivePromoteFails \/ ReceivePromoted
Worker(w) ==
  \/ TakeTask(w) \/ CreateStaged(w) \/ FetchCompletes(w) \/ FetchErrs(w)
  \/ SendResult(w) \/ Leave(w)

Done == main = "returned" /\ (\A w \in Workers : at[w] = "gone") /\ UNCHANGED vars
Next == Main \/ Cancel \/ Done \/ \E w \in Workers : Worker(w)

Spec == Init /\ [][Next]_vars

(* The Go scheduler runs every goroutine that can go on.  A fetch ends one *)
(* way or the other as long as the chunk servers answer the requests they  *)
(* accept (Transfer!TransferEnds).                                         *)
FairSpec == Spec /\ WF_vars(Main) /\ \A w \in Workers : WF_vars(Worker(w))
-----------------------------------------------------------------------------
Queued == {taskCh[k].entry : k \in 1 .. Len(taskCh)}
Answered == {resultCh[k].task.entry : k \in 1 .. Len(resultCh)}
Held == {holding[w].entry : w \in Workers} \ {0}
Sending == {outgoing.entry} \ {0}
Out == Queued \cup Answered \cup Held \cup Sending

(* apply.go "bounding in-flight tasks to <= parallel and avoiding deadlock *)
(* between taskCh and resultCh writers": no goroutine ever waits for room  *)
(* in a channel, cancelled or not.                                         *)
SendsNeverBlock ==
  /\ main = "feed" => Len(taskCh) < Parallel
  /\ \A w \in Workers : at[w] \in {"fetched", "gave_up"} => Len(resultCh) < Parallel

(* The bytes the hash gate reads are the ones the fetch delivered: from a  *)
(* reported success to its consumption nobody else opens the staged file.  *)
StagedUntouched ==
  \A k \in 1 .. Len(resultCh) :
     resultCh[k].ok =>
       /\ staged[IdOf(resultCh[k].task)] \in {"good", "bad"}
       /\ \A w \in Workers : holding[w] # NoTask =>
             IdOf(holding[w]) # IdOf(resultCh[k].task)

(* Run comes back from the loop, whatever fails and whenever the context is*)
(* cancelled.                                                              *)
RunReturns == <>(main = "returned")

(* No worker goroutine outlives the loop.                                  *)
WorkersLeave == <>(\A w \in Workers : at[w] = "gone")

(* The pool is the task feed the rest of apply relies on.                  *)
Abstract == INSTANCE TaskFeed WITH
  Tasks <- Pending, Limit <- Parallel,
  waiting <- {i \in Pending : i >= cursor}, out <- Out,
  returned <- (main = "returned")
ImplementsTaskFeed == Abstract!FeedSpec
=============================================================================
