------------------------------- MODULE Apply -------------------------------
(***************************************************************************)
(* The mutating half of the doctor: apply.Run (internal/apply/apply.go)    *)
(* with the staging directory, the shadows, the completion markers, the    *)
(* promotion of fetched chunks into the live tree, the post-apply          *)
(* verification, the rollback and the cleanup, over a sequence of          *)
(* invocations of the same plan by the operator, any of which may be       *)
(* killed at any point.                                                    *)
(*                                                                         *)
(* The live tree is abstracted to what the plan can tell apart: each file  *)
(* is a function from its chunks (4 KiB pages, or one chunk for a whole    *)
(* file) to the origin of the bytes found there.  The two channels and the *)
(* goroutines of the pool are the subject of WorkerPool; here a task is    *)
(* either in flight or not, and results arrive in any order.  The plan     *)
(* gates that precede staging are the subject of PlanGate.                 *)
(***************************************************************************)
EXTENDS Integers, Sequences, FiniteSets

CONSTANTS
  Files,        \* live paths named by the plan
  WholeFiles,   \* those listed as whole_file; the others are sqlite_pages
  FetchFull,    \* whole files the plan marks expected_source = "fetch_full"
  SQLiteDB,     \* {pocketdb/main.sqlite3} when the plan names it, else {}
  Missing,      \* files that do not exist before the first invocation
  Chunk,        \* chunk identities within a file
  Plan,         \* the divergences in feed order: a sequence of [file, chunk]
  Parallel,     \* --parallel
  MaxAttempts,  \* const maxAttempts
  LinkMode,     \* what os.Link and os.Rename can do between the two trees
  Faults,       \* the environment failures this instance exhibits
  FaultyRuns,   \* bound: they happen in the first FaultyRuns invocations only
  MaxRuns       \* bound: invocations of apply by the operator

FaultKinds == {"fetch", "corrupt", "promote", "marker", "shadow", "integrity",
               "read", "rename", "crash", "powerloss"}
Entry == [file : Files, chunk : Chunk]
Task == 1 .. Len(Plan)

(* No manifest entry and no page offset is repeated in a plan.  The merge  *)
(* in diagnose emits each manifest page once; a repeated entry would leave *)
(* the loop waiting for a result that nobody sends.                        *)
ASSUME PlanAssumption ==
  /\ Plan \in Seq(Entry)
  /\ \A i, j \in Task : Plan[i] = Plan[j] => i = j
ASSUME FileAssumption ==
  /\ IsFiniteSet(Files)
  /\ WholeFiles \subseteq Files
  /\ FetchFull \subseteq WholeFiles
  /\ SQLiteDB \subseteq Files
  /\ Missing \subseteq Files
  /\ \A i, j \in Task : Plan[i].file \in WholeFiles /\ Plan[i].file = Plan[j].file
                           => i = j
ASSUME ParameterAssumption ==
  /\ Parallel \in Nat \ {0}
  /\ MaxAttempts \in Nat \ {0}
  /\ LinkMode \in {"link", "copy", "crossdevice"}
  /\ Faults \subseteq FaultKinds
  /\ FaultyRuns \in Nat
  /\ MaxRuns \in Nat \ {0}

VARIABLES
  \* durable state
  live,       \* Files -> Content: the datadir
  shadow,     \* Files -> Shadow: staging/shadows
  markers,    \* ids with a file in staging/markers
  planHash,   \* staging/plan-hash: this plan's self_hash, another one, unreadable
  \* state of the running process
  pc, taken, todo, cursor, inflight, attempt, remaining,
  promotionFailed, budgetExhausted, promoted, failed,
  \* what the operator sees
  exit, runs,
  \* history: some invocation passed the post-apply verification, some shadow
  \* was renamed back over a live file
  verified, restored

disk == <<live, shadow, markers, planHash>>
pool == <<cursor, inflight, attempt, remaining, promotionFailed, budgetExhausted>>
vars == <<disk, pc, taken, todo, pool, promoted, failed, verified, exit, runs, restored>>

(***************************************************************************)
(* Contents.  "none" is an absent byte range, "old" the bytes from before  *)
(* the first invocation, "new" the canonical bytes, "junk" neither.        *)
(***************************************************************************)
Bytes == {"none", "old", "new", "junk"}
Content == [Chunk -> Bytes]
AllOf(b) == [c \in Chunk |-> b]
Absent == AllOf("none")

(* A shadow made by os.Link shares the live file's inode for as long as    *)
(* the live path still names that inode; any other shadow has its own.     *)
ShadowKinds == {"none", "link", "own"}
Shadow == [kind : ShadowKinds, data : Content]
NoShadow == [kind |-> "none", data |-> Absent]
OwnShadow(content) == [kind |-> "own", data |-> content]
LinkedShadow == [kind |-> "link", data |-> Absent]
ShadowContent(f) == IF shadow[f].kind = "link" THEN live[f] ELSE shadow[f].data

Origin == [f \in Files |-> IF f \in Missing THEN Absent ELSE AllOf("old")]
Id(i) == Plan[i]
IsNew(i) == live[Plan[i].file][Plan[i].chunk] = "new"
Pending == {i \in Task : Id(i) \notin markers}
hasSQLite == SQLiteDB \cap {Plan[i].file : i \in Task} # {}

PCs == {"down", "staging", "fresh", "scan", "shadow", "prime", "loop", "mark",
        "verify", "rollback", "cleanup"}
NoTask == 0

(* Exit codes, and two values for an invocation that has returned none.    *)
Success == 0
GenericError == 1
RollbackCompleted == 10
RollbackFailed == 11
NetworkBudgetExhausted == 12
Running == -1
Killed == -2
Codes == {Success, GenericError, RollbackCompleted, RollbackFailed,
          NetworkBudgetExhausted, Running, Killed}

Fault(kind) == kind \in Faults /\ runs <= FaultyRuns

TypeOK ==
  /\ live \in [Files -> Content]
  /\ shadow \in [Files -> Shadow]
  /\ markers \subseteq Entry
  /\ planHash \in {"this", "foreign", "unreadable"}
  /\ pc \in PCs
  /\ taken \subseteq Files
  /\ todo \subseteq Files
  /\ cursor \in 1 .. Len(Plan) + 1
  /\ inflight \subseteq Task
  /\ attempt \in [Task -> 0 .. MaxAttempts - 1]
  /\ remaining \in Nat
  /\ promotionFailed \in BOOLEAN
  /\ budgetExhausted \in BOOLEAN
  /\ promoted \in Task \cup {NoTask}
  /\ failed \subseteq Files
  /\ verified \in BOOLEAN
  /\ exit \in Codes
  /\ runs \in 0 .. MaxRuns
  /\ restored \in BOOLEAN
-----------------------------------------------------------------------------
(* The staging directory may be missing, or left by a run of another plan. *)
Init ==
  /\ live = Origin
  /\ \/ /\ planHash = "unreadable"
        /\ markers = {}
        /\ shadow = [f \in Files |-> NoShadow]
     \/ /\ planHash = "foreign"
        /\ markers \in SUBSET {Id(i) : i \in Task}
        /\ shadow = [f \in Files |-> OwnShadow(AllOf("junk"))]
  /\ pc = "down"
  /\ taken = {} /\ todo = {} /\ failed = {}
  /\ cursor = 1 /\ inflight = {} /\ attempt = [i \in Task |-> 0] /\ remaining = 0
  /\ promotionFailed = FALSE /\ budgetExhausted = FALSE
  /\ promoted = NoTask /\ verified = FALSE
  /\ exit = Running /\ runs = 0 /\ restored = FALSE

ForgetProcess ==
  /\ taken' = {} /\ todo' = {} /\ failed' = {}
  /\ cursor' = 1 /\ inflight' = {} /\ attempt' = [i \in Task |-> 0] /\ remaining' = 0
  /\ promotionFailed' = FALSE /\ budgetExhausted' = FALSE
  /\ promoted' = NoTask

Exit(code) ==
  /\ pc' = "down"
  /\ exit' = code

Goto(next) ==
  /\ pc' = next
  /\ UNCHANGED exit

(* The operator runs apply on the plan, which passes every gate.           *)
Start ==
  /\ pc = "down"
  /\ runs < MaxRuns
  /\ runs' = runs + 1
  /\ pc' = "staging"
  /\ exit' = Running
  /\ ForgetProcess
  /\ UNCHANGED <<disk, verified, restored>>
-----------------------------------------------------------------------------
(* staging.CreateOrResume: keep a directory stamped with this plan's hash, *)
(* discard any other.                                                      *)
Resume ==
  /\ pc = "staging"
  /\ planHash = "this"
  /\ Goto("scan")
  /\ UNCHANGED <<disk, taken, todo, pool, promoted, failed, verified, runs, restored>>

(* Mutation of DiscardStale: the markers of another plan survive.          *)
DiscardKeepingMarkers ==
  /\ pc = "staging"
  /\ planHash # "this"
  /\ shadow' = [f \in Files |-> NoShadow]
  /\ planHash' = "unreadable"
  /\ Goto("fresh")
  /\ UNCHANGED <<live, markers, taken, todo, pool, promoted, failed, verified, runs, restored>>

DiscardStale ==
  /\ pc = "staging"
  /\ planHash # "this"
  /\ markers' = {}
  /\ shadow' = [f \in Files |-> NoShadow]
  /\ planHash' = "unreadable"
  /\ Goto("fresh")
  /\ UNCHANGED <<live, taken, todo, pool, promoted, failed, verified, runs, restored>>

StampPlanHash ==
  /\ pc = "fresh"
  /\ planHash' = "this"
  /\ Goto("scan")
  /\ UNCHANGED <<live, shadow, markers, taken, todo, pool, promoted, failed,
                 verified, runs, restored>>

(* Pass 1: count the pending work and collect the live paths it touches.   *)
ScanPending ==
  /\ pc = "scan"
  /\ IF Pending = {}
     THEN /\ Exit(Success)
          /\ UNCHANGED <<todo, remaining>>
     ELSE /\ Goto("shadow")
          /\ todo' = {Plan[i].file : i \in Pending}
          /\ remaining' = Cardinality(Pending)
  /\ UNCHANGED <<disk, taken, cursor, inflight, attempt, promotionFailed,
                 budgetExhausted, promoted, failed, verified, runs, restored>>

NeedsShadow(f) == f \notin FetchFull /\ live[f] # Absent

(* Mutation of ShadowAfterTake: always a link, always of the present file. *)
LinkAnew(f) == LinkedShadow

(* A shadow left by an earlier run of the plan is reused as it stands.     *)
ShadowAfterTake(f) ==
  IF shadow[f].kind # "none" THEN shadow[f]
  ELSE IF LinkMode = "link" THEN LinkedShadow
  ELSE OwnShadow(live[f])

TakeShadow(f) ==
  /\ pc = "shadow"
  /\ f \in todo
  /\ todo' = todo \ {f}
  /\ IF NeedsShadow(f)
     THEN /\ taken' = taken \cup {f}
          /\ shadow' = [shadow EXCEPT ![f] = ShadowAfterTake(f)]
     ELSE UNCHANGED <<taken, shadow>>
  /\ UNCHANGED <<live, markers, planHash, pc, pool, promoted, failed, verified,
                 exit, runs, restored>>

(* Mutation of ShadowFails: os.Link finds the shadow of an earlier run.    *)
ShadowExists(f) ==
  /\ pc = "shadow"
  /\ f \in todo
  /\ NeedsShadow(f)
  /\ shadow[f].kind # "none"
  /\ Exit(GenericError)
  /\ UNCHANGED <<disk, taken, todo, pool, promoted, failed, verified, runs, restored>>

(* TakeShadow returns an error: nothing was made, or copyFile created the  *)
(* destination and stopped part-way; Run returns without removing it.      *)
ShadowFails(f) ==
  /\ pc = "shadow"
  /\ Fault("shadow")
  /\ f \in todo
  /\ NeedsShadow(f)
  /\ shadow[f].kind = "none"
  /\ \/ UNCHANGED shadow
     \/ /\ LinkMode # "link"
        /\ shadow' = [shadow EXCEPT ![f] = OwnShadow(AllOf("junk"))]
  /\ Exit(GenericError)
  /\ UNCHANGED <<live, markers, planHash, taken, todo, pool, promoted, failed,
                 verified, runs, restored>>

ShadowsTaken ==
  /\ pc = "shadow"
  /\ todo = {}
  /\ Goto("prime")
  /\ UNCHANGED <<disk, taken, todo, pool, promoted, failed, verified, runs, restored>>
-----------------------------------------------------------------------------
(* Mutation of Unfed: the feed does not look at the markers.               *)
UnfedIgnoringMarkers(from, done) == from .. Len(Plan)

(* The lazy task feed: the next divergence at or after the cursor that has *)
(* no marker at the moment it is pulled.                                   *)
Unfed(from, done) == {j \in from .. Len(Plan) : Id(j) \notin done}
IsFirst(j, S) == j \in S /\ \A k \in S : j <= k

Feed(busy, done) ==
  \/ /\ Unfed(cursor, done) = {}
     /\ cursor' = Len(Plan) + 1
     /\ inflight' = busy
  \/ \E j \in Unfed(cursor, done) :
        /\ IsFirst(j, Unfed(cursor, done))
        /\ cursor' = j + 1
        /\ inflight' = busy \cup {j}

(* Prime the pool with up to Parallel tasks.                               *)
Prime ==
  /\ pc = "prime"
  /\ IF Cardinality(inflight) < Parallel /\ Unfed(cursor, markers) # {}
     THEN /\ Feed(inflight, markers)
          /\ UNCHANGED <<pc, exit>>
     ELSE /\ Goto("loop")
          /\ UNCHANGED <<cursor, inflight>>
  /\ UNCHANGED <<disk, taken, todo, attempt, remaining, promotionFailed,
                 budgetExhausted, promoted, failed, verified, runs, restored>>

(* Mutations of RequeueOrGiveUp: retries without end; a task given up is   *)
(* still counted; a task given up is marked.                               *)
RequeueAlways(i) ==
  /\ attempt' = [attempt EXCEPT ![i] = @ + 1]
  /\ UNCHANGED <<disk, pc, taken, todo, cursor, inflight, remaining, budgetExhausted,
                 promotionFailed, promoted, failed, verified, exit, runs, restored>>

GiveUpUncounted(i) ==
  /\ IF attempt[i] + 1 >= MaxAttempts
     THEN /\ budgetExhausted' = TRUE
          /\ attempt' = [attempt EXCEPT ![i] = 0]
          /\ Feed(inflight \ {i}, markers)
     ELSE /\ attempt' = [attempt EXCEPT ![i] = @ + 1]
          /\ UNCHANGED <<budgetExhausted, cursor, inflight>>
  /\ UNCHANGED <<disk, pc, taken, todo, remaining, promotionFailed, promoted, failed,
                 verified, exit, runs, restored>>

GiveUpMarked(i) ==
  /\ IF attempt[i] + 1 >= MaxAttempts
     THEN /\ budgetExhausted' = TRUE
          /\ remaining' = remaining - 1
          /\ attempt' = [attempt EXCEPT ![i] = 0]
          /\ markers' = markers \cup {Id(i)}
          /\ Feed(inflight \ {i}, markers)
     ELSE /\ attempt' = [attempt EXCEPT ![i] = @ + 1]
          /\ UNCHANGED <<budgetExhausted, remaining, cursor, inflight, markers>>
  /\ UNCHANGED <<live, shadow, planHash, pc, taken, todo, promotionFailed, promoted,
                 failed, verified, exit, runs, restored>>

(* One result is consumed.  A failed fetch, or staged bytes that fail the  *)
(* hash gate, goes back to the pool until the attempts are used up; then   *)
(* the task is given up and the next one is fed.                           *)
RequeueOrGiveUp(i) ==
  /\ IF attempt[i] + 1 >= MaxAttempts
     THEN /\ budgetExhausted' = TRUE
          /\ remaining' = remaining - 1
          /\ attempt' = [attempt EXCEPT ![i] = 0]
          /\ Feed(inflight \ {i}, markers)
     ELSE /\ attempt' = [attempt EXCEPT ![i] = @ + 1]
          /\ UNCHANGED <<budgetExhausted, remaining, cursor, inflight>>
  /\ UNCHANGED <<disk, pc, taken, todo, promotionFailed, promoted, failed,
                 verified, exit, runs, restored>>

(* What a completed fetch may have staged, and the hash gate.              *)
Delivered == {"new"} \cup IF Fault("corrupt") THEN {"junk"} ELSE {}
HashMatches(staged) == staged = "new"

FetchFailed(i) ==
  /\ pc = "loop"
  /\ i \in inflight
  /\ Fault("fetch")
  /\ RequeueOrGiveUp(i)

HashMismatch(i) ==
  /\ pc = "loop"
  /\ i \in inflight
  /\ \E staged \in Delivered : ~HashMatches(staged)
  /\ RequeueOrGiveUp(i)

(* Mutation of SwapWholeFile: the live file is overwritten piecemeal.      *)
OverwritePart(f, staged) ==
  /\ \E c \in Chunk : live' = [live EXCEPT ![f][c] = staged]
  /\ UNCHANGED shadow

(* The live tree after os.Rename of a staged file over f, which leaves the *)
(* old inode to a shadow linked to it.                                     *)
SwapWholeFile(f, staged) ==
  /\ live' = [live EXCEPT ![f] = AllOf(staged)]
  /\ shadow' = IF shadow[f].kind = "link"
               THEN [shadow EXCEPT ![f] = OwnShadow(live[f])]
               ELSE shadow

(* WriteAt into the live file itself: a linked shadow changes with it.     *)
WritePage(f, c, b) ==
  /\ live' = [live EXCEPT ![f][c] = b]
  /\ UNCHANGED shadow

(* Mutation of Promote: the result is not counted.                         *)
PromoteUncounted(i) ==
  /\ pc = "loop"
  /\ i \in inflight
  /\ IF Plan[i].file \in WholeFiles
     THEN SwapWholeFile(Plan[i].file, "new")
     ELSE WritePage(Plan[i].file, Plan[i].chunk, "new")
  /\ inflight' = inflight \ {i}
  /\ attempt' = [attempt EXCEPT ![i] = 0]
  /\ promoted' = i
  /\ Goto("mark")
  /\ UNCHANGED <<markers, planHash, taken, todo, cursor, remaining, promotionFailed,
                 budgetExhausted, failed, verified, runs, restored>>

Promote(i) ==
  /\ pc = "loop"
  /\ i \in inflight
  /\ \E staged \in Delivered :
        /\ HashMatches(staged)
        /\ IF Plan[i].file \in WholeFiles
           THEN LinkMode # "crossdevice" /\ SwapWholeFile(Plan[i].file, staged)
           ELSE WritePage(Plan[i].file, Plan[i].chunk, staged)
  /\ inflight' = inflight \ {i}
  /\ attempt' = [attempt EXCEPT ![i] = 0]
  /\ remaining' = remaining - 1
  /\ promoted' = i
  /\ Goto("mark")
  /\ UNCHANGED <<markers, planHash, taken, todo, cursor, promotionFailed,
                 budgetExhausted, failed, verified, runs, restored>>

(* Reading the staged file, the mkdir, the open, the rename or the write   *)
(* fails.  A failed WriteAt may have overwritten part of the page.         *)
PromoteFails(i) ==
  /\ pc = "loop"
  /\ i \in inflight
  /\ Fault("promote") \/ (Plan[i].file \in WholeFiles /\ LinkMode = "crossdevice")
  /\ \/ UNCHANGED <<live, shadow>>
     \/ /\ Plan[i].file \notin WholeFiles
        /\ WritePage(Plan[i].file, Plan[i].chunk, "junk")
  /\ promotionFailed' = TRUE
  /\ remaining' = remaining - 1
  /\ attempt' = [attempt EXCEPT ![i] = 0]
  /\ Feed(inflight \ {i}, markers)
  /\ UNCHANGED <<markers, planHash, pc, taken, todo, budgetExhausted, promoted,
                 failed, verified, exit, runs, restored>>

(* The marker of the promoted task is written (a failure is only logged),  *)
(* then one more task is fed.                                              *)
MarkDone ==
  /\ pc = "mark"
  /\ \/ markers' = markers \cup {Id(promoted)}
     \/ Fault("marker") /\ UNCHANGED markers
  /\ Feed(inflight, markers')
  /\ promoted' = NoTask
  /\ Goto("loop")
  /\ UNCHANGED <<live, shadow, planHash, taken, todo, attempt, remaining,
                 promotionFailed, budgetExhausted, failed, verified, runs, restored>>

(* Mutation of LoopEnds: an exhausted budget goes on to the verification.  *)
LoopEndsIgnoringBudget ==
  /\ pc = "loop"
  /\ remaining = 0
  /\ \/ promotionFailed /\ Goto("rollback") /\ todo' = taken
     \/ ~promotionFailed /\ Goto("verify") /\ UNCHANGED todo
  /\ UNCHANGED <<disk, taken, pool, promoted, failed, verified, runs, restored>>

(* Every task is accounted for.  A failed promotion wins over an exhausted *)
(* network budget, which keeps all progress and does not roll back.        *)
LoopEnds ==
  /\ pc = "loop"
  /\ remaining = 0
  /\ \/ promotionFailed /\ Goto("rollback") /\ todo' = taken
     \/ ~promotionFailed /\ budgetExhausted /\ Exit(NetworkBudgetExhausted) /\ UNCHANGED todo
     \/ ~promotionFailed /\ ~budgetExhausted /\ Goto("verify") /\ UNCHANGED todo
  /\ UNCHANGED <<disk, taken, pool, promoted, failed, verified, runs, restored>>
-----------------------------------------------------------------------------
(* Post-apply verification.  integrity_check speaks for main.sqlite3, and  *)
(* every other whole_file entry of the plan is hashed, pending or not.     *)
HashChecked ==
  {f \in WholeFiles : (\E i \in Task : Plan[i].file = f)
                        /\ ~(hasSQLite /\ f \in SQLiteDB)}
HashesMatch == \A f \in HashChecked : live[f] = AllOf("new")

VerifyPasses ==
  /\ pc = "verify"
  /\ HashesMatch
  /\ verified' = TRUE
  /\ Goto("cleanup")
  /\ UNCHANGED <<disk, taken, todo, pool, promoted, failed, runs, restored>>

VerifyFails ==
  /\ pc = "verify"
  /\ \/ hasSQLite /\ Fault("integrity")
     \/ HashChecked # {} /\ Fault("read")
     \/ ~HashesMatch
  /\ todo' = taken
  /\ Goto("rollback")
  /\ UNCHANGED <<disk, taken, pool, promoted, failed, verified, runs, restored>>

(* rollback.Rollback renames each taken shadow over its live path.  When   *)
(* both names already are the same inode rename(2) succeeds and changes    *)
(* nothing.                                                                *)
Restore(f) ==
  /\ pc = "rollback"
  /\ f \in todo
  /\ LinkMode # "crossdevice"
  /\ shadow[f].kind # "none"
  /\ todo' = todo \ {f}
  /\ live' = [live EXCEPT ![f] = ShadowContent(f)]
  /\ shadow' = IF shadow[f].kind = "link" THEN shadow
               ELSE [shadow EXCEPT ![f] = NoShadow]
  /\ restored' = TRUE
  /\ UNCHANGED <<markers, planHash, pc, taken, pool, promoted, failed, verified,
                 exit, runs>>

RestoreFails(f) ==
  /\ pc = "rollback"
  /\ f \in todo
  /\ Fault("rename") \/ LinkMode = "crossdevice" \/ shadow[f].kind = "none"
  /\ todo' = todo \ {f}
  /\ failed' = failed \cup {f}
  /\ UNCHANGED <<disk, pc, taken, pool, promoted, verified, exit, runs, restored>>

(* Mutation of RollbackEnds: failed restorations are not reported.         *)
RollbackAlwaysCompletes ==
  /\ pc = "rollback"
  /\ todo = {}
  /\ Exit(RollbackCompleted)
  /\ UNCHANGED <<disk, taken, todo, pool, promoted, failed, verified, runs, restored>>

RollbackEnds ==
  /\ pc = "rollback"
  /\ todo = {}
  /\ Exit(IF failed = {} THEN RollbackCompleted ELSE RollbackFailed)
  /\ UNCHANGED <<disk, taken, todo, pool, promoted, failed, verified, runs, restored>>

(* Shadows and staged files go; plan-hash and markers stay.                *)
Cleanup ==
  /\ pc = "cleanup"
  /\ shadow' = [f \in Files |-> NoShadow]
  /\ Exit(Success)
  /\ UNCHANGED <<live, markers, planHash, taken, todo, pool, promoted, failed,
                 verified, runs, restored>>
-----------------------------------------------------------------------------
(* What a kill may leave on disk in the middle of a call that is not       *)
(* atomic.                                                                 *)
HalfDiscarded ==
  /\ pc = "staging"
  /\ planHash # "this"
  /\ planHash' \in {planHash, "unreadable"}
  /\ markers' \in SUBSET markers
  /\ UNCHANGED <<live, shadow>>

HalfCopied ==
  /\ pc = "shadow"
  /\ LinkMode # "link"
  /\ UNCHANGED <<live, markers, planHash>>
  /\ \E f \in todo :
        /\ NeedsShadow(f)
        /\ shadow[f].kind = "none"
        /\ shadow' = [shadow EXCEPT ![f] = OwnShadow(AllOf("junk"))]

HalfWritten ==
  /\ pc = "loop"
  /\ Fault("powerloss")
  /\ UNCHANGED <<markers, planHash>>
  /\ \E i \in inflight : /\ Plan[i].file \notin WholeFiles
                         /\ WritePage(Plan[i].file, Plan[i].chunk, "junk")

HalfCleaned ==
  /\ pc = "cleanup"
  /\ UNCHANGED <<live, markers, planHash>>
  /\ \E S \in SUBSET Files :
        shadow' = [f \in Files |-> IF f \in S THEN NoShadow ELSE shadow[f]]

Crash ==
  /\ pc # "down"
  /\ Fault("crash")
  /\ \/ UNCHANGED disk
     \/ HalfDiscarded
     \/ HalfCopied
     \/ HalfWritten
     \/ HalfCleaned
  /\ Exit(Killed)
  /\ ForgetProcess
  /\ UNCHANGED <<verified, runs, restored>>
-----------------------------------------------------------------------------
StagingStep == Resume \/ DiscardStale \/ StampPlanHash \/ ScanPending
ShadowStep == ShadowsTaken \/ \E f \in Files : TakeShadow(f) \/ ShadowFails(f)
LoopStep ==
  \/ Prime \/ MarkDone \/ LoopEnds
  \/ \E i \in Task : FetchFailed(i) \/ HashMismatch(i) \/ Promote(i) \/ PromoteFails(i)
EndStep ==
  \/ VerifyPasses \/ VerifyFails \/ RollbackEnds \/ Cleanup
  \/ \E f \in Files : Restore(f) \/ RestoreFails(f)

Run == StagingStep \/ ShadowStep \/ LoopStep \/ EndStep
Finished == pc = "down" /\ runs = MaxRuns /\ UNCHANGED vars
Next == Start \/ Run \/ Crash \/ Finished

Spec == Init /\ [][Next]_vars

(* Retries are counted, and a fetch ends as long as the chunk servers      *)
(* answer the requests they accept (Transfer!TransferEnds).  So a running  *)
(* invocation that is not killed takes its next step.                      *)
FairSpec == Spec /\ WF_vars(Run)

(* The operator runs apply again for as long as the bound allows.          *)
RetryingSpec == FairSpec /\ WF_vars(Start)
-----------------------------------------------------------------------------
(* README "Stage, verify, swap": at every instant, whatever was killed     *)
(* before, a whole_file entry is entirely the file from before the first   *)
(* invocation or entirely the canonical one.                               *)
WholeFilesSwapAtomically ==
  \A f \in WholeFiles : live[f] \in {Origin[f], AllOf("new")}

(* A marker under this plan's hash says that the canonical bytes of its    *)
(* chunk are live, through kills, resumes and directories left by another  *)
(* plan, until a rollback renames shadows back (it keeps the markers).     *)
MarkersSound ==
  planHash = "this" /\ ~restored => \A i \in Task : Id(i) \in markers => IsNew(i)

(* An invocation that reports success leaves every chunk of the plan       *)
(* canonical, however many killed, exhausted or failed ones came before,   *)
(* as long as none of them had rolled back.                                *)
SuccessMeansCanonical == exit = Success /\ ~restored => \A i \in Task : IsNew(i)

(* The two passes over the plan agree: what the loop still expects is what *)
(* is in flight plus what the lazy feed has yet to yield.                  *)
Accounting ==
  pc \in {"prime", "loop", "mark"}
    => remaining = Cardinality(inflight \cup Unfed(cursor, markers))

(* README "Resumable": no invocation fetches a chunk whose marker exists.  *)
CompletedWorkNotRefetched == \A i \in inflight : Id(i) \notin markers

(* While this invocation may still roll back, each whole file it has       *)
(* shadowed is recoverable: the shadow holds the file from before the      *)
(* first invocation, also when the shadow is a link, when an earlier run   *)
(* took it, or when its own restoration has just failed.  (Once an apply   *)
(* has been verified, a later one shadows what that one left.)             *)
ShadowsIntact ==
  /\ ~verified /\ pc \in {"prime", "loop", "mark", "verify"}
       => \A f \in taken \cap WholeFiles : ShadowContent(f) = Origin[f]
  /\ ~verified /\ (pc = "rollback" \/ exit = RollbackFailed)
       => \A f \in (todo \cup failed) \cap WholeFiles :
             shadow[f].kind # "none" /\ ShadowContent(f) = Origin[f]

(* Exit 10 tells the truth of the whole files this invocation shadowed.    *)
RollbackRestoresShadowed ==
  ~verified /\ exit = RollbackCompleted
    => \A f \in taken \cap WholeFiles : live[f] = Origin[f]

(* Only a rollback takes canonical bytes back once their marker exists.    *)
CompletedWorkUndoneOnlyByRollback ==
  [][ \A i \in Task : Id(i) \in markers /\ IsNew(i) /\ planHash = "this"
                        => IsNew(i)' \/ pc = "rollback" ]_vars

(* "Re-run to resume": after any kills, exhausted budgets and failures     *)
(* that have not renamed a shadow back, one invocation without failures    *)
(* completes the plan.                                                     *)
ResumeCompletes == runs > FaultyRuns /\ pc = "down" /\ ~restored => exit = Success

(* Every invocation comes to an exit code (or is killed): no wait of the   *)
(* loop is left without a result to come.                                  *)
EveryInvocationEnds == pc = "staging" ~> pc = "down"

(* An operator who keeps re-running apply gets it to succeed, unless one   *)
(* of the invocations has rolled back.                                     *)
EventuallyCanonical ==
  <>(exit = Success /\ \A i \in Task : IsNew(i)) \/ <>restored
=============================================================================
