# Pocketnet Node Doctor: specifications and proofs

TLA+ modules of the node doctor (Go, `cmd/` and `internal/`), the TLC runs that
check them on small instances, and TLAPS proofs of what matters most for every
instance. Paths below are relative to the repository (`internal/` is
`src/internal/`); the module and line that each definition translates are in
`PROJECT.json` under `map`.

## 1. The system

The doctor has two commands. `diagnose` compares a node's data directory with a
published canonical manifest and writes a `plan.json`. `apply` executes such a
plan: it fetches chunks, checks their hashes, puts them into the live tree, and
verifies or rolls back. The two meet in the plan file, in the tree, and in the
operator, who runs one or the other after reading an exit code.

| Component | State it keeps | Operations | Correct when |
|---|---|---|---|
| Apply (`internal/apply`, `staging`, `rollback`, `verify`) | live tree, staging directory: shadows, markers, plan-hash, staged files | resume or discard, scan, shadow, promote, mark, verify, roll back, clean up | markers are true, success means canonical, rollback restores, re-running completes |
| Fetch pool (`apply/worker.go`, `apply/apply.go`, `fetch/retry.go`) | two bounded channels, the lazy plan iterator, the retry counters | feed, fetch, retry, report, cancel | no goroutine waits for ever, each task is settled once, nobody touches a reported file |
| Transfer (`fetch`, `httptransfer`) | connection, stall timer, reading goroutine, staged file | connect, await headers, read with a stall limit, retry, close | a success has the whole body, a dead server ends the transfer, no reader stays behind |
| Plan reader and gates (`internal/plan`, `apply/plan_guard.go`) | nothing between readings | version, self-hash, shape, hash format, freshness; two-stage reading | the first defect decides, pages go to their own file |
| Diagnose (`internal/diagnose`, `internal/preflight`) | plan spool, temporary plan, counters | predicates, entry stream, comparison, plan emission | the plan is exactly the difference, and whole |
| Manifest spool (`manifest/spool.go`) | spool file | reclaim, download, verify, reopen, parse, remove | only pinned bytes are parsed, no spool is left |
| Manifest stream reader (`manifest/stream.go`) | decoder position | members, entries, path checks | pages are never attributed to another file |
| Recovery: the operator's loop (`cmd`, exit codes) | plan, staging directory, tree, what is published | diagnose, apply, publish | markers belong to their plan, exit 0 means recovered, the loop gets there |
| Operator surface, hashing, canonical form, trust root | none | formatting, digests | (pure functions) |

What is hard here: `apply` may be killed between any two system calls and must
resume from the staging directory; its pool is two channels of equal capacity
whose sizes alone keep it from deadlock; one counter must agree with a feed
that re-reads the disk; `plan.json` is opened seven times in one run while a
`diagnose` may replace it; spools of several runs share a directory; shadows may
be hard links to files that are then written in place; a read of the network is
a goroutine, a timer and a callback that race; and markers outlive the work they
stand for, while the canonical and the tree move on.

`hazards` in `PROJECT.json` lists these at their lines with the properties that
watch them.

## 2. Modules

An arrow is EXTENDS; `<=` is "is shown to implement".

```
Apply <- ApplyClaims, ApplyRefinement (Apply <= ApplyContract) <- MCApply, ApplyProofs
WorkerPool (<= TaskFeed) <- MCWorkerPool, PoolProofs
Transfer (<= ChunkFetch) <- MCTransfer, TransferProofs
ManifestSpool <- MCManifestSpool, SpoolProofs
PlanDoc <- PlanGate <- MCPlanDefects, GateProofs
PlanDoc <- ManifestReader, PageCompare <- Diagnose <- MCDiagnose, DiagnoseProofs
PlanDoc <- PlanDocProofs <- GateProofs, DiagnoseProofs
Recovery (steps of ApplyContract) <- MCRecovery, RecoveryProofs
```

**Apply** models `apply.Run` from `staging.CreateOrResume` to its return, over
several invocations of one plan. `live` maps each file to the origin of the
bytes of its chunks (`old`, `new`, `junk`, `none`); `shadow` says of each shadow
whether it is a hard link (then it shares the live file's bytes until a rename
parts them) or an inode of its own; `markers` and `planHash` are the files of
those names. `pc` follows the function: `staging`, `fresh` (directory emptied,
not stamped), `scan` (pass 1), `shadow`, `prime`, `loop`, `mark` (promoted, marker
to be written), `verify`, `rollback`, `cleanup`. `Resume`, `DiscardStale` and
`StampPlanHash` are `CreateOrResume`; `Promote` is the switch of
`promoteWholeFile` and `promoteSQLitePage`; `RequeueOrGiveUp` the retry
bookkeeping; `Feed` the lazy iterator. `Crash` may happen anywhere and leaves what
an interrupted `RemoveAll`, copy, `WriteAt` or cleanup leaves (`HalfDiscarded`,
`HalfCopied`, `HalfWritten`, `HalfCleaned`). `verified` and `restored` are history.

**ApplyContract** is what apply promises of one plan: bytes land, then they are
marked; what a marker vouches for is left alone until a rollback begins; success
is claimed only for what has landed or is marked. **ApplyRefinement** maps Apply
to it: *canonical* is the work whose live bytes are new, *believed* the markers
under this plan's hash, and everything but `down` and `rollback` is *working*.

**WorkerPool** opens up what Apply calls "in flight": `taskCh` and `resultCh`
with their capacity, the workers with the retries of `FetchWithRetry`, the main
goroutine between its blocking sends and receives, the staged files and a
context that may be cancelled. **TaskFeed** is the abstract specification: hand
out in order, at most `Limit` at a time, replace each settled task at once,
return when all are settled or the context is cancelled. Its safety part is
`FeedSafe`; `FeedSpec` adds that the feed goes on. `WorkerPool` implements it under the mapping *waiting* = pending entries at or after the cursor, *out* =
entries queued, held, answered or being sent.

**Transfer** opens up what WorkerPool calls a try: connecting, the wait for the
response headers, the stall guard's `Read` (a goroutine that reads, a timer, its
callback in a goroutine of its own, a `select` that may take either), the decoder
that reads ahead of `io.Copy`, the deferred calls, backoff, and a server that may
stop, break off or end too early. A manifest is the same with one try and no
decoder, and with the header timeout that a chunk's transport lacks.
**ChunkFetch** is what the workers rely on: a number of tries, each leaving the
staged file as it was or starting it anew, and a success with the whole body.

**PlanDoc** is the streaming plan reader as pure functions of a document (the
sequence of its top-level members, possibly missing, repeated, misplaced, unknown
or cut off). **PlanGate** is the sequence of refusals of `apply.Run`, one fresh
reading of the file per step, then the staging stamp, pass 1 and the feed.

**PageCompare** is `ComparePagesStreaming` as a recursive function over the two
positions of the merge, with the set it should compute. **ManifestReader** is how `streamEntry` takes an entry whose
members come in any order: what ends the stream, with which kind and how often
the callback is called, and the check of the assumed path once the entry is
closed. **Diagnose** is `diagnose.Diagnose`: preflight, plan emitter, manifest
entries, predicates, `Finalize`, and the deferred `Abort` of every other way out,
for several overlapping runs. It writes its plan in the terms of `PlanDoc`, so
that what is emitted can be put to the gates of `apply`.

**ManifestSpool** is `spoolAndVerify` and `parseFromSpool` in a shared directory.

**Recovery** composes the two commands as an operator does. `diagnose` writes the
difference (`Diagnose` shows that it does), `apply` takes the steps of
`ApplyContract` (`Apply` is proved to) on a tree of numbered bytes; the canonical is
republished, the node runs or a backup is restored, processes are killed, power
fails with bytes unsynced, and the staging directory is there throughout.
A plan is its content, since `writePayload` puts neither a time nor anything
random into it. `fresh` and `spoiled` are history: the tree has changed since the
diagnosis only by applying its plan; bytes were lost under a marker.

Definitions whose comment begins "Mutation of" are the variants of a definition
that a plausible mistake would make of it; they show that each property notices.

## 3. Runs

Each passing run, the questions it answers, and its bounds.

**`apply`** (four chunks: two pages of `main.sqlite3`, one existing whole file,
one absent file; two in flight; two attempts; hard-linked shadows; three faulty
invocations and a fourth without faults; 111 thousand states). `WholeFilesSwapAtomically`,
`MarkersSound`, `SuccessMeansCanonical`, `Accounting`,
`CompletedWorkNotRefetched`, `ShadowsIntact`, `RollbackRestoresShadowed`,
`ResumeCompletes`, `CompletedWorkUndoneOnlyByRollback`, `ImplementsContract`. Three
faulty invocations are one to start, one to resume and one to resume what that
left; two chunks in one file and one each in two others give every pair of kinds;
with a pool of two and four chunks the feed is both refilled and exhausted.

**`apply_retry`** (copied shadows, three chunks, two faulty invocations and one
without faults, weak fairness). Where the shadow is a copy the rollback of a first
invocation restores the tree byte for byte (`RolledBackIsPreApply`, which fails
with links, see below). Every invocation ends, and re-running gets to success
unless a rollback intervened.

**`pool`** (four entries, one marked; two workers; two attempts on each level;
fetch, hash, promotion and marker failures; cancellation; fair). `SendsNeverBlock`
(the argument of the comment at `apply.go:538`), `StagedUntouched`,
`RunReturns`, `WorkersLeave`, `ImplementsTaskFeed`. Two workers
and three pending entries fill both channels and leave one to be fed late.

**`transfer`** (a body of two packets, three tries, cancellation, fair; 33
thousand states). `StagesWholeBody`, `OneReader`, `TransferEnds`, `ReadersReturn`,
`ImplementsChunkFetch`. Two packets are the fewest of which the first can arrive
and the second not, and as many as the decoder reads ahead; three tries is the
code's own constant.

**`plan_defects`** (every document one edit away from a genuine plan, and a second
edit from a smaller set, and plans with two `divergences` members; a genuine plan
may be renamed over each once; 250 thousand states). `FirstDefectReported` compares
the exit code with an independent list of defects in the documented order. The
list is that of the documentation with one exception, spelled out as `Overlooked`:
a `self_hash` that is repeated or misplaced and yet covers what precedes it, which
`not_canonform` below is about. A panic is allowed of a plan that repeats its
`divergences` and has no other defect, and of no other.
`CanonicalPlanIsWhatWasHashed` is about plans whose `self_hash` comes last.

**`spool`** (two processes, two invocations each, two kills): `ParsesOnlyPinned`,
`NoSpoolOutlivesItsRun`, `RemnantsReclaimed`.

**`diagnose`** (two runs on one plan path, twenty-two manifests, four trees, four
machines, one change by a node started late, one kill, a failure possible at
every step; 764 thousand states). `PlanAlwaysApplicable`: whatever lies at the plan
path passes the content gates of `apply`. `PlanIsTheDifference` compares the plan
with a set definition of what differs; `PagesStayWithTheirFile` with what any reader
of the whole manifest would take each entry for; `NothingLeftBehind`,
`PlanReplacedWhole`. The manifests include gaps, pages out of order, an entry
split in two, a foreign database, an unclean path, and entries with each member
missing, repeated, moved or undecodable.

**`recovery`** (three chunks, two published versions, two damaged trees, two mishaps of
six kinds, fair; 155 thousand states). `MarkersAreThePlans`, `SuccessMeansRecovered`,
`EventuallyRecovered`. Two mishaps are enough for a kill while a directory is
discarded followed by a second kill or a changed tree; two versions for a
directory of the one to meet a plan for the other.

### Fairness

Weak fairness of the steps of a running invocation (`Apply!Run`), of the main
goroutine and of each worker (`WorkerPool`), and in `Transfer` of each goroutine
and of an armed timer: the Go scheduler runs every runnable goroutine and the
runtime fires timers. Nothing is assumed of the server. `Transfer!TransferEnds`
then shows that a transfer ends, with one exception: a chunk server that accepts a
request and never sends headers. The fairness of Apply and WorkerPool assumes
that no server does that; section 4 says why the code cannot exclude it. Killing,
cancelling, and all faults are without fairness.

`apply_retry` also assumes that the operator starts the next invocation
(`WF(Start)`) within the bound. `Recovery!FairSpec` is an operator who follows the
table of exit codes in `README.md`: weak for applying, and strong for diagnosing
when there is no plan, after exit 10, 11 or 14 and after the tree was changed,
because each running apply holds the next diagnose back. That a running apply
makes progress there is what `apply_retry` checks of Apply. Deadlock is checked
everywhere.

## 4. Disagreements between the program and its documentation

Four runs end in a counterexample; `findings` quotes the lines.

- `rollback_linked_pages`: the shadow of a page-patched file is a hard link to
  the file written in place; exit 10 ("rolled back to the pre-apply state") leaves
  the new pages in `main.sqlite3`.
- `stale_markers`: markers and stamp survive a success, and a tree damaged in the
  same way again yields the same plan, byte for byte; apply believes the markers,
  fetches nothing and exits 0 with the damage in place.
- `longer_file`: a local database longer than the canonical one is reported as a
  bitwise match; `apply` never truncates.
- `not_canonform`: `stream.go:153` and the EC-009 test
  (`plan_stream_decode_edges_test.go:67`) say that a duplicated or misplaced
  `self_hash` is a mismatch, exit 15. The code takes the last `self_hash` and hashes
  what precedes it (`stream.go:195-201`), so a plan passes with a stale `self_hash`
  before the last one, or with members after it that are outside the digest and are
  used. The test's values match nothing and do not tell. Of the documents of
  `plan_defects` the run takes those that are `Overlooked`; its counterexample has a second
  `divergences` after `self_hash`: the page arrays of both are walked, the headers are
  those of the last (`stream.go:249-254`), and `apply` panics where it indexes one
  with the other (`apply.go:465`). The same happens when both members are under a
  digest that was taken again, which the run `plan_defects` has. With an index that
  stays in range the pages go to the path of another divergence. diagnose writes
  one member, and `self_hash` last.

What the same modelling shows, not kept as runs:

- Markers survive a rollback too: after exit 10 the next apply of the plan exits 0
  with the old files (`apply.go:644-646`, `710-735`).
- A file that was absent before `apply` remains after exit 10; the rollback of a
  resumed `apply` leaves the files of the earlier invocation; a shadow copy cut off
  by a failure is taken for complete by the next invocation and may be restored.
- An `apply` killed between its last marker and its verification is followed by an
  exit 0 without verification. Exit 12 may leave a torn page in place.
- A plan that repeats an entry makes the loop wait for ever: the eager count and
  the lazy feed disagree (`apply.go:247`, `471`, `569`). The decoder's tests accept
  such plans (`plan_stream_decode_edges_test.go:119-124`); diagnose does not write one.
- The fetch of a chunk has no response-header timeout, although `policy.go:9` speaks
  of "per-phase network timeouts": `main.go:46` leaves the transport nil, the worker
  puts `http.DefaultTransport` in its place (`worker.go:23-25`), and a transport that
  is given is used as it is (`transport.go:13-15`). A server that accepts the request
  of a chunk and never answers holds its worker, and then the loop, for ever.
  `TransferEnds` excepts exactly this wait (`at = "await"` of a chunk).
- A diagnose that replaces `plan.json` after the self-hash gate has its pages applied
  under the earlier plan's headers.
- The spool is closed and reopened by name, and a starting diagnose may remove it in
  between: the earlier run then fails (`spool.go:182`, `204`). It never parses other
  bytes (`ParsesOnlyPinned`, proved).
- A `whole_file` entry without a hash passes diagnose and becomes a plan that apply
  refuses; a body that never ends is read without a limit.
- With the staging directory on another filesystem no whole file can be promoted or
  restored (`apply.go:153`). An unreachable manifest server is reported as exit 14.
- When the plan names `main.sqlite3` its hash is not checked after promotion
  (`apply.go:719`); integrity_check is all that looks at it.
- Nothing apply writes is synced: a power failure may keep a marker and lose its
  bytes. `Recovery` has it as `PowerLoss`, and its properties except a directory in
  which it happened (`spoiled`).

## 5. Proofs

Eight modules hold proofs; each theorem is about one module of the model, for
every value of its constants.

| Module | Theorem | Property |
|---|---|---|
| `ApplyProofs` | `TypeCorrect` | `TypeOK` |
| | `MarkersTruthful` | `MarkersSound` |
| | `SuccessTruthful` | `SuccessMeansCanonical` |
| | `LoopAccounting` | `Accounting` |
| | `NoRefetch` | `CompletedWorkNotRefetched` |
| | `MarkedWorkKept` | `CompletedWorkUndoneOnlyByRollback` |
| | `WholeFilesAtomic` (linked) | `WholeFilesSwapAtomically` |
| | `ShadowsRecoverable` (linked) | `ShadowsIntact` |
| | `RollbackTruthful` (linked) | `RollbackRestoresShadowed` |
| | `ResumptionCompletes` (linked) | `ResumeCompletes` |
| | `FirstRollbackComplete` (copied) | `RolledBackIsPreApply` |
| | `ApplyImplements` | `ImplementsContract` |
| `PoolProofs` | `PoolTypes` | `TypeOK` |
| | `NeverBlocked` | `SendsNeverBlock` |
| | `DeliveredBytes` (distinct) | `StagedUntouched` |
| | `PoolIsTaskFeed` (distinct) | safety part of `ImplementsTaskFeed` |
| | `CountIsExact` (distinct) | (`ResultsToCome`) |
| `TransferProofs` | `WholeBodyStaged` | `StagesWholeBody` |
| | `ReadersAlone` | `OneReader` |
| | `TransferImplements` | `ImplementsChunkFetch` |
| `GateProofs` | `GateTypes` | (`TypeOK`, which no run lists) |
| | `FirstDefectDecides` | `FirstDefectReported` |
| | `AppliedAsHashed` | `CanonicalPlanIsWhatWasHashed` |
| `DiagnoseProofs` | `DiagnoseTypes` | `TypeOK` |
| | `PlanPassesTheGates` | `PlanAlwaysApplicable` |
| | `DirectoryIsCleaned` | `NothingLeftBehind` |
| | `PagesOfOneFile` | `PagesStayWithTheirFile` |
| | `RefusalsPrecedeThePlan` | `PlanReplacedWhole` |
| | `MergeFindsTheDifference` | (of `PageCompare`) |
| | `PlanListsTheDifference` | `PlanIsTheDifference` |
| `SpoolProofs` | `OnlyPinnedParsed` | `ParsesOnlyPinned` |
| | `SpoolsRemoved` | `NoSpoolOutlivesItsRun` |
| | `RemnantsGone` | `RemnantsReclaimed` |
| `RecoveryProofs` | `MarkersBelong` | `MarkersAreThePlans` |
| | `SuccessRecovers` | `SuccessMeansRecovered` |

`TransferProofs`, `SpoolProofs` and `RecoveryProofs` also prove the type invariant
of their module (`TypeCorrect`), which no run lists; `PlanDocProofs` holds lemmas
that two modules share. Each proof has a step per action and, under it, a step
per conjunct the action disturbs. A word in parentheses is a hypothesis of the
theorem, explained below; with each of them dropped the property is false of the
code, and section 4 says how.

**`ApplyProofs`, the control.** The inductive invariant `IInv` has four parts: `TypeOK`;
`ControlInv`, what each value of `pc` says of the rest, e.g. that from `scan` on
the directory carries this plan's hash, and that a loop that ended well left
nothing pending; `PoolInv`, tasks in flight lie before the cursor, are pending, and
together with those the feed will yield are the ones counted by `remaining`;
`TreeInv`, every marker stands for canonical bytes until a rollback, and the
chunk that is promoted but unmarked is canonical. None of the properties is
inductive alone: `MarkersSound` needs to know that `MarkDone` marks a chunk just
promoted, `SuccessMeansCanonical` that an empty loop has marked or promoted
everything, and `Accounting` that a fed task is new to the pool. Assumptions:
`PlanAssumption` (no entry twice), `FileAssumption` (a whole file is one entry),
`ParameterAssumption`.

**`ApplyProofs`, the shadows.** Four theorems hold under `Linked`: shadows are hard links, and
whole files absent before apply are fetched in full, as diagnose marks them
(`file_compare.go`). Without the first a shadow copied by half can be restored;
without the second a file may be shadowed as an earlier invocation left it. The
invariant `SInv` is relative to `IInv`: `PristineInv` (nothing happens before the directory
is this plan's), `WholeInv` (a whole file and its shadow are each the old or the new
one), `RecoverableInv` (until a verification, a whole file with a shadow of its own has
the original in it, and any other file is the original), `TakenInv` (what
pass 1 leaves to the loop has its shadow, which is why a promotion never destroys
the only copy), `RollbackInv` and `ResumeInv`.

`FirstRollbackComplete` holds under `Copied`: shadows are copies or the
filesystem refuses links, and no file had to be created. With links the property
is false (`rollback_linked_pages`), and a created file stays. `FirstRunInv` follows one
invocation: up to the shadows the tree is the original; from then on a file is
either the original or has it in its shadow, and every file of the plan has one;
during the rollback this holds of what is left to restore, and what has been
restored without an error is the original.

**`ApplyProofs`, the contract.** The refinement holds after a rollback too, where
`TreeInv` says nothing. `VouchInv` is what is left: each chunk of the plan is
canonical, marked or outstanding while the loop runs, and canonical or marked once
it has ended well. It is preserved together with `IInv`; each step of Apply is then
matched with a step of the contract or a stutter.

**`PoolProofs`.** `PInv` is the comment at `apply.go:538` made precise: an entry that is
out is in one place, one slot of one channel, one worker or the hand of the main
goroutine (`Placed`, with `NoDup` and `Apart`); it lies before the cursor; and there
are at most as many as turns of the priming loop. A sender holds an entry, so the
other places have at most `Parallel - 1`, and the channel it sends to has room. This
needs nothing of the plan. The other results are of plans with distinct entries
(`DistinctPlan`), as `TakeTask` and `Promote` know an entry by its file and offset:
`BytesInv` says that what a worker reported is still in its staged file, because no
other entry has that file; `FeedInv` that `remaining` is the number of entries out
or waiting. Of a plan with a repeated entry the last is false, and apply hangs
(section 4).

**`TransferProofs`.** `AttemptInv` ties the phase of an attempt to its reader, and
`DataInv` says where each packet is: the file, then the buffer, then the
result of the goroutine hold the packets 1, 2, ... in order and once. That a result
dropped by the `select` ends the attempt is what keeps it inductive. The refinement
maps `at`, the tries left and the staged file to `ChunkFetch`.

**`GateProofs`.** Each gate is shown to refuse exactly the documents with its defect,
as the independent list of `Defects` has them: `ReadableIsVersioned`,
`PrefixIsSealed` (the digest matches exactly when the plan is `Sealed` as documented
or `Overlooked`; digests are injective), `GatesSeeShapes` (two readings, of headers and
of page arrays, see together what one look at the divergences sees). The
invariant is about a plan that stays the same: `PassedInv`, what each place in
`apply.Run` knows because every refusal before it let the plan through and
everything captured from one reading is what the next one sees; and `EndInv`, that
a refusal is a verdict of that list with no earlier defect, and that a panic has
two `divergences` members to thank (`ArraysInRange`: with one, every index is within
the headers). The theorems hold of every document.

**`DiagnoseProofs`.** `DInv`: who owns which spool and temporary plan (`RunInv`), what a
run must have passed to be where it is, that a written plan is what the run
collected, that the pages collected are of the main database only, and that the
plan at the path is applicable (`PlanInv`). The plans that may lie there at first are
assumed to be (`PreviousAssumption`, which TLC evaluates). `PlanListsTheDifference`
adds `DiffInv`: after n entries an undisturbed run has collected the difference of the
first n. One entry is `MergeFindsTheDifference`, for all pages and all local
files, which is an induction over the two positions of the merge. The provers
cannot instantiate the library's induction theorems, whose parameter is an
operator; the proofs take the induction as a fact about sets of numbers instead
(`LeastNumber` and `UpTo` in `PlanDocProofs`, from the well-foundedness of finite
sets under inclusion). Assumptions: `DiagnoseAssumption`, which types what a manifest
and a datadir can be. `Plain`, no member repeated within an entry, is a condition of
the property as the run states it.

**`SpoolProofs`.** `NamesInv` (names in the directory were given by a run, and each
run has its own), `ContentInv` (between copy and parse the spool holds what was
copied, and only pinned bytes pass the verification), `ReclaimInv` (what the reclaim
has found and not removed is still to be removed).

**`RecoveryProofs`.** `MarkersAreThePlans` is preserved together with `ModeInv` (a
running apply works in the directory of its plan, which it accepted), `FreshInv` (a
fresh plan leaves out only what is canonical) and `DoneInv` (what a success has
left). `SuccessMeansRecovered` follows from the last two: what the plan lists by
`DoneInv`, what it leaves out by `FreshInv`.

Every invariant and every action property of a passing run has its theorem. Only
model-checked: liveness (`RunReturns`, `WorkersLeave`, `TransferEnds`,
`ReadersReturn`, `EveryInvocationEnds`, `EventuallyCanonical`,
`EventuallyRecovered`) and the fairness part of `ImplementsTaskFeed`, which are
out of the prover's reach; and the pool with a plan as `DistinctPlan` excludes, which
no run has either.

## 6. Not modelled

- An error of the task feed's own reading of the plan, which `apply.go:268-272`
  swallows: the feed ends short, and the loop waits for results nobody will send.
  It takes a plan replaced by a torn one after pass 1; `PlanGate` counts it as
  applying, and no property speaks of a replaced plan.
- A failing `os.Remove` of a spool (`spool.go:209-212` ignores it): a remnant that
  cannot be removed stays.
- Two concurrent `apply` runs on one staging directory: there is no lock
  (`apply.go:418`), and nothing in the repository says that it is supported.
- Durability within Apply: a completed system call is durable there; the power loss is
  in Recovery, at the level of chunks and markers, and as `powerloss` in Apply for
  the pages of an interrupted invocation.
- Durations: a timer may expire whenever it is armed, and backoff ends sometime.
- JSON syntax beyond "cut off or not"; repeated top-level members of a manifest.
- Windows: the directory rules are POSIX's.
- Hashing and canonical form (digests are injective), the bytes of the decoders, the
  command line, progress, summary and log texts, the trust root; failures of
  `MkdirAll` and `WriteFile` while the staging directory is made (exit 1 before
  anything else); test hooks and test helpers, whose servers do less than the
  server of `Transfer`.
- `ComparePages`, `WritePlanAtomic`, `EvaluateOrdered` and the materializing plan
  and manifest parsers, which the two commands no longer call.

## 7. Plan

Done: every module of section 2 with its runs; the proofs of section 5.

To prove next: the composition. `Recovery` takes from `Diagnose` that a plan lists
the difference and from `Apply` that it implements `ApplyContract`; both are
theorems, and that the steps of `Recovery` are steps of `ApplyContract` is by its
definition. What is left is that a plan `Diagnose` emits satisfies the assumptions
Apply makes of its plan (`PlanAssumption`, `DistinctPlan`) when the manifest repeats
nothing, and that it passes every gate of `PlanGate`, the two on its header included.
To model, if the code comes to support it: two invocations of apply at once.
