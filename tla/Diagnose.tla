------------------------------ MODULE Diagnose ------------------------------
(***************************************************************************)
(* The read-only half of the doctor: diagnose.Diagnose                     *)
(* (internal/diagnose/orchestrator.go) with the preflight refusals, the    *)
(* entry stream of the manifest reader (internal/manifest/stream.go), the  *)
(* comparison with the local files (PageCompare) and the plan emitter      *)
(* (internal/diagnose/plan_emit.go).  Several runs may write to one plan   *)
(* path, any of them may be killed, and a node may be started once its     *)
(* absence has been checked.  How the verified manifest is obtained is the *)
(* subject of ManifestSpool; what apply makes of the plan, of PlanGate.    *)
(***************************************************************************)
EXTENDS PageCompare, ManifestReader, FiniteSets

CONSTANTS
  Procs,      \* runs of diagnose with one plan-out path
  Manifests,  \* [entries, anchors, version, core]: what may be published
  Locals,     \* [main, whole]: what the node may have on disk
  Machines,   \* [core, free, writable]: what the predicates may find
  Previous,   \* plans that may already lie at the plan path
  MaxWrites,  \* bound: changes a started node makes to its files
  Kills       \* bound: runs killed

ASSUME DiagnoseAssumption ==
  /\ \A m \in Manifests : m.entries \in Seq(Seq(EntryMember))
  /\ \A l \in Locals : l.main \in Seq(STRING)
  /\ MaxWrites \in Nat
  /\ Kills \in Nat

NoFile == "missing"
NoPlan == <<>>

VARIABLES
  manifest, machine,  \* fixed at first
  local,              \* the datadir
  node, writes,       \* whether a node runs, and what it has written so far
  plan,               \* the document at the plan path
  spools, temps,      \* runs that have a file of either kind in its directory
  tempDoc,            \* per run: the content of its temporary plan
  at, entry,          \* per run: where it is, and the entry it reads next
  sqliteGroup,        \* per run: the divergences in its spool
  wholeFile,          \* per run: the buffered whole_file divergences
  pageCount, fileCount,
  result,
  disturbed           \* history: runs during which the local files changed

environment == <<manifest, machine, local, node, writes>>
found == <<sqliteGroup, wholeFile, pageCount, fileCount>>
onDisk == <<plan, spools, temps, tempDoc>>
vars == <<environment, onDisk, at, entry, found, result, disturbed>>

Success == 0
GenericError == 1
RunningNode == 2
VersionMismatch == 4
Capacity == 5
PermissionReadOnly == 6
ManifestFormatVersionUnrecognized == 7
Panic == -3
Killed == -2
Running == -1
Codes == {Success, GenericError, RunningNode, VersionMismatch, Capacity,
          PermissionReadOnly, ManifestFormatVersionUnrecognized, Panic, Killed, Running}

Places == {"down", "probe", "emitter", "manifest", "entries", "predicates",
           "finalize", "write", "rename", "renamed", "ended"}

TypeOK ==
  /\ manifest \in Manifests /\ machine \in Machines /\ local \in Locals
  /\ node \in BOOLEAN /\ writes \in 0 .. MaxWrites
  /\ spools \subseteq Procs /\ temps \subseteq Procs
  /\ at \in [Procs -> Places]
  /\ entry \in [Procs -> 1 .. Len(manifest.entries) + 1]
  /\ pageCount \in [Procs -> Nat] /\ fileCount \in [Procs -> Nat]
  /\ result \in [Procs -> Codes]
  /\ disturbed \subseteq Procs
  /\ \A p \in Procs : at[p] = "ended" <=> result[p] # Running

Init ==
  /\ manifest \in Manifests /\ machine \in Machines /\ local \in Locals
  /\ node \in BOOLEAN /\ writes = 0
  /\ plan \in {NoPlan} \cup Previous
  /\ spools = {} /\ temps = {} /\ tempDoc = [p \in Procs |-> NoPlan]
  /\ at = [p \in Procs |-> "down"]
  /\ entry = [p \in Procs |-> 1]
  /\ sqliteGroup = [p \in Procs |-> <<>>]
  /\ wholeFile = [p \in Procs |-> <<>>]
  /\ pageCount = [p \in Procs |-> 0] /\ fileCount = [p \in Procs |-> 0]
  /\ result = [p \in Procs |-> Running]
  /\ disturbed = {}

Goto(p, next) == at' = [at EXCEPT ![p] = next] /\ UNCHANGED result

(* Mutation of Exit: the code is set and the function goes on.             *)
ExitAndGoOn(p, code) ==
  /\ at' = [at EXCEPT ![p] = IF @ = "down" THEN "probe" ELSE "ended"]
  /\ result' = [result EXCEPT ![p] = code]

Exit(p, code) ==
  /\ at' = [at EXCEPT ![p] = "ended"]
  /\ result' = [result EXCEPT ![p] = code]

(* Mutation of Abort: the spool is kept.                                   *)
AbortKeepingSpool(p) == temps' = temps \ {p} /\ UNCHANGED spools

(* PlanEmitter.Abort, deferred for every return but a successful one.      *)
Abort(p) == spools' = spools \ {p} /\ temps' = temps \ {p}
Fail(p, code) ==
  /\ Exit(p, code)
  /\ Abort(p)
  /\ UNCHANGED <<plan, tempDoc>>
-----------------------------------------------------------------------------
(* The running-node predicate; its probe may fail.                         *)
CheckNode(p) ==
  /\ at[p] = "down"
  /\ \/ node /\ Exit(p, RunningNode)
     \/ ~node /\ Goto(p, "probe")
     \/ Exit(p, GenericError)
  /\ UNCHANGED <<environment, onDisk, entry, found, disturbed>>

(* The directory of the plan is probed, and the probe file removed.        *)
ProbeWritable(p) ==
  /\ at[p] = "probe"
  /\ \/ Goto(p, "emitter")
     \/ Exit(p, GenericError)
  /\ UNCHANGED <<environment, onDisk, entry, found, disturbed>>

NewPlanEmitter(p) ==
  /\ at[p] = "emitter"
  /\ \/ Goto(p, "manifest") /\ spools' = spools \cup {p}
     \/ Exit(p, GenericError) /\ UNCHANGED spools
  /\ UNCHANGED <<environment, plan, temps, tempDoc, entry, found, disturbed>>

(* The manifest is spooled and verified, or it is not.                     *)
FetchManifest(p) ==
  /\ at[p] = "manifest"
  /\ \/ Goto(p, "entries") /\ UNCHANGED onDisk
     \/ Fail(p, Capacity)
     \/ Fail(p, GenericError)
  /\ UNCHANGED <<environment, entry, found, disturbed>>
-----------------------------------------------------------------------------
PagesDivergence(pages) == [kind |-> "sqlite_pages", path |-> Main, hash |-> "",
                           source |-> "", pages |-> pages]
WholeDivergence(path, hash) ==
  [kind |-> "whole_file", path |-> path, hash |-> hash, pages |-> <<>>,
   source |-> IF local.whole[path] = NoFile THEN "fetch_full" ELSE ""]

Current == [p \in Procs |-> manifest.entries[entry[p]]]
Reading(p) == at[p] = "entries" /\ entry[p] <= Len(manifest.entries)
NextEntry(p) == entry' = [entry EXCEPT ![p] = @ + 1] /\ UNCHANGED <<at, result>>

PageTotal(divs) ==
  LET total[n \in 0 .. Len(divs)] == IF n = 0 THEN 0 ELSE total[n - 1] + Len(divs[n].pages)
  IN total[Len(divs)]

(* Mutation of Found: also where no page is divergent.                     *)
FoundAlways(m) ==
  IF m.key # "pages" THEN <<>> ELSE <<PagesDivergence(Divergent(m.pages, local.main))>>

(* An array without a divergent page leaves nothing in the spool.          *)
Found(m) ==
  LET pages == Divergent(m.pages, local.main) IN
  IF m.key # "pages" \/ pages = <<>> THEN <<>> ELSE <<PagesDivergence(pages)>>

(* What the members of an entry add to the spool, one after another.       *)
Reported(e) ==
  LET upTo[n \in 0 .. Len(e)] == IF n = 0 THEN <<>> ELSE upTo[n - 1] \o Found(e[n])
  IN upTo[Len(e)]

(* Every array of pages is compared as it is read, before the path of the  *)
(* entry may be.                                                           *)
SQLiteEntry(p) ==
  /\ Reading(p)
  /\ LET e == Current[p] divs == Reported(e) IN
       /\ ~Undecodable(e) /\ CalledAs(e) = "sqlite_pages" /\ Has(e, "pages")
       /\ Attributed(e, Main)
       /\ sqliteGroup' = [sqliteGroup EXCEPT ![p] = @ \o divs]
       /\ fileCount' = [fileCount EXCEPT ![p] = @ + Len(divs)]
       /\ pageCount' = [pageCount EXCEPT ![p] = @ + PageTotal(divs)]
  /\ NextEntry(p)
  /\ UNCHANGED <<environment, onDisk, wholeFile, disturbed>>

(* An entry without a path names a directory, which cannot be hashed.      *)
WholeFileEntry(p) ==
  /\ Reading(p)
  /\ LET e == Current[p] path == Value(e, "path") hash == Value(e, "hash") IN
       /\ ~Undecodable(e) /\ CalledAs(e) = "whole_file"
       /\ path # ""
       /\ IF local.whole[path] = hash THEN UNCHANGED <<wholeFile, fileCount>>
          ELSE /\ wholeFile' = [wholeFile EXCEPT ![p] =
                                  Append(@, WholeDivergence(path, hash))]
               /\ fileCount' = [fileCount EXCEPT ![p] = @ + 1]
  /\ NextEntry(p)
  /\ UNCHANGED <<environment, onDisk, sqliteGroup, pageCount, disturbed>>

(* An entry of an unknown kind, or of none, is passed over.                *)
UnknownEntry(p) ==
  /\ Reading(p)
  /\ ~Undecodable(Current[p])
  /\ CalledAs(Current[p]) \notin {"sqlite_pages", "whole_file"}
  /\ NextEntry(p)
  /\ UNCHANGED <<environment, onDisk, found, disturbed>>

(* What cannot be decoded, pages of another file, or a local file that     *)
(* cannot be read end the run; so does the absent iterator of an           *)
(* sqlite_pages entry that has no pages.                                   *)
EntryFails(p) ==
  /\ Reading(p)
  /\ LET e == Current[p] IN
       \/ Undecodable(e) /\ Fail(p, GenericError)
       \/ CalledAs(e) \in {"sqlite_pages", "whole_file"} /\ Fail(p, GenericError)
       \/ ~Undecodable(e) /\ CalledAs(e) = "sqlite_pages" /\ ~Has(e, "pages") /\ Fail(p, Panic)
  /\ UNCHANGED <<environment, entry, found, disturbed>>

EntriesEnd(p) ==
  /\ at[p] = "entries"
  /\ entry[p] > Len(manifest.entries)
  /\ \/ manifest.anchors /\ Goto(p, "predicates") /\ UNCHANGED onDisk
     \/ ~manifest.anchors /\ Fail(p, GenericError)
  /\ UNCHANGED <<environment, entry, found, disturbed>>
-----------------------------------------------------------------------------
(* The predicates that follow the manifest, in their order; the free space *)
(* must be twice the divergent pages.                                      *)
FormatOK == manifest.version = 1
VersionOK == machine.core = manifest.core
Fits(p) == machine.free >= 2 * pageCount[p]

Predicates(p) ==
  /\ at[p] = "predicates"
  /\ \/ ~FormatOK /\ Fail(p, ManifestFormatVersionUnrecognized)
     \/ FormatOK /\ Fail(p, GenericError)  \* a probe fails
     \/ FormatOK /\ ~VersionOK /\ Fail(p, VersionMismatch)
     \/ FormatOK /\ VersionOK /\ ~Fits(p) /\ Fail(p, Capacity)
     \/ FormatOK /\ VersionOK /\ Fits(p) /\ ~machine.writable /\ Fail(p, PermissionReadOnly)
     \/ FormatOK /\ VersionOK /\ Fits(p) /\ machine.writable
          /\ Goto(p, "finalize") /\ UNCHANGED onDisk
  /\ UNCHANGED <<environment, entry, found, disturbed>>
-----------------------------------------------------------------------------
Member(key, val) == [key |-> key, val |-> val, covers |-> 0, divs |-> <<>>]
Divergences(divs) == [key |-> "divergences", val |-> "", covers |-> 0, divs |-> divs]
SelfHash(n) == [key |-> "self_hash", val |-> "", covers |-> n, divs |-> <<>>]
Payload(divs) ==
  << Member("canonical_identity", "id"), Divergences(divs),
     Member("format_version", FormatVersion), Member("manifest_url", "url"),
     Member("pocketdb_path", "path") >>
TornPlan == <<Member("canonical_identity", "id"), Member("torn", "")>>

(* The page divergences come first, then the whole files, and self_hash    *)
(* last, the digest of the five members before it.                         *)
Emitted(p) == Append(Payload(sqliteGroup[p] \o wholeFile[p]), SelfHash(5))

(* Finalize: the spool is synced, the temporary plan is created, written   *)
(* and synced, and renamed; then the spool is removed.                     *)
CreateTemp(p) ==
  /\ at[p] = "finalize"
  /\ \/ /\ Goto(p, "write")
        /\ temps' = temps \cup {p}
        /\ tempDoc' = [tempDoc EXCEPT ![p] = TornPlan]
        /\ UNCHANGED <<plan, spools>>
     \/ Fail(p, GenericError)
  /\ UNCHANGED <<environment, entry, found, disturbed>>

(* Mutation of WritePlan: the plan is written where it will be read.       *)
WriteInPlace(p) ==
  /\ at[p] = "write"
  /\ \/ /\ Goto(p, "rename")
        /\ tempDoc' = [tempDoc EXCEPT ![p] = Emitted(p)]
        /\ plan' = TornPlan
        /\ UNCHANGED <<spools, temps>>
     \/ Fail(p, GenericError)
  /\ UNCHANGED <<environment, entry, found, disturbed>>

WritePlan(p) ==
  /\ at[p] = "write"
  /\ \/ /\ Goto(p, "rename")
        /\ tempDoc' = [tempDoc EXCEPT ![p] = Emitted(p)]
        /\ UNCHANGED <<plan, spools, temps>>
     \/ Fail(p, GenericError)
  /\ UNCHANGED <<environment, entry, found, disturbed>>

RenamePlan(p) ==
  /\ at[p] = "rename"
  /\ \/ /\ Goto(p, "renamed")
        /\ plan' = tempDoc[p]
        /\ temps' = temps \ {p}
        /\ UNCHANGED <<spools, tempDoc>>
     \/ Fail(p, GenericError)
  /\ UNCHANGED <<environment, entry, found, disturbed>>

RemoveSpool(p) ==
  /\ at[p] = "renamed"
  /\ spools' = spools \ {p}
  /\ Exit(p, Success)
  /\ UNCHANGED <<environment, plan, temps, tempDoc, entry, found, disturbed>>
-----------------------------------------------------------------------------
Kill(p) ==
  /\ at[p] \notin {"down", "ended"}
  /\ Cardinality({q \in Procs : result[q] = Killed}) < Kills
  /\ Exit(p, Killed)
  /\ UNCHANGED <<environment, onDisk, entry, found, disturbed>>

(* The operator starts or stops the node; a running node writes.           *)
NodeSwitched ==
  /\ writes < MaxWrites
  /\ node' = ~node
  /\ UNCHANGED <<manifest, machine, local, writes, onDisk, at, entry, found, result, disturbed>>

NodeWrites ==
  /\ node
  /\ writes < MaxWrites
  /\ writes' = writes + 1
  /\ local' \in Locals \ {local}
  /\ disturbed' = disturbed \cup {p \in Procs : at[p] # "down"}
  /\ UNCHANGED <<manifest, machine, node, onDisk, at, entry, found, result>>
-----------------------------------------------------------------------------
Entries(p) ==
  SQLiteEntry(p) \/ WholeFileEntry(p) \/ UnknownEntry(p) \/ EntryFails(p) \/ EntriesEnd(p)
Finalize(p) == CreateTemp(p) \/ WritePlan(p) \/ RenamePlan(p) \/ RemoveSpool(p)
Step(p) ==
  \/ CheckNode(p) \/ ProbeWritable(p) \/ NewPlanEmitter(p) \/ FetchManifest(p)
  \/ Entries(p) \/ Predicates(p) \/ Finalize(p)
AllEnded == (\A p \in Procs : at[p] = "ended") /\ UNCHANGED vars
Next == AllEnded \/ NodeSwitched \/ NodeWrites \/ \E p \in Procs : Step(p) \/ Kill(p)

Spec == Init /\ [][Next]_vars
-----------------------------------------------------------------------------
(* What apply reads: every hash the manifest publishes is canonical.       *)
AsRead(doc) ==
  [n \in 1 .. Len(doc) |->
     [doc[n] EXCEPT !.divs =
        [i \in 1 .. Len(doc[n].divs) |->
           LET d == doc[n].divs[i] IN
           [d EXCEPT !.hash = IF d.kind = "whole_file" THEN "canonical" ELSE "",
                     !.pages = [k \in 1 .. Len(d.pages) |-> "canonical"]]]]]

(* The gates of apply on the content of a plan.                            *)
Applicable(plain) ==
  LET doc == AsRead(plain) IN
    /\ Readable(doc) /\ Header(doc).version = FormatVersion
    /\ PrefixMatches(doc, Boundary(doc), Embedded(doc))
    /\ HeadersOK(doc) /\ PageHashesOK(doc)

ASSUME PreviousAssumption == \A doc \in Previous : Applicable(doc)

(* EC-003, "no partial plan is observable at the final path": whatever is  *)
(* killed, fails or overlaps, what lies at the plan path passes the gates  *)
(* of apply on the content of a plan.                                      *)
PlanAlwaysApplicable == plan # NoPlan => Applicable(plan)

EntriesOf(kind) ==
  {e \in 1 .. Len(manifest.entries) : Decoded(manifest.entries[e]).kind = kind}
PagesOf(divs) ==
  UNION {{divs[i].pages[n] : n \in 1 .. Len(divs[i].pages)} : i \in 1 .. Len(divs)}
PagesPublished(e) ==
  UNION {{e[i].pages[n] : n \in 1 .. Len(e[i].pages)} : i \in Positions(e, "pages")}
WholesOf(divs) ==
  {[path |-> divs[i].path, hash |-> divs[i].hash, source |-> divs[i].source] :
     i \in {n \in 1 .. Len(divs) : divs[n].kind = "whole_file"}}

(* The plan of a successful run is the difference between the manifest, as *)
(* anyone else would read it, and the local files, though pages are        *)
(* compared before their entry is known: no page that differs is missing,  *)
(* none that agrees is listed (unless the manifest is out of order), and a *)
(* file is fetched in full just when it is absent.  A manifest that repeats*)
(* a member within an entry is not meant.                                  *)
PlanIsTheDifference ==
  \A p \in Procs \ disturbed :
    result[p] = Success /\ (\A e \in 1 .. Len(manifest.entries) : NoneRepeated(manifest.entries[e])) =>
    LET divs == Headers(tempDoc[p])
        whole == [e \in 1 .. Len(manifest.entries) |-> Decoded(manifest.entries[e])]
        listed(e) == whole[e].pages
        differing(e) == {listed(e)[n] : n \in Difference(listed(e), local.main)}
    IN /\ UNION {differing(e) : e \in EntriesOf("sqlite_pages")} \subseteq PagesOf(divs)
       /\ (\A e \in EntriesOf("sqlite_pages") : Ascending(listed(e))) =>
            PagesOf(divs) = UNION {differing(e) : e \in EntriesOf("sqlite_pages")}
       /\ WholesOf(divs) =
            {[path |-> whole[e].path, hash |-> whole[e].hash,
              source |-> IF local.whole[whole[e].path] = NoFile THEN "fetch_full" ELSE ""] :
               e \in {x \in EntriesOf("whole_file") : local.whole[whole[x].path] # whole[x].hash}}

(* "Refusing wrong-file page attribution" (stream.go): whatever the order  *)
(* and the repetitions in the manifest, no page of another database gets   *)
(* into a plan that is at its path.                                        *)
PagesStayWithTheirFile ==
  \A p \in Procs : result[p] = Success =>
    PagesOf(Headers(tempDoc[p])) \subseteq
      UNION {PagesPublished(manifest.entries[e]) :
               e \in {x \in 1 .. Len(manifest.entries) :
                        Decoded(manifest.entries[x]).path = Main}}

(* "No partial plan and no spool are left behind" by any way out: a file   *)
(* of diagnose in the directory belongs to a run that goes on, or was      *)
(* killed.                                                                 *)
NothingLeftBehind ==
  \A p \in spools \cup temps : at[p] # "ended" \/ result[p] = Killed

(* README exit 1 to 7 are refusals: the plan at the path is replaced only  *)
(* by a run that passed every one of them, and in one step.                *)
PlanReplacedWhole ==
  [][ plan' # plan =>
        \E p \in Procs : /\ at[p] = "rename" /\ plan' = Emitted(p)
                         /\ FormatOK /\ VersionOK /\ Fits(p) /\ machine.writable ]_vars
-----------------------------------------------------------------------------
(* summary.go, when no divergence was found: "local pocketdb matches       *)
(* canonical bitwise".                                                     *)
MainIs(pages) ==
  /\ Len(local.main) = Len(pages)
  /\ \A n \in 1 .. Len(pages) : InPlace(pages[n], local.main)
NoRecoveryNeededMeansBitwise ==
  \A p \in Procs \ disturbed : result[p] = Success /\ fileCount[p] = 0 =>
    \A e \in EntriesOf("sqlite_pages") : MainIs(Decoded(manifest.entries[e]).pages)
=============================================================================
