--------------------------- MODULE ManifestSpool ---------------------------
(***************************************************************************)
(* How a diagnose obtains the canonical manifest                           *)
(* (internal/manifest/spool.go, FetchAndProcess in stream.go): reclaim     *)
(* stale spools, fetch, copy the body to a fresh spool while hashing it,   *)
(* verify, then open the spool again by name and parse it.  Several runs   *)
(* of diagnose may share the directory of the plan, in which the spools    *)
(* lie, and any of them may be killed.                                     *)
(***************************************************************************)
EXTENDS Integers, FiniteSets

CONSTANTS
  Procs,       \* invocations of diagnose that may overlap
  MaxRuns,     \* bound: how often each is started
  Kills        \* bound: invocations killed

ASSUME SpoolAssumption ==
  /\ MaxRuns \in Nat
  /\ Kills \in Nat

VARIABLES
  dir,      \* names of the spools in the directory
  content,  \* name -> what its inode holds
  at,       \* per process
  run,      \* per process: invocations so far
  matched,  \* per process: what its glob found
  toRemove, \* per process: what of it is still to be removed
  copied,   \* per process: how the copy ended
  result,   \* per process: how its last invocation returned
  killed    \* names of the spools of killed invocations

vars == <<dir, content, at, run, matched, toRemove, copied, result, killed>>

(* os.CreateTemp gives every invocation a name of its own.                 *)
Names == Procs \X (1 .. MaxRuns)
Own(p) == <<p, run[p]>>
Bodies == {"pinned", "other", "over", "short"}
Results == {"none", "killed", "parsed", "fetch", "capacity", "create", "copy",
            "over-declared-length", "mismatch", "open", "parse"}

TypeOK ==
  /\ dir \subseteq Names
  /\ content \in [Names -> {"none", "partial"} \cup Bodies]
  /\ at \in [Procs -> {"down", "reclaim", "fetch", "copy", "closed", "verified", "parse"}]
  /\ run \in [Procs -> 0 .. MaxRuns]
  /\ matched \in [Procs -> SUBSET Names]
  /\ toRemove \in [Procs -> SUBSET Names]
  /\ copied \in [Procs -> {"none"} \cup Bodies]
  /\ result \in [Procs -> Results]
  /\ killed \subseteq Names

Init ==
  /\ dir = {}
  /\ content = [n \in Names |-> "none"]
  /\ at = [p \in Procs |-> "down"]
  /\ run = [p \in Procs |-> 0]
  /\ matched = [p \in Procs |-> {}]
  /\ toRemove = [p \in Procs |-> {}]
  /\ copied = [p \in Procs |-> "none"]
  /\ result = [p \in Procs |-> "none"]
  /\ killed = {}

Goto(p, next) == at' = [at EXCEPT ![p] = next] /\ UNCHANGED result
Exit(p, how) ==
  /\ at' = [at EXCEPT ![p] = "down"]
  /\ result' = [result EXCEPT ![p] = how]

(* reclaimStaleSpools: a glob, then one best-effort removal per match.     *)
Start(p) ==
  /\ at[p] = "down"
  /\ run[p] < MaxRuns
  /\ run' = [run EXCEPT ![p] = @ + 1]
  /\ matched' = [matched EXCEPT ![p] = dir]
  /\ toRemove' = [toRemove EXCEPT ![p] = dir]
  /\ copied' = [copied EXCEPT ![p] = "none"]
  /\ at' = [at EXCEPT ![p] = "reclaim"]
  /\ result' = [result EXCEPT ![p] = "none"]
  /\ UNCHANGED <<dir, content, killed>>

Reclaim(p) ==
  /\ at[p] = "reclaim"
  /\ \E n \in toRemove[p] :
        /\ dir' = dir \ {n}
        /\ toRemove' = [toRemove EXCEPT ![p] = @ \ {n}]
  /\ UNCHANGED <<content, at, run, matched, copied, result, killed>>

(* Mutation of Fetch: the reclaim is abandoned half-way.                   *)
FetchBeforeReclaimed(p) ==
  /\ at[p] = "reclaim"
  /\ Goto(p, "fetch")
  /\ UNCHANGED <<dir, content, run, matched, toRemove, copied, killed>>

(* The response headers: an error, no declared length, or too little room. *)
Fetch(p) ==
  /\ at[p] = "reclaim"
  /\ toRemove[p] = {}
  /\ \/ Exit(p, "fetch")
     \/ Exit(p, "capacity")
     \/ Goto(p, "fetch")
  /\ UNCHANGED <<dir, content, run, matched, toRemove, copied, killed>>

CreateSpool(p) ==
  /\ at[p] = "fetch"
  /\ \/ /\ dir' = dir \cup {Own(p)}
        /\ content' = [content EXCEPT ![Own(p)] = "partial"]
        /\ Goto(p, "copy")
     \/ UNCHANGED <<dir, content>> /\ Exit(p, "create")
  /\ UNCHANGED <<run, matched, toRemove, copied, killed>>

(* The copy ends with the whole declared body, with one byte more than     *)
(* declared, or with an error (also a full disk), and the spool is closed. *)
CopyEnds(p) ==
  /\ at[p] = "copy"
  /\ \E body \in Bodies :
        /\ content' = [content EXCEPT ![Own(p)] = body]
        /\ copied' = [copied EXCEPT ![p] = body]
  /\ Goto(p, "closed")
  /\ UNCHANGED <<dir, run, matched, toRemove, killed>>

Refusal == [short |-> "copy", over |-> "over-declared-length", other |-> "mismatch"]

(* Mutations of Verify: a full body is not hashed; the partial spool stays.*)
VerifyLengthOnly(p) ==
  /\ at[p] = "closed"
  /\ IF copied[p] \in {"pinned", "other"}
     THEN Goto(p, "verified") /\ UNCHANGED dir
     ELSE dir' = dir \ {Own(p)} /\ Exit(p, Refusal[copied[p]])
  /\ UNCHANGED <<content, run, matched, toRemove, copied, killed>>

VerifyKeepingSpool(p) ==
  /\ at[p] = "closed"
  /\ IF copied[p] = "pinned" THEN Goto(p, "verified") ELSE Exit(p, Refusal[copied[p]])
  /\ UNCHANGED <<dir, content, run, matched, toRemove, copied, killed>>

Verify(p) ==
  /\ at[p] = "closed"
  /\ IF copied[p] = "pinned"
     THEN Goto(p, "verified") /\ UNCHANGED dir
     ELSE /\ dir' = dir \ {Own(p)}
          /\ Exit(p, Refusal[copied[p]])
  /\ UNCHANGED <<content, run, matched, toRemove, copied, killed>>

OpenSpool(p) ==
  /\ at[p] = "verified"
  /\ IF Own(p) \in dir THEN Goto(p, "parse") ELSE Exit(p, "open")
  /\ UNCHANGED <<dir, content, run, matched, toRemove, copied, killed>>

(* Whatever the parser says, the deferred removal is made.                 *)
ParseEnds(p) ==
  /\ at[p] = "parse"
  /\ dir' = dir \ {Own(p)}
  /\ \/ Exit(p, "parsed")
     \/ Exit(p, "parse")
  /\ UNCHANGED <<content, run, matched, toRemove, copied, killed>>

Kill(p) ==
  /\ at[p] # "down"
  /\ Cardinality(killed) < Kills
  /\ killed' = killed \cup {Own(p)}
  /\ Exit(p, "killed")
  /\ UNCHANGED <<dir, content, run, matched, toRemove, copied>>

Step(p) ==
  \/ Start(p) \/ Reclaim(p) \/ Fetch(p) \/ CreateSpool(p) \/ CopyEnds(p)
  \/ Verify(p) \/ OpenSpool(p) \/ ParseEnds(p)
AllDown == (\A p \in Procs : at[p] = "down" /\ run[p] = MaxRuns) /\ UNCHANGED vars
Next == AllDown \/ \E p \in Procs : Step(p) \/ Kill(p)

Spec == Init /\ [][Next]_vars
-----------------------------------------------------------------------------
(* spool.go "verification (and therefore any later parse) happens only     *)
(* after the full body hashes to pinnedHash": the parser reads the pinned  *)
(* bytes, whoever removes or creates spools between the close and the open.*)
ParsesOnlyPinned == \A p \in Procs : at[p] = "parse" => content[Own(p)] = "pinned"

(* "Every error path removes any partial spool" and the parser's deferred  *)
(* removal: what lies in the directory belongs to a running invocation or  *)
(* was left by a kill.                                                     *)
NoSpoolOutlivesItsRun ==
  \A n \in dir : n \in killed \/ (n = Own(n[1]) /\ at[n[1]] # "down")

(* Remnants do not pile up: once an invocation is past the reclaim nothing *)
(* it found is left, and its own new spool is not among what it removed.   *)
RemnantsReclaimed ==
  \A p \in Procs : at[p] \notin {"down", "reclaim"} => dir \cap matched[p] = {}
=============================================================================
