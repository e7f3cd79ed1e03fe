------------------------------ MODULE PlanGate ------------------------------
(***************************************************************************)
(* How apply.Run (internal/apply/apply.go) acquires its plan: a sequence   *)
(* of refusals in a fixed precedence, each made from a fresh reading of    *)
(* plan.json, then the staging directory, then two more readings that turn *)
(* the divergences into tasks.  A diagnose that finishes meanwhile renames *)
(* another plan over the file between any two readings (plan_emit.go).     *)
(***************************************************************************)
EXTENDS PlanDoc, FiniteSets

CONSTANTS
  Documents,  \* the plans that may lie at the path at first
  Emitted,    \* the plans a concurrent diagnose may rename over it
  Served,     \* what the manifest URL may answer; a failing request counts
              \* as an answer that is no plan's identity
  MaxSwaps    \* bound: renames during this invocation

ASSUME GateAssumption ==
  /\ Emitted \subseteq Documents
  /\ Documents \subseteq Seq(PlanMember)
  /\ Served \subseteq STRING
  /\ MaxSwaps \in Nat

VARIABLES
  file,       \* the document at the plan path
  served,     \* what the manifest URL answers
  pc,
  hdr,        \* the header captured by the version gate
  located,    \* boundary and embedded digest found by locateSelfHash
  headers,    \* the divergence headers
  stamp,      \* the digest in staging/plan-hash, once staging is touched
  exit, swaps

reading == <<hdr, located, headers>>
vars == <<file, served, pc, reading, stamp, exit, swaps>>

PCs == {"version", "locate", "hash", "headers", "pages", "freshness", "staging",
        "scan", "feed", "ended"}
GenericError == 1
Unrecognized == 7
Superseded == 14
Tampered == 15
Panic == -3
Running == -1
Applying == -2  \* the plan is accepted and its tasks are being fed
NoDoc == <<>>
Unstamped == [known |-> FALSE, of |-> <<>>]

TypeOK ==
  /\ file \in Documents
  /\ served \in Served
  /\ pc \in PCs
  /\ located.boundary \in Nat
  /\ exit \in {Running, Applying, Panic, GenericError, Unrecognized, Superseded, Tampered}
  /\ swaps \in 0 .. MaxSwaps
  /\ exit = Running <=> pc # "ended"

Init ==
  /\ file \in Documents
  /\ served \in Served
  /\ pc = "version"
  /\ hdr = Header(NoDoc) /\ located = [boundary |-> 0, embedded |-> OtherDigest]
  /\ headers = <<>> /\ stamp = Unstamped
  /\ exit = Running /\ swaps = 0

Refuse(code) == pc' = "ended" /\ exit' = code
Proceed(next) == pc' = next /\ UNCHANGED exit
Environment == <<file, served, swaps>>

VersionGate ==
  /\ pc = "version"
  /\ hdr' = IF Readable(file) THEN Header(file) ELSE hdr
  /\ \/ ~Readable(file) /\ Refuse(GenericError)
     \/ Readable(file) /\ Header(file).version # FormatVersion /\ Refuse(Unrecognized)
     \/ Readable(file) /\ Header(file).version = FormatVersion /\ Proceed("locate")
  /\ UNCHANGED <<Environment, located, headers, stamp>>

LocateSelfHash ==
  /\ pc = "locate"
  /\ located' = [boundary |-> Boundary(file), embedded |-> Embedded(file)]
  /\ IF Torn(file) THEN Refuse(Tampered) ELSE Proceed("hash")
  /\ UNCHANGED <<Environment, hdr, headers, stamp>>

SelfHashGate ==
  /\ pc = "hash"
  /\ IF PrefixMatches(file, located.boundary, located.embedded)
     THEN Proceed("headers")
     ELSE Refuse(Tampered)
  /\ UNCHANGED <<Environment, reading, stamp>>

ShapeGate ==
  /\ pc = "headers"
  /\ IF HeadersOK(file)
     THEN Proceed("pages") /\ headers' = Headers(file)
     ELSE Refuse(GenericError) /\ UNCHANGED headers
  /\ UNCHANGED <<Environment, hdr, located, stamp>>

PageHashGate ==
  /\ pc = "pages"
  /\ IF PageHashesOK(file) THEN Proceed("freshness") ELSE Refuse(GenericError)
  /\ UNCHANGED <<Environment, reading, stamp>>

(* A manifest that cannot be obtained counts as a different one.           *)
FreshnessGate ==
  /\ pc = "freshness"
  /\ \/ hdr.url = "" /\ Proceed("staging")
     \/ hdr.url # "" /\ served = hdr.identity /\ Proceed("staging")
     \/ hdr.url # "" /\ served # hdr.identity /\ Refuse(Superseded)
  /\ UNCHANGED <<Environment, reading, stamp>>

(* A plan without pocketdb_path is refused; otherwise CreateOrResume stamps*)
(* the directory with the self_hash of the header.                         *)
CreateStaging ==
  /\ pc = "staging"
  /\ IF hdr.path = ""
     THEN Refuse(GenericError) /\ UNCHANGED stamp
     ELSE Proceed("scan") /\ stamp' = hdr.self
  /\ UNCHANGED <<Environment, reading>>

(* Pass 1 resolves the path of each page array in the headers, by index.   *)
InRange(a) == a.index \in 1 .. Len(headers)

Scan ==
  /\ pc = "scan"
  /\ IF \E a \in PageArrays(file) : ~InRange(a) THEN Refuse(Panic)
     ELSE IF Torn(file) THEN Refuse(GenericError)
     ELSE Proceed("feed")
  /\ UNCHANGED <<Environment, reading, stamp>>

(* The task feed does it once more, and slices every hash.  An error of    *)
(* this reading only ends the feed, and the loop goes on with the count of *)
(* pass 1: it counts as Applying.                                          *)
Sliceable(a) == \A n \in 1 .. Len(a.pages) : a.pages[n] # ""

FeedTasks ==
  /\ pc = "feed"
  /\ IF \A a \in PageArrays(file) : InRange(a) /\ Sliceable(a)
     THEN Refuse(Applying)
     ELSE Refuse(Panic)
  /\ UNCHANGED <<Environment, reading, stamp>>

SwapPlan ==
  /\ pc # "ended"
  /\ swaps < MaxSwaps
  /\ swaps' = swaps + 1
  /\ file' \in Emitted \ {file}
  /\ UNCHANGED <<served, pc, reading, stamp, exit>>

Gates == VersionGate \/ LocateSelfHash \/ SelfHashGate \/ ShapeGate \/ PageHashGate
           \/ FreshnessGate
Acquire == Gates \/ CreateStaging \/ Scan \/ FeedTasks
Ended == pc = "ended" /\ UNCHANGED vars
Next == Acquire \/ SwapPlan \/ Ended

Spec == Init /\ [][Next]_vars
-----------------------------------------------------------------------------
Repeated(doc, key) == \E i, j \in Positions(doc, key) : i # j
SelfHashIsLast(doc) == Len(doc) > 0 /\ doc[Len(doc)].key = "self_hash"

(* What a self_hash is documented to be: one, at the end, over the rest.   *)
Sealed(doc) ==
  /\ SelfHashIsLast(doc) /\ ~Repeated(doc, "self_hash")
  /\ doc[Len(doc)].covers = Len(doc) - 1

(* What is let through all the same (NotCanonformIsTampered below): the    *)
(* last of several, or one with members after it, if it covers what        *)
(* precedes it.                                                            *)
Overlooked(doc) ==
  \E i \in Positions(doc, "self_hash") :
    /\ doc[i].covers = i - 1
    /\ \A j \in Positions(doc, "self_hash") : j <= i
    /\ i < Len(doc) \/ Repeated(doc, "self_hash")

(* apply.go "strict defect-class precedence order": the exit code names    *)
(* the first defect of the plan, in the order version, self-hash, shape and*)
(* hash format, superseded.  A plan without one is applied, or ends in a   *)
(* panic, but not one whose divergences are a single member.               *)
Defects(doc) == <<
  [code |-> GenericError,
   here |-> Torn(doc) \/ Cardinality(Positions(doc, "format_version")) # 1
              \/ Value(doc, "format_version") \notin {"1", "2"}],
  [code |-> Unrecognized, here |-> Value(doc, "format_version") # "2"],
  [code |-> Tampered,
   here |-> ~Sealed(doc) /\ ~Overlooked(doc)],
  [code |-> GenericError,
   here |-> \E k \in Positions(doc, "divergences") : \E i \in 1 .. Len(doc[k].divs) :
              LET d == doc[k].divs[i] IN
                \/ d.kind \notin {"sqlite_pages", "whole_file"}
                \/ d.kind = "whole_file" /\ (d.hash # "canonical" \/ d.pages # <<>>)
                \/ d.kind = "sqlite_pages"
                      /\ (d.hash # "" \/ d.source # "" \/ d.pages = <<>>)
                \/ \E n \in 1 .. Len(d.pages) : d.pages[n] # "canonical"],
  [code |-> Superseded,
   here |-> Value(doc, "manifest_url") # "" /\ Value(doc, "canonical_identity") # served],
  [code |-> GenericError, here |-> Value(doc, "pocketdb_path") = ""] >>

FirstDefectReported ==
  exit # Running /\ swaps = 0 =>
    \/ /\ exit = Applying \/ (exit = Panic /\ Repeated(file, "divergences"))
       /\ \A n \in 1 .. 6 : ~Defects(file)[n].here
    \/ \E n \in 1 .. 6 : /\ exit = Defects(file)[n].code
                         /\ Defects(file)[n].here
                         /\ \A m \in 1 .. n - 1 : ~Defects(file)[m].here

(* stream.go:153 "An absent/duplicated/misplaced self_hash yields a        *)
(* mismatch (a plan whose self_hash is not the lexically-last member is not*)
(* canonform - EC-008/EC-009)": only a plan with each member once and its  *)
(* self_hash at the end gets past the gates; no other reaches the readings *)
(* that find the path of a page by the index of its divergence.            *)
Canonform(doc) == SelfHashIsLast(doc) /\ \A key \in Keys : ~Repeated(doc, key)
NotCanonformIsTampered ==
  exit \in {Applying, Panic} /\ swaps = 0 => Canonform(file)

(* A plan whose last member is its self_hash, the shape diagnose writes,   *)
(* is applied only as what was hashed: the header and the divergences are  *)
(* those of the members under the digest.                                  *)
CanonicalPlanIsWhatWasHashed ==
  exit = Applying /\ swaps = 0 /\ SelfHashIsLast(file) =>
    /\ headers = Headers(stamp.of)
    /\ hdr.path = Value(stamp.of, "pocketdb_path")
    /\ hdr.identity = Value(stamp.of, "canonical_identity")
=============================================================================
