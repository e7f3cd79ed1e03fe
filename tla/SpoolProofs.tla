---------------------------- MODULE SpoolProofs ----------------------------
(***************************************************************************)
(* What holds of the spool directory for any number of overlapping, killed *)
(* and repeated invocations of diagnose.                                   *)
(***************************************************************************)
EXTENDS ManifestSpool, FiniteSetTheorems, TLAPS

Early == {"reclaim", "fetch"}

(* The names that may have been given to a spool by now.                   *)
Created ==
  {n \in Names : \/ n[2] < run[n[1]]
                 \/ n[2] = run[n[1]] /\ at[n[1]] \notin Early}

(* A running invocation has a name of its own, and only it creates it.     *)
NamesInv ==
  /\ \A p \in Procs : at[p] # "down" => run[p] >= 1
  /\ dir \subseteq Created
  /\ \A p \in Procs : matched[p] \subseteq Created

(* Between the copy and the end of the parse the spool holds what was      *)
(* copied; only pinned bytes get past the verification.                    *)
ContentInv ==
  /\ \A p \in Procs : at[p] \in {"closed", "verified", "parse"}
                        => copied[p] \in Bodies /\ content[Own(p)] = copied[p]
  /\ \A p \in Procs : at[p] \in {"verified", "parse"} => copied[p] = "pinned"

(* What the reclaim has found and not removed is still to be removed.      *)
ReclaimInv ==
  \A p \in Procs : at[p] = "reclaim" => dir \cap matched[p] \subseteq toRemove[p]

IInv ==
  TypeOK /\ NamesInv /\ ContentInv /\ ReclaimInv /\ NoSpoolOutlivesItsRun /\ RemnantsReclaimed
-----------------------------------------------------------------------------
LEMMA OwnNames ==
  ASSUME TypeOK, NEW p \in Procs, run[p] >= 1
  PROVE  Own(p) \in Names /\ Own(p)[1] = p /\ Own(p)[2] = run[p]
  BY SpoolAssumption DEF SpoolAssumption, TypeOK, Own, Names

LEMMA NamesFacts ==
  ASSUME NEW n \in Names
  PROVE  n[1] \in Procs /\ n[2] \in 1 .. MaxRuns /\ n = <<n[1], n[2]>>
  BY DEF Names

LEMMA InitInv == Init => IInv
  <1> SUFFICES ASSUME Init PROVE IInv
    OBVIOUS
  <1>1. TypeOK
    BY SpoolAssumption DEF SpoolAssumption, Init, TypeOK, Results
  <1>2. NamesInv /\ ContentInv /\ ReclaimInv /\ NoSpoolOutlivesItsRun /\ RemnantsReclaimed
    BY DEF Init, NamesInv, ContentInv, ReclaimInv, NoSpoolOutlivesItsRun, RemnantsReclaimed
  <1> QED
    BY <1>1, <1>2 DEF IInv

(* Every step keeps the types.                                             *)
LEMMA TypeKept ==
  ASSUME TypeOK, NEW p \in Procs, Step(p) \/ Kill(p),
         at[p] # "down" => run[p] >= 1, at[p] = "closed" => copied[p] \in Bodies
  PROVE  TypeOK'
  <1> USE DEF TypeOK, Goto, Exit
  <1>1. CASE Start(p)
    BY <1>1, SpoolAssumption DEF Start, SpoolAssumption, Results
  <1>2. CASE Reclaim(p)
    BY <1>2 DEF Reclaim
  <1>3. CASE Fetch(p)
    BY <1>3 DEF Fetch, Results
  <1>4. CASE CreateSpool(p)
    BY <1>4, OwnNames DEF CreateSpool, Results
  <1>5. CASE CopyEnds(p)
    BY <1>5, OwnNames DEF CopyEnds
  <1>6. CASE Verify(p)
    BY <1>6 DEF Verify, Refusal, Results, Bodies
  <1>7. CASE OpenSpool(p)
    BY <1>7 DEF OpenSpool, Results
  <1>8. CASE ParseEnds(p)
    BY <1>8 DEF ParseEnds, Results
  <1>9. CASE Kill(p)
    BY <1>9, OwnNames DEF Kill, Results
  <1> QED
    BY <1>1, <1>2, <1>3, <1>4, <1>5, <1>6, <1>7, <1>8, <1>9 DEF Step

(* A step of p changes nothing of the other invocations.                   *)
LEMMA OthersKept ==
  ASSUME TypeOK, NEW p \in Procs, Step(p) \/ Kill(p), NEW q \in Procs, q # p
  PROVE  /\ at'[q] = at[q] /\ run'[q] = run[q] /\ Own(q)' = Own(q)
         /\ matched'[q] = matched[q] /\ toRemove'[q] = toRemove[q] /\ copied'[q] = copied[q]
  <1>1. /\ at'[q] = at[q] /\ run'[q] = run[q]
        /\ matched'[q] = matched[q] /\ toRemove'[q] = toRemove[q] /\ copied'[q] = copied[q]
    BY DEF TypeOK, Step, Start, Reclaim, Fetch, CreateSpool, CopyEnds, Verify, OpenSpool,
           ParseEnds, Kill, Goto, Exit
  <1> QED
    BY <1>1 DEF Own

(* The invocation goes on from at[p], and its number rises with a start.   *)
LEMMA OwnKept ==
  ASSUME TypeOK, NEW p \in Procs, Step(p) \/ Kill(p)
  PROVE  \/ Start(p) /\ at[p] = "down" /\ at'[p] = "reclaim" /\ run'[p] = run[p] + 1
         \/ ~Start(p) /\ at[p] # "down" /\ run'[p] = run[p] /\ Own(p)' = Own(p)
  BY DEF TypeOK, Step, Start, Reclaim, Fetch, CreateSpool, CopyEnds, Verify, OpenSpool,
         ParseEnds, Kill, Goto, Exit, Own

LEMMA NamesKept ==
  ASSUME IInv, NEW p \in Procs, Step(p) \/ Kill(p)
  PROVE  NamesInv'
  <1> USE DEF IInv
  <1>1. \A q \in Procs : at'[q] # "down" => run'[q] >= 1
    BY OthersKept, OwnKept DEF NamesInv, TypeOK
  <1>2. Created \subseteq Created'
    <2>1. ASSUME NEW n \in Created
          PROVE  n \in Created'
      <3>1. n \in Names /\ n[1] \in Procs /\ n[2] \in Nat /\ run[n[1]] \in Nat
        BY <2>1, NamesFacts, SpoolAssumption DEF Created, TypeOK, SpoolAssumption
      <3>2. CASE n[1] # p
        BY <2>1, <3>1, <3>2, OthersKept DEF Created
      <3>3. CASE n[1] = p /\ Start(p)
        BY <2>1, <3>1, <3>3, OwnKept DEF Created
      <3>4. CASE n[1] = p /\ ~Start(p)
        <4>1. at[p] \notin Early => at'[p] \notin Early
          BY <3>4 DEF TypeOK, Early, Step, CreateSpool, CopyEnds, Verify, OpenSpool,
                      ParseEnds, Kill, Goto, Exit, Reclaim, Fetch
        <4> QED
          BY <2>1, <3>1, <3>4, <4>1, OwnKept DEF Created
      <3> QED
        BY <3>2, <3>3, <3>4
    <2> QED
      BY <2>1
  <1>3. dir' \subseteq Created'
    <2>1. CASE CreateSpool(p) /\ at'[p] = "copy"
      <3>1. Own(p) \in Names /\ Own(p)[1] = p /\ Own(p)[2] = run[p] /\ run'[p] = run[p]
        BY <2>1, OwnNames DEF CreateSpool, NamesInv
      <3>2. Own(p) \in Created'
        BY <2>1, <3>1 DEF Created, Early
      <3> QED
        BY <1>2, <2>1, <3>2 DEF CreateSpool, NamesInv
    <2>2. CASE dir' \subseteq dir
      BY <1>2, <2>2 DEF NamesInv
    <2> QED
      BY <2>1, <2>2 DEF TypeOK, Step, Start, Reclaim, Fetch, CreateSpool, CopyEnds, Verify,
                        OpenSpool, ParseEnds, Kill, Goto, Exit
  <1>4. \A q \in Procs : matched'[q] \subseteq Created'
    <2>1. matched'[p] = matched[p] \/ matched'[p] = dir
      BY DEF TypeOK, Step, Start, Reclaim, Fetch, CreateSpool, CopyEnds, Verify,
             OpenSpool, ParseEnds, Kill
    <2> QED
      BY <1>2, <2>1, OthersKept DEF NamesInv
  <1> QED
    BY <1>1, <1>3, <1>4 DEF NamesInv

(* Nobody but p writes to the spool of p.                                  *)
LEMMA ContentKept ==
  ASSUME IInv, NEW p \in Procs, Step(p) \/ Kill(p)
  PROVE  ContentInv'
  <1> USE DEF IInv
  <1>1. ASSUME NEW q \in Procs, q # p, at[q] # "down"
        PROVE  content'[Own(q)] = content[Own(q)]
    <2>1. Own(q) # Own(p)
      BY <1>1 DEF Own
    <2>2. Own(q) \in Names
      BY <1>1, OwnNames DEF NamesInv
    <2> QED
      BY <2>1, <2>2 DEF TypeOK, Step, Start, Reclaim, Fetch, CreateSpool, CopyEnds, Verify,
                        OpenSpool, ParseEnds, Kill
  <1>2. ASSUME NEW q \in Procs, q # p
        PROVE  /\ at'[q] \in {"closed", "verified", "parse"}
                    => copied'[q] \in Bodies /\ content'[Own(q)'] = copied'[q]
               /\ at'[q] \in {"verified", "parse"} => copied'[q] = "pinned"
    BY <1>1, <1>2, OthersKept DEF ContentInv
  <1>3. CASE CopyEnds(p)
    <2>1. Own(p) \in Names /\ Own(p)' = Own(p)
      BY <1>3, OwnNames DEF CopyEnds, NamesInv, Own
    <2>2. /\ at'[p] = "closed" /\ copied'[p] \in Bodies /\ content'[Own(p)'] = copied'[p]
      BY <1>3, <2>1 DEF CopyEnds, Goto, TypeOK
    <2> QED
      BY <1>2, <2>2 DEF ContentInv
  <1>4. CASE ~CopyEnds(p)
    <2>1. /\ at'[p] \in {"closed", "verified", "parse"}
               => copied'[p] \in Bodies /\ content'[Own(p)'] = copied'[p]
          /\ at'[p] \in {"verified", "parse"} => copied'[p] = "pinned"
      BY <1>4 DEF ContentInv, TypeOK, Own, Step, Start, Reclaim, Fetch, CreateSpool, Verify,
                  OpenSpool, ParseEnds, Kill, Goto, Exit
    <2> QED
      BY <1>2, <2>1 DEF ContentInv
  <1> QED
    BY <1>3, <1>4

(* What p found in the directory goes, and nobody creates such a name.     *)
LEMMA ReclaimKept ==
  ASSUME IInv, NEW p \in Procs, Step(p) \/ Kill(p)
  PROVE  ReclaimInv' /\ RemnantsReclaimed'
  <1> USE DEF IInv
  <1>1. ASSUME CreateSpool(p), at'[p] = "copy"
        PROVE  \A q \in Procs : Own(p) \notin matched[q]
    <2>1. Own(p)[1] = p /\ Own(p)[2] = run[p] /\ run[p] \in Nat
      BY <1>1, OwnNames DEF CreateSpool, NamesInv, TypeOK
    <2>2. Own(p) \notin Created
      BY <1>1, <2>1 DEF CreateSpool, Created, Early
    <2> QED
      BY <2>2 DEF NamesInv
  <1>2. ASSUME NEW q \in Procs, matched'[q] = matched[q]
        PROVE  dir' \cap matched'[q] \subseteq dir \cap matched[q]
    <2>1. CASE CreateSpool(p) /\ at'[p] = "copy"
      BY <1>1, <1>2, <2>1 DEF CreateSpool
    <2>2. CASE dir' \subseteq dir
      BY <1>2, <2>2
    <2> QED
      BY <2>1, <2>2 DEF TypeOK, Step, Start, Reclaim, Fetch, CreateSpool, CopyEnds, Verify,
                        OpenSpool, ParseEnds, Kill, Goto, Exit
  <1>3. ASSUME NEW q \in Procs, q # p
        PROVE  /\ at'[q] = "reclaim" => dir' \cap matched'[q] \subseteq toRemove'[q]
               /\ at'[q] \notin {"down", "reclaim"} => dir' \cap matched'[q] = {}
    <2>1. dir' \cap matched'[q] \subseteq dir \cap matched[q]
      BY <1>2, <1>3, OthersKept
    <2> QED
      BY <1>3, <2>1, OthersKept DEF ReclaimInv, RemnantsReclaimed
  <1>4. /\ at'[p] = "reclaim" => dir' \cap matched'[p] \subseteq toRemove'[p]
        /\ at'[p] \notin {"down", "reclaim"} => dir' \cap matched'[p] = {}
    <2>1. CASE Start(p)
      BY <2>1 DEF Start, TypeOK
    <2>2. CASE Reclaim(p)
      BY <2>2 DEF Reclaim, TypeOK, ReclaimInv
    <2>3. CASE Fetch(p)
      BY <2>3 DEF Fetch, Goto, Exit, TypeOK, ReclaimInv
    <2>4. CASE CreateSpool(p) \/ CopyEnds(p) \/ Verify(p) \/ OpenSpool(p) \/ ParseEnds(p) \/ Kill(p)
      <3>1. matched'[p] = matched[p] /\ at'[p] # "reclaim"
        BY <2>4 DEF CreateSpool, CopyEnds, Verify, OpenSpool, ParseEnds, Kill, Goto, Exit, TypeOK
      <3>2. at'[p] # "down" => at[p] \notin {"down", "reclaim"}
        BY <2>4 DEF CreateSpool, CopyEnds, Verify, OpenSpool, ParseEnds, Kill, Goto, Exit, TypeOK
      <3> QED
        BY <1>2, <3>1, <3>2 DEF RemnantsReclaimed
    <2> QED
      BY <2>1, <2>2, <2>3, <2>4 DEF Step
  <1> QED
    BY <1>3, <1>4 DEF ReclaimInv, RemnantsReclaimed

(* An invocation that ends has removed its spool, or never made one, or is *)
(* killed.                                                                 *)
LEMMA RunsCleanUp ==
  ASSUME IInv, NEW p \in Procs, Step(p) \/ Kill(p)
  PROVE  NoSpoolOutlivesItsRun'
  <1> USE DEF IInv
  <1> SUFFICES ASSUME NEW n \in dir'
               PROVE  n \in killed' \/ (n = Own(n[1])' /\ at'[n[1]] # "down")
    BY DEF NoSpoolOutlivesItsRun
  <1>1. n \in dir \/ (CreateSpool(p) /\ n = Own(p) /\ at'[p] = "copy")
    BY DEF TypeOK, Step, Start, Reclaim, Fetch, CreateSpool, CopyEnds, Verify, OpenSpool,
           ParseEnds, Kill, Goto, Exit
  <1>2. killed \subseteq killed'
    BY DEF Step, Start, Reclaim, Fetch, CreateSpool, CopyEnds, Verify, OpenSpool, ParseEnds, Kill
  <1>3. CASE CreateSpool(p) /\ n = Own(p) /\ at'[p] = "copy"
    BY <1>3, OwnKept DEF CreateSpool, Own
  <1>4. CASE n \in dir /\ n \in killed
    BY <1>2, <1>4
  <1>5. CASE n \in dir /\ n = Own(n[1]) /\ at[n[1]] # "down"
    <2>1. n \in Created /\ n[1] \in Procs /\ n[2] = run[n[1]] /\ run[n[1]] \in Nat
      BY <1>5, NamesFacts DEF NamesInv, Created, Own, TypeOK
    <2>2. CASE n[1] # p
      BY <1>5, <2>1, <2>2, OthersKept
    <2>3. CASE n[1] = p
      <3>1. at[p] \notin Early
        BY <2>1, <2>3 DEF Created
      <3>2. Own(p)' = Own(p) /\ ~Start(p)
        BY <1>5, <2>3, OwnKept
      <3>3. at'[p] # "down" \/ n \in killed'
        BY <1>5, <2>3, <3>1, <3>2
        DEF TypeOK, Early, Step, Reclaim, Fetch, CreateSpool, CopyEnds, Verify, OpenSpool,
            ParseEnds, Kill, Goto, Exit
      <3> QED
        BY <1>5, <2>3, <3>2, <3>3
    <2> QED
      BY <2>2, <2>3
  <1> QED
    BY <1>1, <1>3, <1>4, <1>5 DEF NoSpoolOutlivesItsRun

LEMMA NextKeeps == IInv /\ [Next]_vars => IInv'
  <1> SUFFICES ASSUME IInv, [Next]_vars PROVE IInv'
    OBVIOUS
  <1>1. CASE UNCHANGED vars
    BY <1>1 DEF vars, IInv, TypeOK, NamesInv, Created, ContentInv, ReclaimInv, Own,
                NoSpoolOutlivesItsRun, RemnantsReclaimed
  <1>2. ASSUME NEW p \in Procs, Step(p) \/ Kill(p)
        PROVE  IInv'
    <2>1. TypeOK'
      BY <1>2, TypeKept DEF IInv, NamesInv, ContentInv
    <2> QED
      BY <1>2, <2>1, NamesKept, ContentKept, ReclaimKept, RunsCleanUp DEF IInv
  <1> QED
    BY <1>1, <1>2 DEF Next, AllDown

(* The inductive invariant of the spool directory.                         *)
THEOREM Invariance == Spec => []IInv
  BY InitInv, NextKeeps, PTL DEF Spec

(* Every variable of ManifestSpool keeps its type.                         *)
THEOREM TypeCorrect == Spec => []TypeOK
  <1>1. IInv => TypeOK
    BY DEF IInv
  <1> QED
    BY <1>1, Invariance, PTL

(* Whoever creates, removes or abandons spools meanwhile, the parser of    *)
(* every diagnose reads the pinned bytes.                                  *)
THEOREM OnlyPinnedParsed == Spec => []ParsesOnlyPinned
  <1>1. IInv => ParsesOnlyPinned
    BY DEF IInv, ContentInv, ParsesOnlyPinned
  <1> QED
    BY <1>1, Invariance, PTL

(* Only a kill leaves a spool behind.                                      *)
THEOREM SpoolsRemoved == Spec => []NoSpoolOutlivesItsRun
  <1>1. IInv => NoSpoolOutlivesItsRun
    BY DEF IInv
  <1> QED
    BY <1>1, Invariance, PTL

(* A diagnose past its reclaim has rid the directory of all it found.      *)
THEOREM RemnantsGone == Spec => []RemnantsReclaimed
  <1>1. IInv => RemnantsReclaimed
    BY DEF IInv
  <1> QED
    BY <1>1, Invariance, PTL
=============================================================================
