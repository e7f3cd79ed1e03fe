----------------------------- MODULE GateProofs -----------------------------
(***************************************************************************)
(* The refusals of apply, for any plan that may lie at the path: what each *)
(* of them lets through is what the documented list of defects says, the   *)
(* first defect decides, and what is applied is what was hashed.           *)
(***************************************************************************)
EXTENDS PlanGate, PlanDocProofs
-----------------------------------------------------------------------------
(* The defects one by one.                                                 *)
Unversioned(doc) ==
  \/ Torn(doc) \/ Cardinality(Positions(doc, "format_version")) # 1
  \/ Value(doc, "format_version") \notin {"1", "2"}
Unsealed(doc) == ~Sealed(doc) /\ ~Overlooked(doc)
Misshapen(d) ==
  \/ d.kind \notin {"sqlite_pages", "whole_file"}
  \/ d.kind = "whole_file" /\ (d.hash # "canonical" \/ d.pages # <<>>)
  \/ d.kind = "sqlite_pages" /\ (d.hash # "" \/ d.source # "" \/ d.pages = <<>>)
  \/ \E n \in 1 .. Len(d.pages) : d.pages[n] # "canonical"
Malformed(doc) ==
  \E k \in Positions(doc, "divergences") :
    \E i \in 1 .. Len(doc[k].divs) : Misshapen(doc[k].divs[i])
SupersededBy(doc, answer) ==
  Value(doc, "manifest_url") # "" /\ Value(doc, "canonical_identity") # answer

LEMMA DefectsAre ==
  ASSUME NEW doc
  PROVE  /\ Defects(doc)[1].here <=> Unversioned(doc)
         /\ Defects(doc)[2].here <=> Value(doc, "format_version") # "2"
         /\ Defects(doc)[3].here <=> Unsealed(doc)
         /\ Defects(doc)[4].here <=> Malformed(doc)
         /\ Defects(doc)[5].here <=> SupersededBy(doc, served)
         /\ Defects(doc)[6].here <=> Value(doc, "pocketdb_path") = ""
  BY DEF Defects, Unversioned, Unsealed, Malformed, Misshapen, SupersededBy

LEMMA CodesAre ==
  ASSUME NEW doc
  PROVE  /\ Defects(doc)[1].code = GenericError /\ Defects(doc)[2].code = Unrecognized
         /\ Defects(doc)[3].code = Tampered /\ Defects(doc)[4].code = GenericError
         /\ Defects(doc)[5].code = Superseded /\ Defects(doc)[6].code = GenericError
  BY DEF Defects

LEMMA ReadableIsVersioned ==
  ASSUME NEW doc \in Seq(PlanMember)
  PROVE  Readable(doc) <=> ~Unversioned(doc)
  <1> DEFINE S == Positions(doc, "format_version")
  <1>1. IsFiniteSet(S)
    <2>1. 1 \in Int /\ Len(doc) \in Int
      OBVIOUS
    <2>2. IsFiniteSet(1 .. Len(doc))
      BY <2>1, FS_Interval
    <2>3. S \subseteq 1 .. Len(doc)
      BY DEF Positions
    <2> QED
      BY <2>2, <2>3, FS_Subset
  <1>2. Cardinality(S) = 1 <=> \E i : S = {i}
    BY <1>1, FS_Singleton
  <1>3. ASSUME NEW i, S = {i}
        PROVE  Value(doc, "format_version") = doc[i].val
    BY <1>3, ValueOfOne
  <1> QED
    BY <1>2, <1>3 DEF Readable, Unversioned, FormatVersion

LEMMA PrefixIsSealed ==
  ASSUME NEW doc \in Seq(PlanMember)
  PROVE  PrefixMatches(doc, Boundary(doc), Embedded(doc)) <=> ~Unsealed(doc)
  <1>1. CASE ~Has(doc, "self_hash")
    <2>1. Embedded(doc) = OtherDigest
      BY <1>1 DEF Embedded
    <2>2. \A m : Digest(m) # OtherDigest
      BY DEF Digest, OtherDigest
    <2>3. Positions(doc, "self_hash") = {}
      BY <1>1 DEF Has
    <2>4. ~Overlooked(doc)
      BY <2>3 DEF Overlooked
    <2>5. ~Sealed(doc)
      BY <2>3 DEF Sealed, SelfHashIsLast, Positions
    <2> QED
      BY <2>1, <2>2, <2>4, <2>5 DEF PrefixMatches, Unsealed
  <1>2. CASE Has(doc, "self_hash")
    <2> DEFINE L == LastOf(doc, "self_hash")
               n == doc[L].covers
    <2>1. /\ L \in 1 .. Len(doc) /\ doc[L].key = "self_hash"
          /\ \A j \in 1 .. Len(doc) : doc[j].key = "self_hash" => j <= L
      BY <1>2, LastOfIsPosition DEF Positions
    <2>2. Boundary(doc) = L - 1 /\ L - 1 <= Len(doc) /\ L - 1 \in 0 .. Len(doc)
      BY <1>2, <2>1 DEF Boundary
    <2>3. Embedded(doc) = IF n \in 0 .. Len(doc) THEN Digest(SubSeq(doc, 1, n)) ELSE OtherDigest
      BY <1>2 DEF Embedded
    <2> HIDE DEF L, n
    <2>4. \A k \in 0 .. Len(doc) : Len(SubSeq(doc, 1, k)) = k
      OBVIOUS
    <2>5. \A s, t : (Digest(s) = Digest(t) => s = t) /\ Digest(s) # OtherDigest
      BY DEF Digest, OtherDigest
    <2>6. PrefixMatches(doc, Boundary(doc), Embedded(doc)) <=> n = L - 1
      <3>1. Digest(SubSeq(doc, 1, L - 1)) = Embedded(doc) => n = L - 1
        BY <2>2, <2>3, <2>4, <2>5
      <3>2. n = L - 1 => Digest(SubSeq(doc, 1, L - 1)) = Embedded(doc)
        BY <2>2, <2>3
      <3> QED
        BY <2>2, <3>1, <3>2 DEF PrefixMatches
    <2>7. ~Unsealed(doc) <=> n = L - 1
      <3> DEFINE S == Positions(doc, "self_hash")
      <3>1. L \in S /\ \A j \in S : j \in 1 .. Len(doc) /\ j <= L
        BY <2>1 DEF Positions
      <3>2. n = doc[L].covers
        BY DEF n
      <3>3. ASSUME n = L - 1
            PROVE  ~Unsealed(doc)
        <4>1. CASE L < Len(doc) \/ Repeated(doc, "self_hash")
          BY <3>1, <3>2, <3>3, <4>1 DEF Unsealed, Overlooked
        <4>2. CASE L = Len(doc) /\ ~Repeated(doc, "self_hash")
          <5>1. L = Len(doc)
            BY <4>2
          <5>2. doc[Len(doc)].covers = Len(doc) - 1
            BY <3>2, <3>3, <5>1, Zenon
          <5>3. Len(doc) > 0
            BY <2>1
          <5>4. doc[Len(doc)].key = "self_hash"
            BY <2>1, <5>1, Zenon
          <5> QED
            BY <4>2, <5>2, <5>3, <5>4 DEF Unsealed, Sealed, SelfHashIsLast
        <4> QED
          BY <2>1, <4>1, <4>2
      <3>4. ASSUME Sealed(doc)
            PROVE  n = L - 1
        <4>1. Len(doc) \in S /\ doc[Len(doc)].covers = Len(doc) - 1
          BY <3>4 DEF Sealed, SelfHashIsLast, Positions
        <4>2. L = Len(doc)
          BY <3>1, <4>1
        <4> QED
          BY <3>2, <4>1, <4>2
      <3>5. ASSUME Overlooked(doc)
            PROVE  n = L - 1
        <4>1. PICK i \in S : doc[i].covers = i - 1 /\ \A j \in S : j <= i
          BY <3>5 DEF Overlooked
        <4>2. i = L
          BY <3>1, <4>1
        <4> QED
          BY <3>2, <4>1, <4>2
      <3> QED
        BY <3>3, <3>4, <3>5 DEF Unsealed
    <2> QED
      BY <2>6, <2>7
  <1> QED
    BY <1>1, <1>2

LEMMA GatesSeeShapes ==
  ASSUME NEW doc \in Seq(PlanMember), ~Torn(doc)
  PROVE  HeadersOK(doc) /\ PageHashesOK(doc) <=> ~Malformed(doc)
  <1> DEFINE AllPagesOK(d) == \A n \in 1 .. Len(d.pages) : d.pages[n] = "canonical"
             Every(P(_)) == \A k \in Positions(doc, "divergences") :
                              \A i \in 1 .. Len(doc[k].divs) : P(doc[k].divs[i])
  <1>1. HeadersOK(doc) <=> Every(ShapeOK)
    BY DEF HeadersOK
  <1>2. PageHashesOK(doc) <=> Every(AllPagesOK)
    <2>1. ASSUME PageHashesOK(doc), NEW k \in Positions(doc, "divergences"),
                 NEW i \in 1 .. Len(doc[k].divs)
          PROVE  AllPagesOK(doc[k].divs[i])
      <3> DEFINE d == doc[k].divs[i]
                 a == [index |-> i, pages |-> d.pages]
      <3>1. CASE d.pages = <<>>
        BY <3>1
      <3>2. CASE d.pages # <<>>
        <4>1. a \in PageArrays(doc)
          BY <3>2, PageArraysAre
        <4>2. a.pages = d.pages
          OBVIOUS
        <4> QED
          BY <2>1, <4>1, <4>2 DEF PageHashesOK
      <3> QED
        BY <3>1, <3>2
    <2>2. ASSUME Every(AllPagesOK), NEW a \in PageArrays(doc), NEW n \in 1 .. Len(a.pages)
          PROVE  a.pages[n] = "canonical"
      <3>1. PICK k \in Positions(doc, "divergences") : \E i \in 1 .. Len(doc[k].divs) :
              /\ doc[k].divs[i].pages # <<>>
              /\ a = [index |-> i, pages |-> doc[k].divs[i].pages]
        BY PageArraysAre
      <3>2. PICK i \in 1 .. Len(doc[k].divs) :
              a = [index |-> i, pages |-> doc[k].divs[i].pages]
        BY <3>1
      <3>3. a.pages = doc[k].divs[i].pages
        BY <3>2
      <3> QED
        BY <2>2, <3>3
    <2> QED
      BY <2>1, <2>2 DEF PageHashesOK
  <1>3. \A d : ShapeOK(d) /\ AllPagesOK(d) <=> ~Misshapen(d)
    BY DEF ShapeOK, Misshapen
  <1> QED
    BY <1>1, <1>2, <1>3 DEF Malformed
-----------------------------------------------------------------------------
(* What each place in apply.Run says of the plan, as long as it stays the  *)
(* same: every refusal before it has let the plan through.                 *)
Places == {"version", "locate", "hash", "headers", "pages", "freshness", "staging", "scan", "feed"}
Past(where) == pc \in where \/ exit \in {Applying, Panic}

(* The verdict on a plan that is not applied, defect by defect.            *)
Refused ==
  \/ exit = GenericError /\ Unversioned(file)
  \/ /\ ~Unversioned(file)
     /\ \/ exit = Unrecognized /\ Value(file, "format_version") # "2"
        \/ /\ Value(file, "format_version") = "2"
           /\ \/ exit = Tampered /\ Unsealed(file)
              \/ /\ ~Unsealed(file)
                 /\ \/ exit = GenericError /\ Malformed(file)
                    \/ /\ ~Malformed(file)
                       /\ \/ exit = Superseded /\ SupersededBy(file, served)
                          \/ /\ ~SupersededBy(file, served)
                             /\ exit = GenericError /\ Value(file, "pocketdb_path") = ""

PassedInv ==
  /\ Past(Places \ {"version"}) =>
       ~Unversioned(file) /\ Value(file, "format_version") = "2" /\ hdr = Header(file)
  /\ Past(Places \ {"version", "locate"}) =>
       located = [boundary |-> Boundary(file), embedded |-> Embedded(file)]
  /\ Past({"headers", "pages", "freshness", "staging", "scan", "feed"}) =>
       PrefixMatches(file, Boundary(file), Embedded(file))
  /\ Past({"pages", "freshness", "staging", "scan", "feed"}) =>
       HeadersOK(file) /\ headers = Headers(file)
  /\ Past({"freshness", "staging", "scan", "feed"}) => PageHashesOK(file)
  /\ Past({"staging", "scan", "feed"}) => ~SupersededBy(file, served)
  /\ Past({"scan", "feed"}) => hdr.path # "" /\ stamp = hdr.self
  /\ pc = "feed" => \A a \in PageArrays(file) : InRange(a)
EndInv ==
  /\ pc = "ended" => exit \in {Applying, Panic} \/ Refused
  /\ pc # "ended" => exit = Running
  /\ exit = Panic => Repeated(file, "divergences")
GInv == TypeOK /\ (swaps = 0 => PassedInv /\ EndInv)

LEMMA FileTyped ==
  ASSUME TypeOK
  PROVE  file \in Seq(PlanMember)
  BY GateAssumption DEF TypeOK

LEMMA RefusedByFirst ==
  ASSUME Refused
  PROVE  \E n \in 1 .. 6 : /\ exit = Defects(file)[n].code
                           /\ Defects(file)[n].here
                           /\ \A m \in 1 .. n - 1 : ~Defects(file)[m].here
  <1> DEFINE c(n) == Defects(file)[n].code
             h(n) == Defects(file)[n].here
             First(n) == exit = c(n) /\ h(n) /\ \A m \in 1 .. n - 1 : ~h(m)
  <1>1. /\ h(1) <=> Unversioned(file)
        /\ h(2) <=> Value(file, "format_version") # "2"
        /\ h(3) <=> Unsealed(file)
        /\ h(4) <=> Malformed(file)
        /\ h(5) <=> SupersededBy(file, served)
        /\ h(6) <=> Value(file, "pocketdb_path") = ""
    BY DefectsAre
  <1>2. /\ c(1) = GenericError /\ c(2) = Unrecognized /\ c(3) = Tampered
        /\ c(4) = GenericError /\ c(5) = Superseded /\ c(6) = GenericError
    BY CodesAre
  <1> HIDE DEF c, h
  <1>3. /\ \A m \in 1 .. 1 - 1 : ~h(m)
        /\ ~h(1) => \A m \in 1 .. 2 - 1 : ~h(m)
        /\ ~h(1) /\ ~h(2) => \A m \in 1 .. 3 - 1 : ~h(m)
        /\ ~h(1) /\ ~h(2) /\ ~h(3) => \A m \in 1 .. 4 - 1 : ~h(m)
        /\ ~h(1) /\ ~h(2) /\ ~h(3) /\ ~h(4) => \A m \in 1 .. 5 - 1 : ~h(m)
        /\ ~h(1) /\ ~h(2) /\ ~h(3) /\ ~h(4) /\ ~h(5) => \A m \in 1 .. 6 - 1 : ~h(m)
    <2>1. /\ 1 .. 1 - 1 = {} /\ 1 .. 2 - 1 = {1} /\ 1 .. 3 - 1 = {1, 2}
          /\ 1 .. 4 - 1 = {1, 2, 3} /\ 1 .. 5 - 1 = {1, 2, 3, 4} /\ 1 .. 6 - 1 = {1, 2, 3, 4, 5}
      OBVIOUS
    <2> QED
      BY <2>1, Zenon
  <1>4. First(1) \/ First(2) \/ First(3) \/ First(4) \/ First(5) \/ First(6)
    BY <1>1, <1>2, <1>3, Zenon DEF Refused
  <1> QED
    <2>1. 1 \in 1 .. 6 /\ 2 \in 1 .. 6 /\ 3 \in 1 .. 6 /\ 4 \in 1 .. 6 /\ 5 \in 1 .. 6 /\ 6 \in 1 .. 6
      OBVIOUS
    <2>2. \E n \in 1 .. 6 : First(n)
      <3> HIDE DEF First
      <3> QED
        BY <1>4, <2>1, Zenon
    <2> QED
      BY <2>2 DEF c, h

(* Every page array of a plan with one divergences member is within the    *)
(* headers taken from it.                                                  *)
LEMMA ArraysInRange ==
  ASSUME NEW doc \in Seq(PlanMember), ~Repeated(doc, "divergences"),
         headers = Headers(doc), NEW a \in PageArrays(doc)
  PROVE  InRange(a)
  <1>1. PICK k \in Positions(doc, "divergences") : \E i \in 1 .. Len(doc[k].divs) :
          /\ doc[k].divs[i].pages # <<>>
          /\ a = [index |-> i, pages |-> doc[k].divs[i].pages]
    BY PageArraysAre
  <1>2. PICK i \in 1 .. Len(doc[k].divs) : a = [index |-> i, pages |-> doc[k].divs[i].pages]
    BY <1>1
  <1>3. Positions(doc, "divergences") = {k}
    BY <1>1 DEF Repeated
  <1>4. Headers(doc) = doc[k].divs
    BY <1>3, ValueOfOne DEF Headers
  <1> QED
    BY <1>2, <1>4 DEF InRange

LEMMA GInit == Init => GInv
  <1> SUFFICES ASSUME Init PROVE GInv
    OBVIOUS
  <1>1. TypeOK
    BY GateAssumption DEF Init, TypeOK, PCs
  <1>2. PassedInv /\ EndInv
    BY DEF Init, PassedInv, EndInv, Past, Places, Running, Applying, Panic
  <1> QED
    BY <1>1, <1>2 DEF GInv

LEMMA GTypes == TypeOK /\ [Next]_vars => TypeOK'
  <1> SUFFICES ASSUME TypeOK, [Next]_vars PROVE TypeOK'
    OBVIOUS
  <1> USE DEF TypeOK, Environment, reading, Refuse, Proceed, PCs, Running, Applying, Panic,
              GenericError, Unrecognized, Superseded, Tampered
  <1>1. CASE VersionGate
    BY <1>1 DEF VersionGate
  <1>2. CASE LocateSelfHash
    <2>1. Boundary(file) \in Nat
      <3>1. Len(file) \in Nat
        BY FileTyped
      <3>2. Has(file, "self_hash") => LastOf(file, "self_hash") \in 1 .. Len(file)
        BY <3>1, LastOfIsPosition DEF Positions
      <3> QED
        BY <3>1, <3>2 DEF Boundary
    <2> QED
      BY <1>2, <2>1 DEF LocateSelfHash
  <1>3. CASE SelfHashGate
    BY <1>3 DEF SelfHashGate
  <1>4. CASE ShapeGate
    BY <1>4 DEF ShapeGate
  <1>5. CASE PageHashGate
    BY <1>5 DEF PageHashGate
  <1>6. CASE FreshnessGate
    <2>1. /\ pc = "freshness"
          /\ \/ pc' = "staging" /\ exit' = exit
             \/ pc' = "ended" /\ exit' = Superseded
      BY <1>6 DEF FreshnessGate
    <2>2. file' = file /\ served' = served /\ swaps' = swaps /\ located' = located
      BY <1>6 DEF FreshnessGate
    <2> QED
      BY <2>1, <2>2
  <1>7. CASE CreateStaging
    <2>1. /\ pc = "staging"
          /\ \/ pc' = "scan" /\ exit' = exit
             \/ pc' = "ended" /\ exit' = GenericError
      BY <1>7 DEF CreateStaging
    <2>2. file' = file /\ served' = served /\ swaps' = swaps /\ located' = located
      BY <1>7 DEF CreateStaging
    <2> QED
      BY <2>1, <2>2
  <1>8. CASE Scan
    BY <1>8 DEF Scan
  <1>9. CASE FeedTasks
    BY <1>9 DEF FeedTasks
  <1>10. CASE SwapPlan
    BY <1>10, GateAssumption DEF SwapPlan
  <1>11. CASE UNCHANGED vars
    BY <1>11 DEF vars
  <1> QED
    BY <1>1, <1>2, <1>3, <1>4, <1>5, <1>6, <1>7, <1>8, <1>9, <1>10, <1>11
       DEF Next, Acquire, Gates, Ended

(* A refusal with a code needs only its place in the list of defects.      *)
LEMMA Refusing ==
  ASSUME EndInv, UNCHANGED <<file, served>>, pc' = "ended",
         exit' \in {GenericError, Unrecognized, Superseded, Tampered}, Refused'
  PROVE  PassedInv' /\ EndInv'
  <1>1. exit' # Applying /\ exit' # Panic /\ exit' # Running
    BY DEF GenericError, Unrecognized, Superseded, Tampered, Applying, Panic, Running
  <1>2. PassedInv'
    BY <1>1 DEF PassedInv, Past, Places
  <1>3. EndInv'
    BY <1>1 DEF EndInv
  <1> QED
    BY <1>2, <1>3

(* A gate that lets the plan through keeps what the gates before it found. *)
LEMMA Proceeding ==
  ASSUME TypeOK, EndInv, UNCHANGED <<file, served, exit>>, pc # "ended", pc' # "ended"
  PROVE  EndInv' /\ exit' \notin {Applying, Panic}
  <1>1. exit = Running
    BY DEF EndInv
  <1>2. exit' # Applying /\ exit' # Panic
    BY <1>1 DEF Running, Applying, Panic
  <1> QED
    BY <1>1, <1>2 DEF EndInv

LEMMA GVersion == TypeOK /\ PassedInv /\ EndInv /\ VersionGate => PassedInv' /\ EndInv'
  <1> SUFFICES ASSUME TypeOK, PassedInv, EndInv, VersionGate PROVE PassedInv' /\ EndInv'
    OBVIOUS
  <1> USE DEF Refuse, Proceed
  <1>1. pc = "version" /\ UNCHANGED <<file, served>>
    BY DEF VersionGate, Environment
  <1>2. Readable(file) <=> ~Unversioned(file)
    BY FileTyped, ReadableIsVersioned
  <1>3. Header(file).version = Value(file, "format_version")
    BY DEF Header
  <1>4. CASE ~Readable(file)
    <2>1. pc' = "ended" /\ exit' = GenericError
      BY <1>4 DEF VersionGate
    <2>2. Refused'
      BY <1>1, <1>2, <1>4, <2>1 DEF Refused
    <2> QED
      BY <1>1, <2>1, <2>2, Refusing
  <1>5. CASE Readable(file) /\ Header(file).version # FormatVersion
    <2>1. pc' = "ended" /\ exit' = Unrecognized
      BY <1>5 DEF VersionGate
    <2>2. Refused'
      BY <1>1, <1>2, <1>3, <1>5, <2>1 DEF Refused, FormatVersion
    <2> QED
      BY <1>1, <2>1, <2>2, Refusing
  <1>6. CASE Readable(file) /\ Header(file).version = FormatVersion
    <2>1. pc' = "locate" /\ exit' = exit /\ hdr' = Header(file)
      BY <1>6 DEF VersionGate
    <2>2. EndInv' /\ exit' \notin {Applying, Panic}
      BY <1>1, <2>1, Proceeding
    <2>3. PassedInv'
      BY <1>1, <1>2, <1>3, <1>6, <2>1, <2>2 DEF PassedInv, Past, Places, FormatVersion
    <2> QED
      BY <2>2, <2>3
  <1> QED
    BY <1>4, <1>5, <1>6

LEMMA GLocate == TypeOK /\ PassedInv /\ EndInv /\ LocateSelfHash => PassedInv' /\ EndInv'
  <1> SUFFICES ASSUME TypeOK, PassedInv, EndInv, LocateSelfHash PROVE PassedInv' /\ EndInv'
    OBVIOUS
  <1>1. /\ pc = "locate" /\ UNCHANGED <<file, served, hdr>>
        /\ located' = [boundary |-> Boundary(file), embedded |-> Embedded(file)]
    BY DEF LocateSelfHash, Environment
  <1>2. ~Unversioned(file) /\ Value(file, "format_version") = "2" /\ hdr = Header(file)
    BY <1>1 DEF PassedInv, Past, Places
  <1>3. ~Torn(file)
    BY <1>2 DEF Unversioned
  <1>4. pc' = "hash" /\ exit' = exit
    BY <1>3 DEF LocateSelfHash, Proceed
  <1>5. EndInv' /\ exit' \notin {Applying, Panic}
    BY <1>1, <1>4, Proceeding
  <1>6. PassedInv'
    BY <1>1, <1>2, <1>4, <1>5 DEF PassedInv, Past, Places
  <1> QED
    BY <1>5, <1>6

LEMMA GHash == TypeOK /\ PassedInv /\ EndInv /\ SelfHashGate => PassedInv' /\ EndInv'
  <1> SUFFICES ASSUME TypeOK, PassedInv, EndInv, SelfHashGate PROVE PassedInv' /\ EndInv'
    OBVIOUS
  <1>1. pc = "hash" /\ UNCHANGED <<file, served, hdr, located>>
    BY DEF SelfHashGate, Environment, reading
  <1>2. /\ ~Unversioned(file) /\ Value(file, "format_version") = "2" /\ hdr = Header(file)
        /\ located = [boundary |-> Boundary(file), embedded |-> Embedded(file)]
    BY <1>1 DEF PassedInv, Past, Places
  <1>3. located.boundary = Boundary(file) /\ located.embedded = Embedded(file)
    BY <1>2
  <1>4. PrefixMatches(file, Boundary(file), Embedded(file)) <=> ~Unsealed(file)
    BY FileTyped, PrefixIsSealed
  <1>5. CASE Unsealed(file)
    <2>1. pc' = "ended" /\ exit' = Tampered
      BY <1>3, <1>4, <1>5 DEF SelfHashGate, Refuse
    <2>2. Refused'
      BY <1>1, <1>2, <1>5, <2>1 DEF Refused
    <2> QED
      BY <1>1, <2>1, <2>2, Refusing
  <1>6. CASE ~Unsealed(file)
    <2>1. pc' = "headers" /\ exit' = exit
      BY <1>3, <1>4, <1>6 DEF SelfHashGate, Proceed
    <2>2. EndInv' /\ exit' \notin {Applying, Panic}
      BY <1>1, <2>1, Proceeding
    <2>3. PassedInv'
      BY <1>1, <1>2, <1>4, <1>6, <2>1, <2>2 DEF PassedInv, Past, Places
    <2> QED
      BY <2>2, <2>3
  <1> QED
    BY <1>5, <1>6

(* What the places after the self-hash gate have in common.                *)
LEMMA PastTheSeal ==
  ASSUME TypeOK, PassedInv, pc \in {"headers", "pages", "freshness", "staging", "scan", "feed"}
  PROVE  /\ ~Unversioned(file) /\ Value(file, "format_version") = "2" /\ ~Torn(file)
         /\ hdr = Header(file)
         /\ located = [boundary |-> Boundary(file), embedded |-> Embedded(file)]
         /\ PrefixMatches(file, Boundary(file), Embedded(file)) /\ ~Unsealed(file)
         /\ HeadersOK(file) /\ PageHashesOK(file) <=> ~Malformed(file)
  <1>1. /\ ~Unversioned(file) /\ Value(file, "format_version") = "2" /\ hdr = Header(file)
        /\ located = [boundary |-> Boundary(file), embedded |-> Embedded(file)]
        /\ PrefixMatches(file, Boundary(file), Embedded(file))
    BY DEF PassedInv, Past, Places
  <1>2. ~Torn(file)
    BY <1>1 DEF Unversioned
  <1>3. HeadersOK(file) /\ PageHashesOK(file) <=> ~Malformed(file)
    BY <1>2, FileTyped, GatesSeeShapes
  <1> QED
    BY <1>1, <1>2, <1>3, FileTyped, PrefixIsSealed

LEMMA GShape == TypeOK /\ PassedInv /\ EndInv /\ ShapeGate => PassedInv' /\ EndInv'
  <1> SUFFICES ASSUME TypeOK, PassedInv, EndInv, ShapeGate PROVE PassedInv' /\ EndInv'
    OBVIOUS
  <1>1. pc = "headers" /\ UNCHANGED <<file, served, hdr, located>>
    BY DEF ShapeGate, Environment
  <1>2. /\ ~Unversioned(file) /\ Value(file, "format_version") = "2" /\ hdr = Header(file)
        /\ located = [boundary |-> Boundary(file), embedded |-> Embedded(file)]
        /\ PrefixMatches(file, Boundary(file), Embedded(file)) /\ ~Unsealed(file)
        /\ HeadersOK(file) /\ PageHashesOK(file) <=> ~Malformed(file)
    BY <1>1, PastTheSeal
  <1>3. CASE HeadersOK(file)
    <2>1. pc' = "pages" /\ exit' = exit /\ headers' = Headers(file)
      BY <1>3 DEF ShapeGate, Proceed
    <2>2. EndInv' /\ exit' \notin {Applying, Panic}
      BY <1>1, <2>1, Proceeding
    <2>3. PassedInv'
      BY <1>1, <1>2, <1>3, <2>1, <2>2 DEF PassedInv, Past, Places
    <2> QED
      BY <2>2, <2>3
  <1>4. CASE ~HeadersOK(file)
    <2>1. pc' = "ended" /\ exit' = GenericError
      BY <1>4 DEF ShapeGate, Refuse
    <2>2. Refused'
      BY <1>1, <1>2, <1>4, <2>1 DEF Refused
    <2> QED
      BY <1>1, <2>1, <2>2, Refusing
  <1> QED
    BY <1>3, <1>4

LEMMA GPages == TypeOK /\ PassedInv /\ EndInv /\ PageHashGate => PassedInv' /\ EndInv'
  <1> SUFFICES ASSUME TypeOK, PassedInv, EndInv, PageHashGate PROVE PassedInv' /\ EndInv'
    OBVIOUS
  <1>1. pc = "pages" /\ UNCHANGED <<file, served, hdr, located, headers>>
    BY DEF PageHashGate, Environment, reading
  <1>2. /\ ~Unversioned(file) /\ Value(file, "format_version") = "2" /\ hdr = Header(file)
        /\ located = [boundary |-> Boundary(file), embedded |-> Embedded(file)]
        /\ PrefixMatches(file, Boundary(file), Embedded(file)) /\ ~Unsealed(file)
        /\ HeadersOK(file) /\ PageHashesOK(file) <=> ~Malformed(file)
    BY <1>1, PastTheSeal
  <1>3. HeadersOK(file) /\ headers = Headers(file)
    BY <1>1 DEF PassedInv, Past
  <1>4. CASE PageHashesOK(file)
    <2>1. pc' = "freshness" /\ exit' = exit
      BY <1>4 DEF PageHashGate, Proceed
    <2>2. EndInv' /\ exit' \notin {Applying, Panic}
      BY <1>1, <2>1, Proceeding
    <2>3. PassedInv'
      BY <1>1, <1>2, <1>3, <1>4, <2>1, <2>2 DEF PassedInv, Past, Places
    <2> QED
      BY <2>2, <2>3
  <1>5. CASE ~PageHashesOK(file)
    <2>1. pc' = "ended" /\ exit' = GenericError
      BY <1>5 DEF PageHashGate, Refuse
    <2>2. Refused'
      BY <1>1, <1>2, <1>5, <2>1 DEF Refused
    <2> QED
      BY <1>1, <2>1, <2>2, Refusing
  <1> QED
    BY <1>4, <1>5

(* What the places after the gates on the plan's content have in common.   *)
LEMMA PastTheShape ==
  ASSUME TypeOK, PassedInv, pc \in {"freshness", "staging", "scan", "feed"}
  PROVE  /\ headers = Headers(file)
         /\ HeadersOK(file) /\ PageHashesOK(file) /\ ~Malformed(file)
  <1>1. headers = Headers(file) /\ HeadersOK(file) /\ PageHashesOK(file)
    BY DEF PassedInv, Past
  <1> QED
    BY <1>1, PastTheSeal

LEMMA GFreshness == TypeOK /\ PassedInv /\ EndInv /\ FreshnessGate => PassedInv' /\ EndInv'
  <1> SUFFICES ASSUME TypeOK, PassedInv, EndInv, FreshnessGate PROVE PassedInv' /\ EndInv'
    OBVIOUS
  <1>1. pc = "freshness" /\ UNCHANGED <<file, served, hdr, located, headers>>
    BY DEF FreshnessGate, Environment, reading
  <1>2. /\ ~Unversioned(file) /\ Value(file, "format_version") = "2" /\ hdr = Header(file)
        /\ located = [boundary |-> Boundary(file), embedded |-> Embedded(file)]
        /\ PrefixMatches(file, Boundary(file), Embedded(file)) /\ ~Unsealed(file)
    BY <1>1, PastTheSeal
  <1>3. headers = Headers(file) /\ HeadersOK(file) /\ PageHashesOK(file) /\ ~Malformed(file)
    BY <1>1, PastTheShape
  <1>4. /\ hdr.url = Value(file, "manifest_url")
        /\ hdr.identity = Value(file, "canonical_identity")
    BY <1>2 DEF Header
  <1>5. CASE SupersededBy(file, served)
    <2>1. pc' = "ended" /\ exit' = Superseded
      BY <1>4, <1>5 DEF FreshnessGate, Refuse, SupersededBy
    <2>2. Refused'
      BY <1>1, <1>2, <1>3, <1>5, <2>1 DEF Refused
    <2> QED
      BY <1>1, <2>1, <2>2, Refusing
  <1>6. CASE ~SupersededBy(file, served)
    <2>1. pc' = "staging" /\ exit' = exit
      BY <1>4, <1>6 DEF FreshnessGate, Proceed, SupersededBy
    <2>2. EndInv' /\ exit' \notin {Applying, Panic}
      BY <1>1, <2>1, Proceeding
    <2>3. PassedInv'
      BY <1>1, <1>2, <1>3, <1>6, <2>1, <2>2 DEF PassedInv, Past, Places
    <2> QED
      BY <2>2, <2>3
  <1> QED
    BY <1>5, <1>6

LEMMA GStaging == TypeOK /\ PassedInv /\ EndInv /\ CreateStaging => PassedInv' /\ EndInv'
  <1> SUFFICES ASSUME TypeOK, PassedInv, EndInv, CreateStaging PROVE PassedInv' /\ EndInv'
    OBVIOUS
  <1>1. pc = "staging" /\ UNCHANGED <<file, served, hdr, located, headers>>
    BY DEF CreateStaging, Environment, reading
  <1>2. /\ ~Unversioned(file) /\ Value(file, "format_version") = "2" /\ hdr = Header(file)
        /\ located = [boundary |-> Boundary(file), embedded |-> Embedded(file)]
        /\ PrefixMatches(file, Boundary(file), Embedded(file)) /\ ~Unsealed(file)
    BY <1>1, PastTheSeal
  <1>3. headers = Headers(file) /\ HeadersOK(file) /\ PageHashesOK(file) /\ ~Malformed(file)
    BY <1>1, PastTheShape
  <1>4. ~SupersededBy(file, served)
    BY <1>1 DEF PassedInv, Past
  <1>5. hdr.path = Value(file, "pocketdb_path")
    BY <1>2 DEF Header
  <1>6. CASE hdr.path = ""
    <2>1. pc' = "ended" /\ exit' = GenericError
      BY <1>6 DEF CreateStaging, Refuse
    <2>2. Refused'
      BY <1>1, <1>2, <1>3, <1>4, <1>5, <1>6, <2>1 DEF Refused
    <2> QED
      BY <1>1, <2>1, <2>2, Refusing
  <1>7. CASE hdr.path # ""
    <2>1. pc' = "scan" /\ exit' = exit /\ stamp' = hdr.self
      BY <1>7 DEF CreateStaging, Proceed
    <2>2. EndInv' /\ exit' \notin {Applying, Panic}
      BY <1>1, <2>1, Proceeding
    <2>3. PassedInv'
      BY <1>1, <1>2, <1>3, <1>4, <1>7, <2>1, <2>2 DEF PassedInv, Past, Places
    <2> QED
      BY <2>2, <2>3
  <1> QED
    BY <1>6, <1>7

LEMMA GScan == TypeOK /\ PassedInv /\ EndInv /\ Scan => PassedInv' /\ EndInv'
  <1> SUFFICES ASSUME TypeOK, PassedInv, EndInv, Scan PROVE PassedInv' /\ EndInv'
    OBVIOUS
  <1>1. pc = "scan" /\ UNCHANGED <<file, served, hdr, located, headers, stamp>>
    BY DEF Scan, Environment, reading
  <1>2. /\ ~Unversioned(file) /\ Value(file, "format_version") = "2" /\ ~Torn(file)
        /\ hdr = Header(file)
        /\ located = [boundary |-> Boundary(file), embedded |-> Embedded(file)]
        /\ PrefixMatches(file, Boundary(file), Embedded(file)) /\ ~Unsealed(file)
    BY <1>1, PastTheSeal
  <1>3. headers = Headers(file) /\ HeadersOK(file) /\ PageHashesOK(file) /\ ~Malformed(file)
    BY <1>1, PastTheShape
  <1>4. ~SupersededBy(file, served) /\ hdr.path # "" /\ stamp = hdr.self
    BY <1>1 DEF PassedInv, Past
  <1>5. CASE \A a \in PageArrays(file) : InRange(a)
    <2>1. pc' = "feed" /\ exit' = exit
      BY <1>2, <1>5 DEF Scan, Proceed
    <2>2. EndInv' /\ exit' \notin {Applying, Panic}
      BY <1>1, <2>1, Proceeding
    <2>3. \A a \in PageArrays(file') : InRange(a)'
      BY <1>1, <1>5 DEF InRange
    <2>4. PassedInv'
      BY <1>1, <1>2, <1>3, <1>4, <2>1, <2>2, <2>3 DEF PassedInv, Past, Places
    <2> QED
      BY <2>2, <2>4
  <1>6. CASE \E a \in PageArrays(file) : ~InRange(a)
    <2>1. pc' = "ended" /\ exit' = Panic
      BY <1>6 DEF Scan, Refuse
    <2>2. Repeated(file, "divergences")
      BY <1>3, <1>6, FileTyped, ArraysInRange
    <2>3. PassedInv'
      BY <1>1, <1>2, <1>3, <1>4, <2>1 DEF PassedInv
    <2>4. EndInv'
      BY <1>1, <2>1, <2>2 DEF EndInv, Panic, Applying, Running
    <2> QED
      BY <2>3, <2>4
  <1> QED
    BY <1>5, <1>6

LEMMA GFeed == TypeOK /\ PassedInv /\ EndInv /\ FeedTasks => PassedInv' /\ EndInv'
  <1> SUFFICES ASSUME TypeOK, PassedInv, EndInv, FeedTasks PROVE PassedInv' /\ EndInv'
    OBVIOUS
  <1>1. pc = "feed" /\ UNCHANGED <<file, served, hdr, located, headers, stamp>>
    BY DEF FeedTasks, Environment, reading
  <1>2. /\ ~Unversioned(file) /\ Value(file, "format_version") = "2" /\ hdr = Header(file)
        /\ located = [boundary |-> Boundary(file), embedded |-> Embedded(file)]
        /\ PrefixMatches(file, Boundary(file), Embedded(file)) /\ ~Unsealed(file)
    BY <1>1, PastTheSeal
  <1>3. headers = Headers(file) /\ HeadersOK(file) /\ PageHashesOK(file) /\ ~Malformed(file)
    BY <1>1, PastTheShape
  <1>4. /\ ~SupersededBy(file, served) /\ hdr.path # "" /\ stamp = hdr.self
        /\ \A a \in PageArrays(file) : InRange(a)
    BY <1>1 DEF PassedInv, Past
  <1>5. \A a \in PageArrays(file) : Sliceable(a)
    <2>1. "canonical" # ""
      OBVIOUS
    <2> QED
      BY <1>3, <2>1 DEF PageHashesOK, Sliceable
  <1>6. pc' = "ended" /\ exit' = Applying
    BY <1>4, <1>5 DEF FeedTasks, Refuse
  <1>7. \A a \in PageArrays(file') : InRange(a)'
    BY <1>1, <1>4 DEF InRange
  <1>8. PassedInv'
    BY <1>1, <1>2, <1>3, <1>4, <1>6, <1>7 DEF PassedInv
  <1>9. EndInv'
    BY <1>6 DEF EndInv, Applying, Panic, Running
  <1> QED
    BY <1>8, <1>9

LEMMA GNext == GInv /\ [Next]_vars => GInv'
  <1> SUFFICES ASSUME GInv, [Next]_vars PROVE GInv'
    OBVIOUS
  <1>1. TypeOK /\ (swaps = 0 => PassedInv /\ EndInv)
    BY DEF GInv
  <1>2. TypeOK'
    BY <1>1, GTypes
  <1>3. SUFFICES ASSUME swaps' = 0 PROVE PassedInv' /\ EndInv'
    BY <1>2 DEF GInv
  <1>4. CASE Acquire
    <2>1. swaps' = swaps
      BY <1>4 DEF Acquire, Gates, VersionGate, LocateSelfHash, SelfHashGate, ShapeGate, PageHashGate,
         FreshnessGate, CreateStaging, Scan, FeedTasks, Environment
    <2>2. PassedInv /\ EndInv
      BY <1>1, <1>3, <2>1
    <2> QED
      BY <1>1, <1>4, <2>2, GVersion, GLocate, GHash, GShape, GPages, GFreshness, GStaging, GScan, GFeed
         DEF Acquire, Gates
  <1>5. CASE SwapPlan
    <2>1. swaps \in Nat /\ swaps' = swaps + 1
      BY <1>1, <1>5, GateAssumption DEF SwapPlan, TypeOK
    <2> QED
      BY <1>3, <2>1
  <1>6. CASE UNCHANGED vars
    <2>1. /\ UNCHANGED <<file, served, pc, hdr, located, headers, stamp, exit, swaps>>
          /\ PassedInv /\ EndInv
      BY <1>1, <1>3, <1>6 DEF vars, reading
    <2>2. PassedInv'
      BY <2>1 DEF PassedInv, Past, InRange
    <2>3. EndInv'
      BY <2>1 DEF EndInv, Refused
    <2> QED
      BY <2>2, <2>3
  <1> QED
    BY <1>4, <1>5, <1>6 DEF Next, Ended
-----------------------------------------------------------------------------
(* No sequence of gates and renames takes the acquisition out of its       *)
(* states; in particular a boundary found is a number of members, and a    *)
(* code is returned exactly at the end.                                    *)
THEOREM GateTypes == Spec => []TypeOK
  BY GInit, GNext, PTL DEF Spec, GInv

LEMMA GateInvariant == Spec => []GInv
  BY GInit, GNext, PTL DEF Spec

(* The precedence of apply.go: while the plan stays the same, the code     *)
(* returned is that of the first defect in the documented order, and a     *)
(* plan without one is applied, unless it repeats its divergences: then    *)
(* apply may panic instead.                                                *)
THEOREM FirstDefectDecides == Spec => []FirstDefectReported
  <1>1. GInv => FirstDefectReported
    <2> SUFFICES ASSUME GInv, exit # Running, swaps = 0
                 PROVE  \/ /\ exit = Applying \/ (exit = Panic /\ Repeated(file, "divergences"))
                           /\ \A n \in 1 .. 6 : ~Defects(file)[n].here
                        \/ \E n \in 1 .. 6 : /\ exit = Defects(file)[n].code
                                             /\ Defects(file)[n].here
                                             /\ \A m \in 1 .. n - 1 : ~Defects(file)[m].here
      BY DEF FirstDefectReported
    <2>1. TypeOK /\ PassedInv /\ EndInv /\ pc = "ended"
      BY DEF GInv, TypeOK
    <2>2. exit = Panic => Repeated(file, "divergences")
      BY <2>1 DEF EndInv
    <2>3. CASE Refused
      BY <2>3, RefusedByFirst
    <2>4. CASE exit \in {Applying, Panic}
      <3>1. /\ ~Unversioned(file) /\ Value(file, "format_version") = "2" /\ hdr = Header(file)
            /\ PrefixMatches(file, Boundary(file), Embedded(file))
            /\ HeadersOK(file) /\ PageHashesOK(file)
            /\ ~SupersededBy(file, served) /\ hdr.path # ""
        BY <2>1, <2>4 DEF PassedInv, Past
      <3>2. ~Torn(file)
        BY <3>1 DEF Unversioned
      <3>3. ~Unsealed(file) /\ ~Malformed(file)
        BY <2>1, <3>1, <3>2, FileTyped, PrefixIsSealed, GatesSeeShapes
      <3>4. Value(file, "pocketdb_path") # ""
        BY <3>1 DEF Header
      <3> DEFINE h(n) == Defects(file)[n].here
      <3>5. ~h(1) /\ ~h(2) /\ ~h(3) /\ ~h(4) /\ ~h(5) /\ ~h(6)
        BY <3>1, <3>3, <3>4, DefectsAre
      <3> HIDE DEF h
      <3>6. \A n \in 1 .. 6 : ~h(n)
        <4>1. 1 .. 6 = {1, 2, 3, 4, 5, 6}
          OBVIOUS
        <4> QED
          BY <3>5, <4>1, Zenon
      <3> QED
        BY <2>2, <2>4, <3>6 DEF h
    <2> QED
      BY <2>1, <2>3, <2>4 DEF EndInv
  <1> QED
    BY <1>1, GateInvariant, PTL

(* What is applied is what was hashed, for a plan that ends with its       *)
(* self_hash, however many divergences members it has.                     *)
THEOREM AppliedAsHashed == Spec => []CanonicalPlanIsWhatWasHashed
  <1>1. GInv => CanonicalPlanIsWhatWasHashed
    <2> SUFFICES ASSUME GInv, exit = Applying, swaps = 0, SelfHashIsLast(file)
                 PROVE  /\ headers = Headers(stamp.of)
                        /\ hdr.path = Value(stamp.of, "pocketdb_path")
                        /\ hdr.identity = Value(stamp.of, "canonical_identity")
      BY DEF CanonicalPlanIsWhatWasHashed
    <2> DEFINE front == SubSeq(file, 1, Len(file) - 1)
    <2>1. /\ hdr = Header(file) /\ headers = Headers(file) /\ stamp = hdr.self
          /\ PrefixMatches(file, Boundary(file), Embedded(file))
      BY DEF GInv, PassedInv, Past
    <2>2. /\ file \in Seq(PlanMember) /\ Len(file) \in Nat \ {0} /\ file # <<>>
          /\ file[Len(file)].key = "self_hash"
      BY FileTyped DEF GInv, SelfHashIsLast
    <2>3. Boundary(file) = Len(file) - 1
      <3>1. Len(file) \in Positions(file, "self_hash")
        BY <2>2 DEF Positions
      <3>2. LastOf(file, "self_hash") = Len(file)
        <4>1. Has(file, "self_hash")
          BY <3>1 DEF Has
        <4>2. /\ LastOf(file, "self_hash") \in 1 .. Len(file)
              /\ Len(file) <= LastOf(file, "self_hash")
          BY <2>2, <3>1, <4>1, LastOfIsPosition DEF Positions
        <4> QED
          BY <2>2, <4>2
      <3> QED
        BY <3>1, <3>2 DEF Boundary, Has
    <2>4. stamp.of = front
      <3>1. stamp = Digest(front)
        BY <2>1, <2>3 DEF PrefixMatches, Header
      <3> QED
        BY <3>1 DEF Digest
    <2>5. /\ Headers(front) = Headers(file)
          /\ Value(front, "pocketdb_path") = Value(file, "pocketdb_path")
          /\ Value(front, "canonical_identity") = Value(file, "canonical_identity")
      BY <2>2, ButLast
    <2>6. /\ hdr.path = Value(file, "pocketdb_path")
          /\ hdr.identity = Value(file, "canonical_identity")
      BY <2>1 DEF Header
    <2> QED
      BY <2>1, <2>4, <2>5, <2>6
  <1> QED
    BY <1>1, GateInvariant, PTL
=============================================================================
