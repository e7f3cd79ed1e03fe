------------------------------ MODULE PlanDoc ------------------------------
(***************************************************************************)
(* The streaming reader of plan.json (internal/plan/stream.go), as the     *)
(* pure functions apply computes from one reading of the file.             *)
(*                                                                         *)
(* A document is the sequence of the members of the top-level object, in   *)
(* file order, with everything a JSON writer may do to them: members       *)
(* missing, repeated, out of order, unknown, or cut off in the middle      *)
(* ("torn").  A self_hash value is the digest of the first `covers`        *)
(* members of the document that carries it, or of something else (covers = *)
(* Other); digests of different sequences differ.                          *)
(***************************************************************************)
EXTENDS Integers, Sequences

Keys == {"canonical_identity", "divergences", "format_version", "manifest_url",
         "pocketdb_path", "self_hash", "unknown", "torn"}
Hashes == {"", "canonical", "malformed"}
Other == -1
FormatVersion == "2"

(* divergences[i]; pages lists the hashes of its pages in offset order.    *)
Divergence == [kind : {"sqlite_pages", "whole_file", "unknown"}, path : STRING,
               hash : Hashes, source : {"", "fetch_full"}, pages : Seq(Hashes)]
PlanMember == [key : Keys, val : STRING, covers : Int, divs : Seq(Divergence)]

Positions(doc, key) == {i \in 1 .. Len(doc) : doc[i].key = key}
Has(doc, key) == Positions(doc, key) # {}
LastOf(doc, key) == CHOOSE i \in Positions(doc, key) : \A j \in Positions(doc, key) : j <= i
Torn(doc) == Has(doc, "torn")

(* A repeated member overwrites the earlier value in the header.           *)
Value(doc, key) == IF Has(doc, key) THEN doc[LastOf(doc, key)].val ELSE ""

Digest(members) == [known |-> TRUE, of |-> members]
OtherDigest == [known |-> FALSE, of |-> <<>>]
Embedded(doc) ==
  IF ~Has(doc, "self_hash") THEN OtherDigest
  ELSE LET n == doc[LastOf(doc, "self_hash")].covers IN
       IF n \in 0 .. Len(doc) THEN Digest(SubSeq(doc, 1, n)) ELSE OtherDigest

(* Mutation of Readable: a repeated format_version is let through.         *)
ReadableOnce(doc) ==
  /\ ~Torn(doc)
  /\ \E i \in Positions(doc, "format_version") : doc[i].val \in {"1", FormatVersion}

(* GateFormatVersion: a header, unless format_version is absent, repeated  *)
(* or not an integer.                                                      *)
Readable(doc) ==
  /\ ~Torn(doc)
  /\ \E i \in Positions(doc, "format_version") :
        /\ Positions(doc, "format_version") = {i}
        /\ doc[i].val \in {"1", FormatVersion}

Header(doc) == [version  |-> Value(doc, "format_version"),
                identity |-> Value(doc, "canonical_identity"),
                url      |-> Value(doc, "manifest_url"),
                path     |-> Value(doc, "pocketdb_path"),
                self     |-> Embedded(doc)]

(* locateSelfHash: what precedes the last self_hash, or everything.        *)
Boundary(doc) ==
  IF Has(doc, "self_hash") THEN LastOf(doc, "self_hash") - 1 ELSE Len(doc)

(* Mutation of PrefixMatches: the digest is not compared.                  *)
PrefixExists(doc, boundary, embedded) == boundary <= Len(doc)

(* hashPrefix reads the file again; a file shorter than the boundary is an *)
(* error, which counts as a mismatch.                                      *)
PrefixMatches(doc, boundary, embedded) ==
  boundary <= Len(doc) /\ Digest(SubSeq(doc, 1, boundary)) = embedded

(* validateHeaderShape.                                                    *)
ShapeOK(d) ==
  \/ /\ d.kind = "sqlite_pages"
     /\ d.hash = "" /\ d.source = ""
     /\ d.pages # <<>>
  \/ /\ d.kind = "whole_file"
     /\ d.pages = <<>>
     /\ d.hash = "canonical"

(* StreamDivergenceHeaders validates every divergences member and returns  *)
(* the last.                                                               *)
HeadersOK(doc) ==
  ~Torn(doc) /\ \A k \in Positions(doc, "divergences") :
                  \A i \in 1 .. Len(doc[k].divs) : ShapeOK(doc[k].divs[i])
Headers(doc) == IF Has(doc, "divergences") THEN doc[LastOf(doc, "divergences")].divs ELSE <<>>

(* StreamSQLitePages walks every divergences member and hands each pages   *)
(* array to the caller with its index in that member.                      *)
PageArrays(doc) ==
  UNION { {[index |-> i, pages |-> doc[k].divs[i].pages] :
             i \in {n \in 1 .. Len(doc[k].divs) : doc[k].divs[n].pages # <<>>}} :
          k \in Positions(doc, "divergences") }

PageHashesOK(doc) ==
  ~Torn(doc) /\ \A a \in PageArrays(doc) : \A n \in 1 .. Len(a.pages) : a.pages[n] = "canonical"
=============================================================================
