--------------------------- MODULE ManifestReader ---------------------------
(***************************************************************************)
(* How the streaming reader of the manifest (internal/manifest/stream.go,  *)
(* pathvalidate.go) takes one entry, whose members it meets one by one:    *)
(* the callback gets an array of pages before the path they belong to is   *)
(* read, and everything else when the entry closes.                        *)
(*                                                                         *)
(* An entry is the sequence of its members, as a document is in PlanDoc:   *)
(* missing, repeated, out of order, unknown, or not decodable ("torn").    *)
(***************************************************************************)
EXTENDS PlanDoc

Main == "pocketdb/main.sqlite3"
Outside == "../outside"

EntryKeys == {"change_counter", "entry_kind", "hash", "pages", "path", "unknown", "torn"}
Page == [offset : Int, hash : STRING]
EntryMember == [key : EntryKeys, val : STRING, pages : Seq(Page)]

(* ValidateEntryPath: relative, of plain segments, none of them empty.     *)
CleanPath(path) == path \notin {"", Outside}

(* What ends the stream within an entry: a value of the wrong type, a path *)
(* that is not clean (the last one or not), pages before their kind.       *)
Undecodable(entry) ==
  \/ Torn(entry)
  \/ \E n \in Positions(entry, "path") : ~CleanPath(entry[n].val)
  \/ \E n \in Positions(entry, "pages") :
        Value(SubSeq(entry, 1, n - 1), "entry_kind") # "sqlite_pages"

(* The kind the callback is called with, at every array of pages or, when  *)
(* there is none, at the end.                                              *)
CalledAs(entry) ==
  IF Has(entry, "pages") THEN "sqlite_pages" ELSE Value(entry, "entry_kind")

(* Mutation of Attributed: the assumed path is compared if there is one.   *)
AttributedIfNamed(entry, assumed) ==
  Value(entry, "path") \in {assumed, ""}

(* The check of AssumedPath, once the entry is read.                       *)
Attributed(entry, assumed) == Value(entry, "path") = assumed
-----------------------------------------------------------------------------
(* What any reader of the whole document takes the entry for.              *)
Decoded(entry) ==
  [kind |-> Value(entry, "entry_kind"), path |-> Value(entry, "path"),
   hash |-> Value(entry, "hash"),
   pages |-> IF Has(entry, "pages") THEN entry[LastOf(entry, "pages")].pages ELSE <<>>]
NoneRepeated(entry) ==
  \A i, j \in 1 .. Len(entry) : entry[i].key = entry[j].key => i = j
=============================================================================
