--------------------------- MODULE MCPlanDefects ---------------------------
(* Plans with defects: what editing one or two members of a genuine plan   *)
(* makes of it, whether its digest is taken again or not.                  *)
EXTENDS PlanGate, SequencesExt

M(key, val) == [key |-> key, val |-> val, covers |-> 0, divs |-> <<>>]
Divs(ds) == [key |-> "divergences", val |-> "", covers |-> 0, divs |-> ds]
Self(n) == [key |-> "self_hash", val |-> "", covers |-> n, divs |-> <<>>]
Pages(path, hashes) == [kind |-> "sqlite_pages", path |-> path, hash |-> "",
                        source |-> "", pages |-> hashes]
Whole(path, hash) == [kind |-> "whole_file", path |-> path, hash |-> hash,
                      source |-> "fetch_full", pages |-> <<>>]

Canon == "canonical"
Two == Divs(<<Pages("main", <<Canon, Canon>>), Whole("index", Canon)>>)
One == Divs(<<Pages("main", <<Canon>>)>>)
WholeOnly == Divs(<<Whole("block", Canon), Whole("index", Canon)>>)
WholeFirst == Divs(<<Whole("block", Canon), Pages("main", <<Canon>>)>>)

\* A plan as diagnose writes it, for manifest A.
Plan(divs) == << M("canonical_identity", "A"), divs, M("format_version", "2"),
                 M("manifest_url", "url"), M("pocketdb_path", "p"), Self(5) >>

BadDivs == { Divs(<<Whole("index", "malformed")>>), Divs(<<Whole("index", "")>>),
             Divs(<<Pages("main", <<Canon, "malformed">>)>>), Divs(<<Pages("main", <<>>)>>),
             Divs(<<[Whole("index", Canon) EXCEPT !.kind = "unknown"]>>),
             Divs(<<[Pages("main", <<Canon>>) EXCEPT !.hash = Canon]>>),
             Divs(<<[Whole("index", Canon) EXCEPT !.pages = <<Canon>>]>>) }

Members == { M("canonical_identity", "B"), One, WholeFirst, M("format_version", "2"),
             M("format_version", "1"), M("format_version", "text"),
             M("manifest_url", ""), M("pocketdb_path", ""), M("unknown", "x"),
             M("torn", "") } \cup BadDivs \cup {Self(n) : n \in {Other, 3, 4, 5, 6}}

\* The second edit draws on fewer members.
Few == {M("format_version", "1"), M("format_version", "2"), M("torn", ""),
        M("pocketdb_path", ""), Self(4), Self(6)}

Edit(doc, op, i, m) ==
  CASE op = "drop" -> RemoveAt(doc, i)
    [] op = "replace" -> ReplaceAt(doc, i, m)
    [] op = "insert" -> InsertAt(doc, i, m)
Ops == {"drop", "replace", "insert"}
OneEdit == {Edit(Plan(Two), oim[1], oim[2], oim[3]) : oim \in Ops \X (1 .. 6) \X Members}
Edited ==
  OneEdit \cup {Edit(doim[1], doim[2], doim[3], doim[4]) :
                  doim \in OneEdit \X Ops \X (1 .. 5) \X Few}

\* Two divergences members, under the digest or the second after it.
Twice ==
  LET ds == {Two, One, WholeOnly, WholeFirst} IN
  {Append(Plan(de[1]), de[2]) : de \in ds \X ds}
    \cup {ReplaceAt(InsertAt(Plan(de[1]), 3, de[2]), 7, Self(6)) : de \in ds \X ds}

\* Two genuine plans are among the documents, to be renamed over the others.
Others == {Plan(One), Plan(WholeOnly)}
Offered == Edited \cup Twice \cup Others

\* Of these, the plans whose self_hash is repeated or misplaced and yet covers
\* what precedes it.
Resealed == {doc \in Offered : Overlooked(doc)} \cup Others
=============================================================================
