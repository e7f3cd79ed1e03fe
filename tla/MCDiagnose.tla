----------------------------- MODULE MCDiagnose -----------------------------
EXTENDS Diagnose, TLC

P(o, h) == [offset |-> o, hash |-> h]
M(key, val) == [key |-> key, val |-> val, pages |-> <<>>]
Kind(kind) == M("entry_kind", kind)
Path(path) == M("path", path)
Pages(pages) == [M("pages", "") EXCEPT !.pages = pages]
SQLite(path, pages) == <<Kind("sqlite_pages"), Pages(pages), Path(path)>>
Whole(path, hash) == <<Kind("whole_file"), M("hash", hash), Path(path)>>
Of(entries) == [entries |-> entries, anchors |-> TRUE, version |-> 1, core |-> "v1"]

XY == <<P(0, "x"), P(1, "y")>>
Pages2 == SQLite(Main, XY)
Index == Whole("index", "a")
Block == Whole("block", "b")
Web == "pocketdb/web.sqlite3"

\* Manifests as published, and with every shape the reader tells apart.
Published == {Of(<<Pages2, Index, Block>>), Of(<<Index, Pages2>>), Of(<<>>)}
Shapes == {
  Of(<<SQLite(Main, <<P(1, "y"), P(3, "x")>>), Index>>),            \* a gap
  Of(<<SQLite(Main, <<P(1, "y"), P(0, "x")>>)>>),                   \* out of order
  Of(<<SQLite(Main, <<P(0, "x")>>), SQLite(Main, <<P(1, "y")>>)>>), \* split in two
  Of(<<Pages2, SQLite(Web, <<P(5, "w")>>)>>),                       \* another database
  Of(<<Index, Whole(Outside, "a")>>),
  [Of(<<Pages2>>) EXCEPT !.anchors = FALSE],
  [Of(<<Pages2>>) EXCEPT !.version = 2] }
\* One entry with its members in an order, a number or a form of their own.
Odd == {
  <<Kind("sqlite_pages"), Path(Main)>>,                             \* no pages
  <<Kind("sqlite_pages"), Pages(<<P(5, "w")>>)>>,                   \* no path
  <<Kind("whole_file"), M("hash", "a")>>,
  <<Path("index"), M("hash", "z"), Kind("whole_file")>>,            \* another order
  <<M("change_counter", ""), Path(Main), Kind("sqlite_pages"), Pages(XY)>>,
  <<Pages(XY), Kind("sqlite_pages"), Path(Main)>>,                  \* pages too early
  <<Kind("whole_file"), Pages(XY), Path("index")>>,
  <<Kind("sqlite_pages"), Pages(<<P(0, "x")>>), Pages(<<P(1, "y")>>), Path(Main)>>,
  <<Path(Main), Kind("sqlite_pages"), Pages(<<P(5, "w")>>), Path(Web)>>,
  <<Kind("sqlite_pages"), Path(Outside), Pages(XY), Path(Main)>>,
  <<Kind("later"), M("unknown", ""), Path("index")>>,
  <<Kind("sqlite_pages"), Pages(XY), M("torn", "")>> }
AllManifests == Published \cup Shapes \cup {Of(<<e, Block>>) : e \in Odd}

L(main, index, block) ==
  [main |-> main, whole |-> [index |-> index, block |-> block]]
SomeLocals == {
  L(<<"x", "y">>, "a", "b"), L(<<"x", "z">>, "a", NoFile), L(<<>>, NoFile, "z"),
  L(<<"y", "y", "y", "x">>, "z", "b") }

Machine(core, free, writable) == [core |-> core, free |-> free, writable |-> writable]
SomeMachines == {Machine("v1", 4, TRUE), Machine("v1", 3, TRUE),
                 Machine("v1", 4, FALSE), Machine("v0", 4, TRUE)}

Earlier == {Append(Payload(<<>>), SelfHash(5))}

\* A node whose main.sqlite3 has one page more than the canonical one.
LongerOnly == {L(<<"x", "y", "z">>, "a", "b")}
NoPrevious == {}
Symmetric == Permutations(Procs)
=============================================================================
