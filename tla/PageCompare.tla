---------------------------- MODULE PageCompare ----------------------------
(***************************************************************************)
(* How diagnose finds out what differs                                     *)
(* (internal/diagnose/page_compare.go, file_compare.go): the pages of an   *)
(* entry are merged with the pages of the local file, both read once and   *)
(* in ascending order.                                                     *)
(*                                                                         *)
(* Offsets are counted in pages.  A local file is the sequence of its      *)
(* whole pages: a partial page at the end is taken for the end, and a file *)
(* that is missing has none.                                               *)
(***************************************************************************)
EXTENDS Integers, Sequences

(* Mutation of Divergent: pages behind the local end are not reported.     *)
DivergentUpToLocalEnd(pages, local) ==
  SelectSeq(pages, LAMBDA p : p.offset < Len(local) /\ local[p.offset + 1] # p.hash)

(* The merge.  m is the next manifest page, k the next local one, which    *)
(* lies at offset k - 1.  A manifest page the local file has passed or will*)
(* not reach is divergent; a local page the manifest does not list is      *)
(* ignored.                                                                *)
Divergent(pages, local) ==
  LET merge[c \in (1 .. Len(pages) + 1) \X (1 .. Len(local) + 1)] ==
        LET m == c[1] k == c[2] p == pages[m] IN
        IF m > Len(pages) THEN <<>>
        ELSE IF k > Len(local) \/ p.offset < k - 1 THEN <<p>> \o merge[<<m + 1, k>>]
        ELSE IF p.offset > k - 1 THEN merge[<<m, k + 1>>]
        ELSE (IF local[k] = p.hash THEN <<>> ELSE <<p>>) \o merge[<<m + 1, k + 1>>]
  IN merge[<<1, 1>>]

(* What the merge is for: the pages whose bytes are not in place.          *)
InPlace(p, local) == p.offset \in 0 .. Len(local) - 1 /\ local[p.offset + 1] = p.hash
Difference(pages, local) == {n \in 1 .. Len(pages) : ~InPlace(pages[n], local)}
Ascending(pages) ==
  \A m, n \in 1 .. Len(pages) : m < n => pages[m].offset < pages[n].offset
=============================================================================
