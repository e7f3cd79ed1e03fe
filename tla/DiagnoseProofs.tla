--------------------------- MODULE DiagnoseProofs ---------------------------
(***************************************************************************)
(* What holds of diagnose for any manifest, any local files, any number of *)
(* overlapping runs, and whatever fails or is killed.                      *)
(***************************************************************************)
EXTENDS Diagnose, PlanDocProofs

(* A recursive definition over 0 .. N has the function it describes.       *)
Iteration(f, N, c, step) == f[0] = c /\ \A n \in 1 .. N : f[n] = step[n][f[n - 1]]
LEMMA Iterates ==
  ASSUME NEW N \in Nat, NEW V, NEW c \in V, NEW step \in [1 .. N -> [V -> V]]
  PROVE  \E f \in [0 .. N -> V] : Iteration(f, N, c, step)
  <1> DEFINE Holds(f, n) == \A i \in 0 .. n : f[i] = IF i = 0 THEN c ELSE step[i][f[i - 1]]
             A == {n \in 0 .. N : \E f \in [0 .. N -> V] : Holds(f, n)}
  <1>1. 0 \in A
    <2> DEFINE g == [i \in 0 .. N |-> c]
    <2>1. g \in [0 .. N -> V] /\ Holds(g, 0)
      OBVIOUS
    <2> HIDE DEF g
    <2> QED
      BY <2>1
  <1>2. ASSUME NEW n \in 1 .. N, n - 1 \in A
        PROVE  n \in A
    <2>1. PICK f \in [0 .. N -> V] : Holds(f, n - 1)
      BY <1>2
    <2>0. n \in 0 .. N /\ n - 1 \in 0 .. N /\ n # n - 1 /\ n # 0
      OBVIOUS
    <2> DEFINE g == [f EXCEPT ![n] = step[n][f[n - 1]]]
    <2>2. f[n - 1] \in V /\ step[n] \in [V -> V]
      BY <2>1
    <2>3. g \in [0 .. N -> V]
      BY <2>1, <2>2
    <2>4. \A i \in 0 .. n - 1 : g[i] = f[i]
      BY <2>0, <2>1
    <2>5. g[n] = step[n][g[n - 1]]
      BY <2>0, <2>1, <2>4
    <2> HIDE DEF g
    <2>6. \A i \in 0 .. n - 1 : i # 0 => i - 1 \in 0 .. n - 1
      OBVIOUS
    <2>7. \A i \in 0 .. n - 1 : g[i] = IF i = 0 THEN c ELSE step[i][g[i - 1]]
      BY <2>1, <2>4, <2>6
    <2>8. ASSUME NEW i \in 0 .. n
          PROVE  g[i] = IF i = 0 THEN c ELSE step[i][g[i - 1]]
      <3>1. CASE i = n
        BY <2>0, <2>5, <3>1
      <3>2. CASE i # n
        BY <2>7, <3>2
      <3> QED
        BY <3>1, <3>2
    <2> QED
      BY <2>0, <2>3, <2>8
  <1>3. N \in A
    <2> HIDE DEF A
    <2>1. 0 .. N \subseteq A
      BY <1>1, <1>2, UpTo
    <2> QED
      BY <2>1
  <1>4. PICK f \in [0 .. N -> V] : Holds(f, N)
    BY <1>3
  <1>5. Iteration(f, N, c, step)
    BY <1>4 DEF Iteration
  <1> QED
    BY <1>5
-----------------------------------------------------------------------------
(* The merge of the pages of an entry with the pages of the local file.    *)
Listed(pages) == {pages[n] : n \in 1 .. Len(pages)}
Cells(pages, main) == (1 .. Len(pages) + 1) \X (1 .. Len(main) + 1)
ToGo(pages, main, c) == (Len(pages) + 1 - c[1]) + (Len(main) + 1 - c[2])
(* A name that keeps \o out of the provers' sight.                         *)
Joined(s, t) == s \o t
Merged(pages, main, g) ==
  [c \in Cells(pages, main) |->
     LET m == c[1] k == c[2] p == pages[m] IN
     IF m > Len(pages) THEN <<>>
     ELSE IF k > Len(main) \/ p.offset < k - 1 THEN <<p>> \o g[<<m + 1, k>>]
     ELSE IF p.offset > k - 1 THEN g[<<m, k + 1>>]
     ELSE (IF main[k] = p.hash THEN <<>> ELSE <<p>>) \o g[<<m + 1, k + 1>>]]

LEMMA DivergentIsMerged ==
  ASSUME NEW pages, NEW main
  PROVE  Divergent(pages, main) = (CHOOSE g : g = Merged(pages, main, g))[<<1, 1>>]
  BY DEF Divergent, Merged, Cells

LEMMA MergedAt ==
  ASSUME NEW pages \in Seq(Page), NEW main \in Seq(STRING), NEW g,
         NEW m \in 1 .. Len(pages) + 1, NEW k \in 1 .. Len(main) + 1
  PROVE  /\ m > Len(pages) => Merged(pages, main, g)[<<m, k>>] = <<>>
         /\ m <= Len(pages) /\ k > Len(main) =>
              Merged(pages, main, g)[<<m, k>>] = Joined(<<pages[m]>>, g[<<m + 1, k>>])
         /\ m <= Len(pages) /\ k <= Len(main) =>
              /\ pages[m].offset < k - 1 =>
                   Merged(pages, main, g)[<<m, k>>] = Joined(<<pages[m]>>, g[<<m + 1, k>>])
              /\ pages[m].offset > k - 1 =>
                   Merged(pages, main, g)[<<m, k>>] = g[<<m, k + 1>>]
              /\ pages[m].offset = k - 1 /\ main[k] = pages[m].hash =>
                   Merged(pages, main, g)[<<m, k>>] = Joined(<<>>, g[<<m + 1, k + 1>>])
              /\ pages[m].offset = k - 1 /\ main[k] # pages[m].hash =>
                   Merged(pages, main, g)[<<m, k>>] = Joined(<<pages[m]>>, g[<<m + 1, k + 1>>])
              /\ pages[m].offset \in Int
  <1>1. <<m, k>> \in Cells(pages, main)
    BY DEF Cells
  <1>2. m <= Len(pages) => pages[m].offset \in Int
    <2>1. m <= Len(pages) => m \in 1 .. Len(pages)
      OBVIOUS
    <2>2. m <= Len(pages) => pages[m] \in Page
      BY <2>1
    <2> QED
      BY <2>2 DEF Page
  <1>3. Merged(pages, main, g)[<<m, k>>] =
           IF m > Len(pages) THEN <<>>
           ELSE IF k > Len(main) \/ pages[m].offset < k - 1 THEN Joined(<<pages[m]>>, g[<<m + 1, k>>])
           ELSE IF pages[m].offset > k - 1 THEN g[<<m, k + 1>>]
           ELSE Joined(IF main[k] = pages[m].hash THEN <<>> ELSE <<pages[m]>>, g[<<m + 1, k + 1>>])
    BY <1>1 DEF Merged, Joined
  <1>4. CASE m > Len(pages)
    BY <1>3, <1>4
  <1>5. CASE m <= Len(pages) /\ k > Len(main)
    BY <1>3, <1>5
  <1>6. CASE m <= Len(pages) /\ k <= Len(main)
    <2> DEFINE o == pages[m].offset
    <2>1. o \in Int /\ k - 1 \in Int /\ ~(m > Len(pages)) /\ ~(k > Len(main))
      BY <1>2, <1>6
    <2> HIDE DEF o
    <2>2. o < k - 1 => ~(o > k - 1) /\ o # k - 1
      BY <2>1
    <2>3. o = k - 1 => ~(o > k - 1) /\ ~(o < k - 1)
      BY <2>1
    <2>4. o > k - 1 => ~(o < k - 1)
      BY <2>1
    <2> USE DEF o
    <2> QED
      BY <1>3, <2>1, <2>2, <2>3, <2>4
  <1> QED
    BY <1>4, <1>5, <1>6

MergedCase(pages, main, g, m, k) ==
  LET out == Merged(pages, main, g)[<<m, k>>] IN
    \/ m > Len(pages) /\ out = <<>>
    \/ /\ m <= Len(pages) /\ (k > Len(main) \/ pages[m].offset < k - 1)
       /\ out = Joined(<<pages[m]>>, g[<<m + 1, k>>])
    \/ /\ m <= Len(pages) /\ k <= Len(main) /\ pages[m].offset > k - 1
       /\ out = g[<<m, k + 1>>]
    \/ /\ m <= Len(pages) /\ k <= Len(main) /\ pages[m].offset = k - 1
       /\ main[k] = pages[m].hash /\ out = Joined(<<>>, g[<<m + 1, k + 1>>])
    \/ /\ m <= Len(pages) /\ k <= Len(main) /\ pages[m].offset = k - 1
       /\ main[k] # pages[m].hash /\ out = Joined(<<pages[m]>>, g[<<m + 1, k + 1>>])

LEMMA PageTyped ==
  ASSUME NEW pages \in Seq(Page), NEW m \in 1 .. Len(pages)
  PROVE  pages[m] \in Listed(pages) /\ pages[m].offset \in Int
  <1>1. pages[m] \in Page
    OBVIOUS
  <1> QED
    BY <1>1 DEF Page, Listed

LEMMA MergedCases ==
  ASSUME NEW pages \in Seq(Page), NEW main \in Seq(STRING), NEW g,
         NEW m \in 1 .. Len(pages) + 1, NEW k \in 1 .. Len(main) + 1
  PROVE  MergedCase(pages, main, g, m, k)
  <1>1. CASE m > Len(pages)
    BY <1>1, MergedAt DEF MergedCase
  <1>2. CASE m <= Len(pages) /\ k > Len(main)
    BY <1>2, MergedAt DEF MergedCase
  <1>3. CASE m <= Len(pages) /\ k <= Len(main)
    <2>1. k - 1 \in Int /\ pages[m].offset \in Int
      <3>1. m \in 1 .. Len(pages)
        BY <1>3
      <3> QED
        BY <3>1, PageTyped
    <2>2. pages[m].offset < k - 1 \/ pages[m].offset > k - 1 \/ pages[m].offset = k - 1
      BY <2>1
    <2>3. CASE pages[m].offset < k - 1
      BY <1>3, <2>1, <2>3, MergedAt DEF MergedCase
    <2>4. CASE pages[m].offset > k - 1
      BY <1>3, <2>1, <2>4, MergedAt DEF MergedCase
    <2>5. CASE pages[m].offset = k - 1
      BY <1>3, <2>1, <2>5, MergedAt DEF MergedCase
    <2> QED
      BY <2>2, <2>3, <2>4, <2>5
  <1> QED
    BY <1>1, <1>2, <1>3

LEMMA ToGoBound ==
  ASSUME NEW pages \in Seq(Page), NEW main \in Seq(STRING), NEW c \in Cells(pages, main)
  PROVE  ToGo(pages, main, c) \in 0 .. Len(pages) + Len(main)
  BY DEF Cells, ToGo

LEMMA CellInduction ==
  ASSUME NEW pages \in Seq(Page), NEW main \in Seq(STRING), NEW A,
         \A c \in Cells(pages, main) :
            (\A d \in Cells(pages, main) :
               ToGo(pages, main, d) < ToGo(pages, main, c) => d \in A) => c \in A
  PROVE  Cells(pages, main) \subseteq A
  <1> DEFINE B == {ToGo(pages, main, c) : c \in {d \in Cells(pages, main) : d \notin A}}
  <1>1. \A c \in Cells(pages, main) : ToGo(pages, main, c) \in Nat
    BY DEF Cells, ToGo
  <1>2. B \in SUBSET Nat
    BY <1>1
  <1> SUFFICES ASSUME B # {} PROVE FALSE
    OBVIOUS
  <1>3. PICK n \in B : \A m \in B : n <= m
    <2> HIDE DEF B
    <2> QED
      BY <1>2, LeastNumber
  <1>4. PICK c \in Cells(pages, main) : c \notin A /\ n = ToGo(pages, main, c)
    BY <1>3
  <1>5. ASSUME NEW d \in Cells(pages, main), ToGo(pages, main, d) < ToGo(pages, main, c)
        PROVE  d \in A
    <2>1. ToGo(pages, main, d) \notin B
      <3> HIDE DEF B
      <3> QED
        BY <1>1, <1>3, <1>4, <1>5
    <2> QED
      BY <2>1
  <1> QED
    BY <1>4, <1>5

LEMMA NextCells ==
  ASSUME NEW pages \in Seq(Page), NEW main \in Seq(STRING),
         NEW m \in 1 .. Len(pages), NEW k \in 1 .. Len(main) + 1
  PROVE  /\ <<m + 1, k>> \in Cells(pages, main)
         /\ ToGo(pages, main, <<m + 1, k>>) < ToGo(pages, main, <<m, k>>)
         /\ k <= Len(main) =>
              /\ <<m, k + 1>> \in Cells(pages, main)
              /\ <<m + 1, k + 1>> \in Cells(pages, main)
              /\ ToGo(pages, main, <<m, k + 1>>) < ToGo(pages, main, <<m, k>>)
              /\ ToGo(pages, main, <<m + 1, k + 1>>) < ToGo(pages, main, <<m, k>>)
  <1>1. Len(pages) \in Nat /\ Len(main) \in Nat
    OBVIOUS
  <1>2. m + 1 \in 1 .. Len(pages) + 1 /\ m \in 1 .. Len(pages) + 1
    BY <1>1
  <1>3. k <= Len(main) => k + 1 \in 1 .. Len(main) + 1
    BY <1>1
  <1> QED
    BY <1>1, <1>2, <1>3 DEF Cells, ToGo

LEMMA MergedDependsOnLess ==
  ASSUME NEW pages \in Seq(Page), NEW main \in Seq(STRING), NEW g, NEW h,
         NEW c \in Cells(pages, main),
         \A d \in Cells(pages, main) :
            ToGo(pages, main, d) < ToGo(pages, main, c) => g[d] = h[d]
  PROVE  Merged(pages, main, g)[c] = Merged(pages, main, h)[c]
  <1>1. PICK m \in 1 .. Len(pages) + 1, k \in 1 .. Len(main) + 1 : c = <<m, k>>
    BY DEF Cells
  <1>2. CASE m > Len(pages)
    BY <1>1, <1>2 DEF Merged
  <1>3. CASE m <= Len(pages)
    <2>0. m \in 1 .. Len(pages)
      BY <1>3
    <2>1. g[<<m + 1, k>>] = h[<<m + 1, k>>]
      BY <1>1, <2>0, NextCells
    <2>2. k <= Len(main) =>
            g[<<m, k + 1>>] = h[<<m, k + 1>>] /\ g[<<m + 1, k + 1>>] = h[<<m + 1, k + 1>>]
      BY <1>1, <2>0, NextCells
    <2>3. k <= Len(main) \/ k > Len(main)
      OBVIOUS
    <2> QED
      BY <1>1, <1>3, <2>1, <2>2, <2>3 DEF Merged
  <1> QED
    BY <1>2, <1>3

(* Each application of Merged settles the cells one step further from the  *)
(* end; after as many as there are cells nothing changes.                  *)
LEMMA MergeExists ==
  ASSUME NEW pages \in Seq(Page), NEW main \in Seq(STRING)
  PROVE  \E g : g = Merged(pages, main, g)
  <1> DEFINE N == Len(pages) + Len(main) + 1
             V == [Cells(pages, main) -> Seq(Listed(pages))]
             c == [d \in Cells(pages, main) |-> <<>>]
             step == [n \in 1 .. N |-> [g \in V |-> Merged(pages, main, g)]]
             Settled(f, n) == \A d \in Cells(pages, main) :
                                ToGo(pages, main, d) < n => f[n][d] = Merged(pages, main, f[n])[d]
  <1>1. N \in Nat /\ c \in V
    OBVIOUS
  <1>2. ASSUME NEW g \in V
        PROVE  Merged(pages, main, g) \in V
    <2> SUFFICES ASSUME NEW m \in 1 .. Len(pages) + 1, NEW k \in 1 .. Len(main) + 1
                 PROVE  Merged(pages, main, g)[<<m, k>>] \in Seq(Listed(pages))
      BY DEF Merged, Cells
    <2>1. CASE m > Len(pages)
      BY <2>1 DEF Merged, Cells
    <2>2. CASE m <= Len(pages)
      <3>1. m \in 1 .. Len(pages) /\ pages[m] \in Listed(pages)
        BY <2>2 DEF Listed
      <3>2. <<pages[m]>> \in Seq(Listed(pages)) /\ <<>> \in Seq(Listed(pages))
        BY <3>1
      <3>3. \A d \in Cells(pages, main) : g[d] \in Seq(Listed(pages))
        OBVIOUS
      <3>4. <<m, k>> \in Cells(pages, main) /\ g[<<m + 1, k>>] \in Seq(Listed(pages))
        BY <3>1, <3>3, NextCells DEF Cells
      <3>5. k <= Len(main) =>
              g[<<m, k + 1>>] \in Seq(Listed(pages)) /\ g[<<m + 1, k + 1>>] \in Seq(Listed(pages))
        BY <3>1, <3>3, NextCells
      <3>6. k <= Len(main) \/ k > Len(main)
        OBVIOUS
      <3>7. MergedCase(pages, main, g, m, k)
        <4> HIDE DEF V
        <4> QED
          BY MergedCases
      <3>8. \A q \in Seq(Listed(pages)) :
              /\ Joined(<<pages[m]>>, q) \in Seq(Listed(pages))
              /\ Joined(<<>>, q) \in Seq(Listed(pages))
        BY <3>2 DEF Joined
      <3> HIDE DEF V
      <3> QED
        <4>1. Joined(<<pages[m]>>, g[<<m + 1, k>>]) \in Seq(Listed(pages))
          BY <3>4, <3>8
        <4>2. k <= Len(main) =>
                /\ Joined(<<pages[m]>>, g[<<m + 1, k + 1>>]) \in Seq(Listed(pages))
                /\ Joined(<<>>, g[<<m + 1, k + 1>>]) \in Seq(Listed(pages))
          BY <3>5, <3>8
        <4> QED
          BY <2>2, <3>5, <3>7, <4>1, <4>2 DEF MergedCase
    <2> QED
      BY <2>1, <2>2
  <1>3. step \in [1 .. N -> [V -> V]]
    <2> HIDE DEF V
    <2> QED
      BY <1>2
  <1>4. PICK f \in [0 .. N -> V] : Iteration(f, N, c, step)
    <2> HIDE DEF N, V, c, step
    <2> QED
      BY <1>1, <1>3, Iterates
  <1>5. ASSUME NEW n \in 1 .. N
        PROVE  f[n - 1] \in V /\ f[n] = Merged(pages, main, f[n - 1])
    <2> HIDE DEF V, c
    <2>1. n - 1 \in 0 .. N /\ n \in 0 .. N
      OBVIOUS
    <2>2. f[n - 1] \in V /\ f[n] = step[n][f[n - 1]]
      BY <1>4, <2>1 DEF Iteration
    <2> QED
      BY <2>2
  <1>6. Settled(f, 0)
    BY DEF ToGo, Cells
  <1>7. ASSUME NEW n \in 1 .. N, Settled(f, n - 1)
        PROVE  Settled(f, n)
    <2> SUFFICES ASSUME NEW d \in Cells(pages, main), ToGo(pages, main, d) < n
                 PROVE  f[n][d] = Merged(pages, main, f[n])[d]
      OBVIOUS
    <2>0. n - 1 \in 0 .. N /\ n \in 0 .. N
      OBVIOUS
    <2>1. \A e \in Cells(pages, main) :
            ToGo(pages, main, e) < ToGo(pages, main, d) => f[n - 1][e] = f[n][e]
      <3> SUFFICES ASSUME NEW e \in Cells(pages, main),
                          ToGo(pages, main, e) < ToGo(pages, main, d)
                   PROVE  f[n - 1][e] = f[n][e]
        OBVIOUS
      <3>1. ToGo(pages, main, e) \in Nat /\ ToGo(pages, main, d) \in Nat
        BY ToGoBound
      <3>2. ToGo(pages, main, e) < n - 1
        BY <3>1
      <3>3. f[n - 1][e] = Merged(pages, main, f[n - 1])[e]
        BY <1>7, <3>2
      <3> QED
        BY <1>5, <3>3
    <2>2. Merged(pages, main, f[n - 1])[d] = Merged(pages, main, f[n])[d]
      <3> DEFINE before == f[n - 1] after == f[n]
      <3>1. \A e \in Cells(pages, main) :
              ToGo(pages, main, e) < ToGo(pages, main, d) => before[e] = after[e]
        BY <2>1
      <3> HIDE DEF before, after
      <3>2. Merged(pages, main, before)[d] = Merged(pages, main, after)[d]
        BY <3>1, MergedDependsOnLess
      <3> QED
        BY <3>2 DEF before, after
    <2>3. f[n][d] = Merged(pages, main, f[n - 1])[d]
      BY <1>5
    <2> QED
      BY <2>2, <2>3, Zenon
  <1>8. Settled(f, N)
    <2> DEFINE A == {n \in 0 .. N : Settled(f, n)}
    <2>1. 0 \in A
      <3> HIDE DEF Settled
      <3> QED
        BY <1>1, <1>6
    <2>2. \A n \in 1 .. N : n - 1 \in A => n \in A
      <3> HIDE DEF Settled
      <3> QED
        BY <1>1, <1>7
    <2>3. N \in A
      <3> HIDE DEF A, N, V, c, step, Settled
      <3>1. 0 .. N \subseteq A
        BY <1>1, <2>1, <2>2, UpTo
      <3> QED
        BY <1>1, <3>1
    <2> HIDE DEF Settled
    <2> QED
      BY <2>3
  <1>9. \A d \in Cells(pages, main) : ToGo(pages, main, d) < N
    BY ToGoBound
  <1>10. f[N] \in V
    <2> HIDE DEF N, V
    <2> QED
      BY <1>1, <1>4
  <1>11. \A d \in Cells(pages, main) : f[N][d] = Merged(pages, main, f[N])[d]
    BY <1>8, <1>9
  <1>12. DOMAIN f[N] = Cells(pages, main) /\ DOMAIN Merged(pages, main, f[N]) = Cells(pages, main)
    BY <1>10 DEF Merged
  <1>13. f[N] = [d \in Cells(pages, main) |-> f[N][d]]
    BY <1>10
  <1>14. Merged(pages, main, f[N]) = [d \in Cells(pages, main) |-> Merged(pages, main, f[N])[d]]
    BY DEF Merged
  <1> QED
    BY <1>11, <1>13, <1>14

(* What the merge reports from a cell on: only pages that follow, every one*)
(* of them that is not in place, and no other as long as the pages ascend  *)
(* from where the local file is read.                                      *)
Ahead(pages, c) ==
  \A n \in c[1] .. Len(pages) : pages[n].offset >= c[2] - 1 \/ pages[n].offset < 0
Reports(pages, main, c, out) ==
  /\ out \in Seq(Listed(pages))
  /\ \A n \in c[1] .. Len(pages) : InPlace(pages[n], main) \/ pages[n] \in Listed(out)
  /\ Ascending(pages) /\ Ahead(pages, c) => \A p \in Listed(out) : ~InPlace(p, main)

LEMMA ListedAppend ==
  ASSUME NEW S, NEW a \in Seq(S), NEW b \in Seq(S)
  PROVE  /\ a \o b \in Seq(S)
         /\ Listed(a \o b) = Listed(a) \cup Listed(b)
  <1>1. Len(a \o b) = Len(a) + Len(b) /\ Len(a) \in Nat /\ Len(b) \in Nat
    OBVIOUS
  <1>2. \A n \in 1 .. Len(a) : n \in 1 .. Len(a \o b) /\ (a \o b)[n] = a[n]
    OBVIOUS
  <1>3. \A n \in 1 .. Len(b) :
          Len(a) + n \in 1 .. Len(a \o b) /\ (a \o b)[Len(a) + n] = b[n]
    OBVIOUS
  <1>4. \A n \in 1 .. Len(a \o b) : \/ n \in 1 .. Len(a)
                                    \/ n - Len(a) \in 1 .. Len(b) /\ n = Len(a) + (n - Len(a))
    BY <1>1
  <1>5. Listed(a) \subseteq Listed(a \o b)
    BY <1>2 DEF Listed
  <1>6. Listed(b) \subseteq Listed(a \o b)
    BY <1>3 DEF Listed
  <1>7. Listed(a \o b) \subseteq Listed(a) \cup Listed(b)
    <2> SUFFICES ASSUME NEW n \in 1 .. Len(a \o b)
                 PROVE  (a \o b)[n] \in Listed(a) \cup Listed(b)
      BY DEF Listed
    <2>1. CASE n \in 1 .. Len(a)
      BY <1>2, <2>1 DEF Listed
    <2>2. CASE n - Len(a) \in 1 .. Len(b) /\ n = Len(a) + (n - Len(a))
      <3>1. (a \o b)[n] = b[n - Len(a)]
        BY <1>3, <2>2
      <3> QED
        BY <2>2, <3>1 DEF Listed
    <2> QED
      BY <1>4, <2>1, <2>2
  <1> QED
    BY <1>5, <1>6, <1>7

LEMMA ListedPrepend ==
  ASSUME NEW S, NEW p \in S, NEW q \in Seq(S)
  PROVE  /\ Joined(<<p>>, q) \in Seq(S) /\ Listed(Joined(<<p>>, q)) = {p} \cup Listed(q)
         /\ Joined(<<>>, q) = q
  <1>1. <<p>> \in Seq(S) /\ Listed(<<p>>) = {p}
    BY DEF Listed
  <1>2. <<p>> \o q \in Seq(S) /\ Listed(<<p>> \o q) = Listed(<<p>>) \cup Listed(q)
    <2>1. \A a \in Seq(S) : a \o q \in Seq(S) /\ Listed(a \o q) = Listed(a) \cup Listed(q)
      BY ListedAppend
    <2> QED
      BY <1>1, <2>1, Zenon
  <1> QED
    BY <1>1, <1>2 DEF Joined

LEMMA ReportsStep ==
  ASSUME NEW pages \in Seq(Page), NEW main \in Seq(STRING), NEW g,
         NEW m \in 1 .. Len(pages), NEW k \in 1 .. Len(main) + 1,
         Reports(pages, main, <<m + 1, k>>, g[<<m + 1, k>>]),
         k <= Len(main) => Reports(pages, main, <<m, k + 1>>, g[<<m, k + 1>>]),
         k <= Len(main) => Reports(pages, main, <<m + 1, k + 1>>, g[<<m + 1, k + 1>>])
  PROVE  Reports(pages, main, <<m, k>>, Merged(pages, main, g)[<<m, k>>])
  <1> DEFINE p == pages[m]
             out == Merged(pages, main, g)[<<m, k>>]
  <1>1. p \in Listed(pages) /\ p.offset \in Int /\ k - 1 \in Int
          /\ Len(main) \in Nat /\ Len(pages) \in Nat
    BY PageTyped
  <1>0. MergedCase(pages, main, g, m, k) /\ m <= Len(pages)
    <2>1. m \in 1 .. Len(pages) + 1 /\ m <= Len(pages)
      OBVIOUS
    <2> QED
      BY <2>1, MergedCases
  <1>2. \A n \in m .. Len(pages) : n = m \/ n \in m + 1 .. Len(pages)
    OBVIOUS
  <1>3. \A n \in m .. Len(pages) : n \in 1 .. Len(pages) /\ pages[n].offset \in Int
    <2>1. \A n \in m .. Len(pages) : n \in 1 .. Len(pages)
      OBVIOUS
    <2> QED
      BY <2>1, PageTyped
  <1>4. CASE k > Len(main) \/ p.offset < k - 1
    <2>1. out = Joined(<<p>>, g[<<m + 1, k>>])
      BY <1>0, <1>1, <1>4 DEF MergedCase
    <2>2. out \in Seq(Listed(pages)) /\ Listed(out) = {p} \cup Listed(g[<<m + 1, k>>])
      <3>1. g[<<m + 1, k>>] \in Seq(Listed(pages))
        BY DEF Reports
      <3> QED
        <4> DEFINE q == g[<<m + 1, k>>]
        <4>1. p \in Listed(pages) /\ q \in Seq(Listed(pages)) /\ out = Joined(<<p>>, q)
          BY <1>1, <2>1, <3>1
        <4> HIDE DEF p, out, q
        <4>2. out \in Seq(Listed(pages)) /\ Listed(out) = {p} \cup Listed(q)
          BY <4>1, ListedPrepend
        <4> QED
          BY <4>2 DEF q
    <2>3. Ahead(pages, <<m, k>>) => ~InPlace(p, main) /\ Ahead(pages, <<m + 1, k>>)
      <3> SUFFICES ASSUME Ahead(pages, <<m, k>>)
                   PROVE  ~InPlace(p, main) /\ Ahead(pages, <<m + 1, k>>)
        OBVIOUS
      <3>1. p.offset >= k - 1 \/ p.offset < 0
        BY <1>1 DEF Ahead
      <3>2. p.offset \notin 0 .. Len(main) - 1
        BY <1>1, <1>4, <3>1
      <3>3. \A n \in m + 1 .. Len(pages) : n \in m .. Len(pages)
        OBVIOUS
      <3> QED
        BY <3>2, <3>3 DEF Ahead, InPlace
    <2> QED
      BY <1>2, <2>2, <2>3 DEF Reports
  <1>5. CASE k <= Len(main) /\ p.offset > k - 1
    <2>1. out = g[<<m, k + 1>>]
      BY <1>0, <1>1, <1>5 DEF MergedCase
    <2>2. Ascending(pages) /\ Ahead(pages, <<m, k>>) => Ahead(pages, <<m, k + 1>>)
      <3> SUFFICES ASSUME Ascending(pages), NEW n \in m .. Len(pages)
                   PROVE  pages[n].offset >= k
        BY DEF Ahead
      <3>1. n = m \/ (n > m /\ n \in 1 .. Len(pages) /\ m \in 1 .. Len(pages))
        BY <1>3
      <3>2. n = m \/ pages[n].offset > p.offset
        BY <3>1 DEF Ascending
      <3> QED
        BY <1>1, <1>3, <1>5, <3>2
    <2> QED
      BY <1>5, <2>1, <2>2 DEF Reports
  <1>6. CASE k <= Len(main) /\ p.offset = k - 1
    <2>1. Ascending(pages) => Ahead(pages, <<m + 1, k + 1>>)
      <3> SUFFICES ASSUME Ascending(pages), NEW n \in m + 1 .. Len(pages)
                   PROVE  pages[n].offset >= k
        BY DEF Ahead
      <3>1. n \in m .. Len(pages) /\ n > m
        OBVIOUS
      <3>2. pages[n].offset > p.offset
        BY <1>3, <3>1 DEF Ascending
      <3> QED
        BY <1>1, <1>3, <1>6, <3>1, <3>2
    <2>2. p.offset \in 0 .. Len(main) - 1 /\ p.offset + 1 = k
      BY <1>1, <1>6
    <2>3. CASE main[k] = p.hash
      <3>1. out = Joined(<<>>, g[<<m + 1, k + 1>>])
        BY <1>0, <1>1, <1>6, <2>3 DEF MergedCase
      <3>2. g[<<m + 1, k + 1>>] \in Seq(Listed(pages))
        BY <1>6 DEF Reports
      <3>3. out = g[<<m + 1, k + 1>>]
        BY <1>1, <3>1, <3>2, ListedPrepend
      <3>4. InPlace(p, main)
        BY <2>2, <2>3 DEF InPlace
      <3> QED
        BY <1>2, <1>6, <2>1, <3>3, <3>4 DEF Reports
    <2>4. CASE main[k] # p.hash
      <3>1. out = Joined(<<p>>, g[<<m + 1, k + 1>>])
        BY <1>0, <1>1, <1>6, <2>4 DEF MergedCase
      <3>2. out \in Seq(Listed(pages)) /\ Listed(out) = {p} \cup Listed(g[<<m + 1, k + 1>>])
        <4>1. g[<<m + 1, k + 1>>] \in Seq(Listed(pages))
          BY <1>6 DEF Reports
        <4> QED
          <5> DEFINE q == g[<<m + 1, k + 1>>]
          <5>1. p \in Listed(pages) /\ q \in Seq(Listed(pages)) /\ out = Joined(<<p>>, q)
            BY <1>1, <3>1, <4>1
          <5> HIDE DEF p, out, q
          <5>2. out \in Seq(Listed(pages)) /\ Listed(out) = {p} \cup Listed(q)
            BY <5>1, ListedPrepend
          <5> QED
            BY <5>2 DEF q
      <3>3. ~InPlace(p, main)
        BY <2>2, <2>4 DEF InPlace
      <3> QED
        BY <1>2, <1>6, <2>1, <3>2, <3>3 DEF Reports
    <2> QED
      BY <2>3, <2>4
  <1> QED
    BY <1>1, <1>4, <1>5, <1>6

LEMMA ReportsEverywhere ==
  ASSUME NEW pages \in Seq(Page), NEW main \in Seq(STRING),
         NEW g, g = Merged(pages, main, g)
  PROVE  \A c \in Cells(pages, main) : Reports(pages, main, c, g[c])
  <1> DEFINE A == {c \in Cells(pages, main) : Reports(pages, main, c, g[c])}
  <1>1. ASSUME NEW c \in Cells(pages, main),
               \A d \in Cells(pages, main) :
                  ToGo(pages, main, d) < ToGo(pages, main, c) => d \in A
        PROVE  c \in A
    <2>1. PICK m \in 1 .. Len(pages) + 1, k \in 1 .. Len(main) + 1 : c = <<m, k>>
      BY DEF Cells
    <2>2. CASE m > Len(pages)
      <3>1. g[c] = <<>>
        <4>1. MergedCase(pages, main, g, m, k)
          BY MergedCases
        <4> QED
          BY <2>1, <2>2, <4>1 DEF MergedCase
      <3>2. c[1] .. Len(pages) = {} /\ Listed(<<>>) = {}
        BY <2>1, <2>2 DEF Listed
      <3>3. <<>> \in Seq(Listed(pages))
        OBVIOUS
      <3> QED
        BY <3>1, <3>2, <3>3 DEF Reports
    <2>3. CASE m <= Len(pages)
      <3>1. m \in 1 .. Len(pages)
        BY <2>3
      <3>2. Reports(pages, main, <<m + 1, k>>, g[<<m + 1, k>>])
        BY <1>1, <2>1, <3>1, NextCells
      <3>3. k <= Len(main) => /\ Reports(pages, main, <<m, k + 1>>, g[<<m, k + 1>>])
                              /\ Reports(pages, main, <<m + 1, k + 1>>, g[<<m + 1, k + 1>>])
        BY <1>1, <2>1, <3>1, NextCells
      <3> QED
        BY <2>1, <3>1, <3>2, <3>3, ReportsStep
    <2> QED
      BY <2>2, <2>3
  <1> HIDE DEF A
  <1>2. Cells(pages, main) \subseteq A
    BY <1>1, CellInduction
  <1> USE DEF A
  <1> QED
    BY <1>2

(* For all pages of an entry and all local files, what the merge of the two*)
(* reports consists of pages of the entry, misses none that is not in place*)
(* and, when the pages ascend, has no other: the local end, a gap in the   *)
(* entry and a page before the local position are the cases a test would   *)
(* have to think of.                                                       *)
THEOREM MergeFindsTheDifference ==
  ASSUME NEW pages \in Seq(Page), NEW main \in Seq(STRING)
  PROVE  /\ Divergent(pages, main) \in Seq(Listed(pages))
         /\ {pages[n] : n \in Difference(pages, main)} \subseteq Listed(Divergent(pages, main))
         /\ Ascending(pages) =>
              Listed(Divergent(pages, main)) = {pages[n] : n \in Difference(pages, main)}
  <1> DEFINE g == CHOOSE f : f = Merged(pages, main, f)
  <1>1. g = Merged(pages, main, g)
    BY MergeExists
  <1>2. Divergent(pages, main) = g[<<1, 1>>]
    BY DivergentIsMerged
  <1> HIDE DEF g
  <1>3. <<1, 1>> \in Cells(pages, main)
    BY DEF Cells
  <1>4. Reports(pages, main, <<1, 1>>, Divergent(pages, main))
    BY <1>1, <1>2, <1>3, ReportsEverywhere
  <1>5. Ahead(pages, <<1, 1>>)
    <2>1. \A n \in 1 .. Len(pages) : pages[n].offset \in Int
      BY PageTyped
    <2> QED
      BY <2>1 DEF Ahead
  <1>6. Divergent(pages, main) \in Seq(Listed(pages))
    BY <1>4 DEF Reports
  <1>7. Listed(Divergent(pages, main)) \subseteq Listed(pages)
    BY <1>6 DEF Listed
  <1> QED
    BY <1>4, <1>5, <1>6, <1>7 DEF Reports, Difference, Listed
-----------------------------------------------------------------------------
(* What one entry adds to the spool.                                       *)
PageDiv == {PagesDivergence(pages) : pages \in Seq(Page) \ {<<>>}}
TotalFrom(divs, f) ==
  [n \in 0 .. Len(divs) |-> IF n = 0 THEN 0 ELSE f[n - 1] + Len(divs[n].pages)]
ReportedFrom(e, f) ==
  [n \in 0 .. Len(e) |-> IF n = 0 THEN <<>> ELSE f[n - 1] \o Found(e[n])]

LEMMA PageDivTyped ==
  ASSUME NEW d \in PageDiv
  PROVE  /\ d.pages \in Seq(Page) /\ d.pages # <<>> /\ Len(d.pages) \in Nat
         /\ d.kind = "sqlite_pages" /\ d.path = Main /\ d.hash = "" /\ d.source = ""
  <1>1. PICK pages \in Seq(Page) \ {<<>>} : d = PagesDivergence(pages)
    BY DEF PageDiv
  <1>2. /\ d.pages = pages
        /\ d.kind = "sqlite_pages" /\ d.path = Main /\ d.hash = "" /\ d.source = ""
    BY <1>1 DEF PagesDivergence
  <1>3. pages \in Seq(Page) /\ pages # <<>> /\ Len(pages) \in Nat
    OBVIOUS
  <1> QED
    BY <1>2, <1>3

LEMMA PageTotalTyped ==
  ASSUME NEW divs \in Seq(PageDiv)
  PROVE  PageTotal(divs) \in Nat
  <1> DEFINE N == Len(divs)
             step == [n \in 1 .. N |-> [v \in Nat |-> v + Len(divs[n].pages)]]
             g == CHOOSE f : f = TotalFrom(divs, f)
  <1>1. N \in Nat /\ \A n \in 1 .. N : Len(divs[n].pages) \in Nat
    <2> SUFFICES ASSUME NEW n \in 1 .. N
                 PROVE  Len(divs[n].pages) \in Nat
      OBVIOUS
    <2>1. divs[n] \in PageDiv
      OBVIOUS
    <2> QED
      BY <2>1, PageDivTyped
  <1>2. step \in [1 .. N -> [Nat -> Nat]]
    BY <1>1
  <1>3. \E f : f = TotalFrom(divs, f)
    <2>1. PICK f \in [0 .. N -> Nat] : Iteration(f, N, 0, step)
      <3> HIDE DEF N, step
      <3> QED
        BY <1>1, <1>2, Iterates
    <2>2. f = [n \in 0 .. N |-> f[n]]
      OBVIOUS
    <2>3. \A n \in 0 .. N : f[n] = IF n = 0 THEN 0 ELSE f[n - 1] + Len(divs[n].pages)
      <3> SUFFICES ASSUME NEW n \in 1 .. N
                   PROVE  f[n] = f[n - 1] + Len(divs[n].pages)
        BY <2>1 DEF Iteration
      <3>1. n - 1 \in 0 .. N
        OBVIOUS
      <3> QED
        BY <2>1, <3>1 DEF Iteration
    <2>4. f = TotalFrom(divs, f)
      BY <2>2, <2>3 DEF TotalFrom
    <2> QED
      BY <2>4
  <1>4. g = TotalFrom(divs, g)
    BY <1>3
  <1>5. PageTotal(divs) = g[N]
    BY DEF PageTotal, TotalFrom
  <1> DEFINE A == {n \in 0 .. N : g[n] \in Nat}
  <1> HIDE DEF g
  <1>6. 0 \in A
    BY <1>1, <1>4 DEF TotalFrom
  <1>7. ASSUME NEW n \in 1 .. N, n - 1 \in A
        PROVE  n \in A
    BY <1>1, <1>4, <1>7 DEF TotalFrom
  <1>8. 0 .. N \subseteq A
    <2> HIDE DEF A, N
    <2> QED
      BY <1>1, <1>6, <1>7, UpTo
  <1> QED
    BY <1>1, <1>5, <1>8

(* All the pages differing in the arrays among the first n members of e.   *)
Differing(e, n) ==
  UNION {Listed(Divergent(e[i].pages, local.main)) : i \in Positions(e, "pages") \cap 1 .. n}

LEMMA PagesOfListed ==
  ASSUME NEW divs
  PROVE  PagesOf(divs) = UNION {Listed(d.pages) : d \in Listed(divs)}
  BY DEF PagesOf, Listed

LEMMA PagesOfJoined ==
  ASSUME NEW S, NEW a \in Seq(S), NEW b \in Seq(S)
  PROVE  PagesOf(a \o b) = PagesOf(a) \cup PagesOf(b)
  BY PagesOfListed, ListedAppend

LEMMA FoundTyped ==
  ASSUME local.main \in Seq(STRING), NEW m \in EntryMember
  PROVE  /\ Found(m) \in Seq(PageDiv)
         /\ PagesOf(Found(m)) =
              IF m.key = "pages" THEN Listed(Divergent(m.pages, local.main)) ELSE {}
  <1> DEFINE pages == Divergent(m.pages, local.main)
  <1>1. m.pages \in Seq(Page)
    BY DEF EntryMember
  <1>2. pages \in Seq(Page)
    <2>1. pages \in Seq(Listed(m.pages))
      BY <1>1, MergeFindsTheDifference
    <2>2. Listed(m.pages) \subseteq Page
      BY <1>1 DEF Listed
    <2> HIDE DEF pages
    <2> QED
      BY <2>1, <2>2
  <1>3. CASE m.key # "pages" \/ pages = <<>>
    <2>1. Found(m) = <<>>
      BY <1>3 DEF Found
    <2>2. PagesOf(<<>>) = {} /\ Listed(<<>>) = {}
      BY DEF PagesOf, Listed
    <2> QED
      BY <1>3, <2>1, <2>2
  <1>4. CASE m.key = "pages" /\ pages # <<>>
    <2>1. Found(m) = <<PagesDivergence(pages)>>
      BY <1>4 DEF Found
    <2> HIDE DEF pages
    <2>2. PagesDivergence(pages) \in PageDiv
      BY <1>2, <1>4 DEF PageDiv
    <2>3. PagesOf(<<PagesDivergence(pages)>>) = Listed(pages)
      <3>1. Listed(<<PagesDivergence(pages)>>) = {PagesDivergence(pages)}
        BY DEF Listed
      <3>2. PagesDivergence(pages).pages = pages
        BY DEF PagesDivergence
      <3> QED
        BY <3>1, <3>2, PagesOfListed
    <2> QED
      BY <1>4, <2>1, <2>2, <2>3 DEF pages
  <1> QED
    BY <1>3, <1>4

LEMMA ReportedTyped ==
  ASSUME local.main \in Seq(STRING), NEW e \in Seq(EntryMember)
  PROVE  /\ Reported(e) \in Seq(PageDiv)
         /\ PagesOf(Reported(e)) = Differing(e, Len(e))
  <1> DEFINE N == Len(e)
             V == Seq(PageDiv)
             step == [n \in 1 .. N |-> [v \in V |-> v \o Found(e[n])]]
             g == CHOOSE f : f = ReportedFrom(e, f)
             A == {n \in 0 .. N : g[n] \in V /\ PagesOf(g[n]) = Differing(e, n)}
  <1>1. N \in Nat /\ <<>> \in V /\ \A n \in 1 .. N : e[n] \in EntryMember
    OBVIOUS
  <1>2. \A n \in 1 .. N : Found(e[n]) \in V
    BY <1>1, FoundTyped
  <1>3. step \in [1 .. N -> [V -> V]]
    <2>1. \A n \in 1 .. N : \A v \in V : v \o Found(e[n]) \in V
      BY <1>2
    <2> HIDE DEF V, N
    <2> QED
      BY <2>1
  <1>4. \E f : f = ReportedFrom(e, f)
    <2>1. PICK f \in [0 .. N -> V] : Iteration(f, N, <<>>, step)
      <3> HIDE DEF N, V, step
      <3> QED
        BY <1>1, <1>3, Iterates
    <2>2. f = [n \in 0 .. N |-> f[n]]
      OBVIOUS
    <2>3. \A n \in 0 .. N : f[n] = IF n = 0 THEN <<>> ELSE f[n - 1] \o Found(e[n])
      <3> SUFFICES ASSUME NEW n \in 1 .. N
                   PROVE  f[n] = f[n - 1] \o Found(e[n])
        <4> HIDE DEF V, step, N
        <4>1. \A n \in 0 .. N : n = 0 \/ n \in 1 .. N
          BY <1>1
        <4> QED
          BY <2>1, <4>1 DEF Iteration
      <3>1. n - 1 \in 0 .. N
        OBVIOUS
      <3> HIDE DEF V
      <3> QED
        BY <2>1, <3>1 DEF Iteration
    <2>4. f = ReportedFrom(e, f)
      BY <2>2, <2>3 DEF ReportedFrom
    <2> QED
      BY <2>4
  <1>5. g = ReportedFrom(e, g)
    BY <1>4
  <1>6. Reported(e) = g[N]
    BY DEF Reported, ReportedFrom
  <1> HIDE DEF g
  <1>7. 0 \in A
    <2>1. g[0] = <<>>
      BY <1>1, <1>5 DEF ReportedFrom
    <2>2. PagesOf(<<>>) = {} /\ Differing(e, 0) = {}
      BY DEF PagesOf, Differing
    <2>3. 0 \in 0 .. N
      BY <1>1
    <2> HIDE DEF V, N
    <2>4. g[0] \in V /\ PagesOf(g[0]) = Differing(e, 0)
      BY <1>1, <2>1, <2>2
    <2> QED
      BY <2>3, <2>4
  <1>8. ASSUME NEW n \in 1 .. N, n - 1 \in A
        PROVE  n \in A
    <2>1. g[n] = g[n - 1] \o Found(e[n])
      <3>1. n \in 0 .. N /\ n # 0
        OBVIOUS
      <3> QED
        BY <1>5, <3>1 DEF ReportedFrom
    <2>2. g[n - 1] \in V /\ PagesOf(g[n - 1]) = Differing(e, n - 1)
      BY <1>8
    <2>3. g[n] \in V /\ PagesOf(g[n]) = PagesOf(g[n - 1]) \cup PagesOf(Found(e[n]))
      BY <1>2, <2>1, <2>2, PagesOfJoined
    <2>4. Differing(e, n) = Differing(e, n - 1) \cup PagesOf(Found(e[n]))
      <3>1. 1 .. n = (1 .. n - 1) \cup {n}
        OBVIOUS
      <3>2. n \in Positions(e, "pages") <=> e[n].key = "pages"
        BY DEF Positions
      <3>3. PagesOf(Found(e[n])) =
              IF e[n].key = "pages" THEN Listed(Divergent(e[n].pages, local.main)) ELSE {}
        BY <1>1, FoundTyped
      <3> QED
        BY <3>1, <3>2, <3>3 DEF Differing
    <2>5. n \in 0 .. N
      OBVIOUS
    <2> HIDE DEF V, N
    <2> QED
      BY <2>2, <2>3, <2>4, <2>5
  <1>9. 0 .. N \subseteq A
    <2> HIDE DEF A, N
    <2> QED
      BY <1>1, <1>7, <1>8, UpTo
  <1> QED
    BY <1>1, <1>6, <1>9
-----------------------------------------------------------------------------
(* What is written passes the gates of apply.                              *)
Text == STRING \cup {""}  \* the provers do not know that "" is a string
WholeDiv == [kind : {"whole_file"}, path : Text, hash : Text, pages : {<<>>},
             source : {"", "fetch_full"}]
PlanDivs == PageDiv \cup WholeDiv
DivAsRead(d) ==
  [d EXCEPT !.hash = IF d.kind = "whole_file" THEN "canonical" ELSE "",
            !.pages = [k \in 1 .. Len(d.pages) |-> "canonical"]]

LEMMA DivAsReadOK ==
  ASSUME NEW d \in PlanDivs
  PROVE  /\ ShapeOK(DivAsRead(d))
         /\ \A n \in 1 .. Len(DivAsRead(d).pages) : DivAsRead(d).pages[n] = "canonical"
  <1> DEFINE read == [k \in 1 .. Len(d.pages) |-> "canonical"]
  <1>1. CASE d \in PageDiv
    <2>1. PICK pages \in Seq(Page) \ {<<>>} : d = PagesDivergence(pages)
      BY <1>1 DEF PageDiv
    <2>2. /\ DivAsRead(d).kind = "sqlite_pages" /\ DivAsRead(d).source = ""
          /\ DivAsRead(d).hash = "" /\ DivAsRead(d).pages = read /\ d.pages = pages
      BY <2>1 DEF DivAsRead, PagesDivergence
    <2>3. Len(pages) \in Nat /\ Len(pages) # 0
      OBVIOUS
    <2>4. Len(read) = Len(pages) /\ \A n \in 1 .. Len(read) : read[n] = "canonical"
      <3>1. read = [k \in 1 .. Len(pages) |-> "canonical"]
        BY <2>2
      <3> HIDE DEF read
      <3>2. Len(read) = Len(pages)
        BY <2>3, <3>1
      <3> QED
        BY <2>3, <3>1, <3>2
    <2>5. read # <<>>
      BY <2>3, <2>4
    <2> HIDE DEF read
    <2> QED
      BY <2>2, <2>4, <2>5 DEF ShapeOK
  <1>2. CASE d \in WholeDiv
    <2>1. /\ DivAsRead(d).kind = "whole_file" /\ DivAsRead(d).hash = "canonical"
          /\ DivAsRead(d).pages = read /\ d.pages = <<>>
      BY <1>2 DEF DivAsRead, WholeDiv
    <2>2. read = <<>>
      BY <2>1
    <2> QED
      BY <2>1, <2>2 DEF ShapeOK
  <1> QED
    BY <1>1, <1>2 DEF PlanDivs

Written(divs) == Append(Payload(divs), SelfHash(5))

(* What a member with other divergences has in its fields.                 *)
LEMMA MemberFields ==
  ASSUME NEW key, NEW val, NEW covers, NEW divs, NEW d
  PROVE  LET m == [key |-> key, val |-> val, covers |-> covers, divs |-> divs] IN
         /\ m.key = key /\ m.val = val /\ m.covers = covers /\ m.divs = divs
         /\ [m EXCEPT !.divs = d].key = key /\ [m EXCEPT !.divs = d].val = val
         /\ [m EXCEPT !.divs = d].covers = covers /\ [m EXCEPT !.divs = d].divs = d
  OBVIOUS

IsMember(m, key, val, covers, divs) ==
  m = [key |-> key, val |-> val, covers |-> covers, divs |-> divs]
DivsAsRead(divs) == [i \in 1 .. Len(divs) |-> DivAsRead(divs[i])]
ReadAs(m) == [m EXCEPT !.divs = DivsAsRead(m.divs)]

LEMMA ReadFields ==
  \A m, key, val, covers, divs :
    IsMember(m, key, val, covers, divs) =>
      ReadAs(m).key = key /\ ReadAs(m).val = val /\ ReadAs(m).covers = covers
  BY MemberFields DEF IsMember, ReadAs

LEMMA MemberKey ==
  \A m, key, val, covers, divs :
    IsMember(m, key, val, covers, divs) => m.key = key /\ m.divs = divs
  BY MemberFields DEF IsMember

LEMMA ReadDivs ==
  \A m, key, val, covers, divs :
    IsMember(m, key, val, covers, divs) => ReadAs(m).divs = DivsAsRead(divs)
  BY MemberFields DEF IsMember, ReadAs

IsPlanOf(w, divs) ==
  /\ Len(w) = 6
  /\ IsMember(w[1], "canonical_identity", "id", 0, <<>>)
  /\ IsMember(w[2], "divergences", "", 0, divs)
  /\ IsMember(w[3], "format_version", FormatVersion, 0, <<>>)
  /\ IsMember(w[4], "manifest_url", "url", 0, <<>>)
  /\ IsMember(w[5], "pocketdb_path", "path", 0, <<>>)
  /\ IsMember(w[6], "self_hash", "", 5, <<>>)

LEMMA WrittenMembers ==
  ASSUME NEW divs
  PROVE  IsPlanOf(Written(divs), divs)
  <1> DEFINE doc == Written(divs)
  <1>1. doc = Append(<<Member("canonical_identity", "id"), Divergences(divs),
                       Member("format_version", FormatVersion), Member("manifest_url", "url"),
                       Member("pocketdb_path", "path")>>, SelfHash(5))
    BY DEF Written, Payload
  <1>2. /\ Len(doc) = 6
        /\ doc[1] = Member("canonical_identity", "id") /\ doc[2] = Divergences(divs)
        /\ doc[3] = Member("format_version", FormatVersion)
        /\ doc[4] = Member("manifest_url", "url") /\ doc[5] = Member("pocketdb_path", "path")
        /\ doc[6] = SelfHash(5)
    <2> HIDE DEF doc
    <2> QED
      BY <1>1
  <1>3. /\ \A key, val : IsMember(Member(key, val), key, val, 0, <<>>)
        /\ IsMember(Divergences(divs), "divergences", "", 0, divs)
        /\ IsMember(SelfHash(5), "self_hash", "", 5, <<>>)
    BY DEF Member, Divergences, SelfHash, IsMember
  <1> HIDE DEF doc
  <1>4. QED
    BY <1>2, <1>3 DEF doc, IsPlanOf

LEMMA AsReadMembers ==
  ASSUME NEW w, NEW divs, IsPlanOf(w, divs)
  PROVE  /\ Len(AsRead(w)) = 6 /\ DOMAIN AsRead(w) = 1 .. 6
         /\ AsRead(w)[1].key = "canonical_identity" /\ AsRead(w)[2].key = "divergences"
         /\ AsRead(w)[3].key = "format_version" /\ AsRead(w)[4].key = "manifest_url"
         /\ AsRead(w)[5].key = "pocketdb_path" /\ AsRead(w)[6].key = "self_hash"
         /\ AsRead(w)[3].val = FormatVersion /\ AsRead(w)[6].covers = 5
         /\ AsRead(w)[2].divs = DivsAsRead(divs)
  <1>1. AsRead(w) = [n \in 1 .. 6 |-> ReadAs(w[n])]
    BY DEF AsRead, DivAsRead, DivsAsRead, ReadAs, IsPlanOf
  <1>2. AsRead(w)[1] = ReadAs(w[1]) /\ AsRead(w)[2] = ReadAs(w[2]) /\ AsRead(w)[3] = ReadAs(w[3])
          /\ AsRead(w)[4] = ReadAs(w[4]) /\ AsRead(w)[5] = ReadAs(w[5])
          /\ AsRead(w)[6] = ReadAs(w[6])
    BY <1>1
  <1>3. Len(AsRead(w)) = 6 /\ DOMAIN AsRead(w) = 1 .. 6
    BY <1>1
  <1>4. /\ ReadAs(w[1]).key = "canonical_identity" /\ ReadAs(w[2]).key = "divergences"
        /\ ReadAs(w[3]).key = "format_version" /\ ReadAs(w[4]).key = "manifest_url"
        /\ ReadAs(w[5]).key = "pocketdb_path" /\ ReadAs(w[6]).key = "self_hash"
        /\ ReadAs(w[3]).val = FormatVersion /\ ReadAs(w[6]).covers = 5
    <2>1. ReadAs(w[1]).key = "canonical_identity"
      <3>1. IsMember(w[1], "canonical_identity", "id", 0, <<>>)
        BY DEF IsPlanOf
      <3> QED
        BY <3>1, ReadFields
    <2>2. ReadAs(w[2]).key = "divergences"
      <3>1. IsMember(w[2], "divergences", "", 0, divs)
        BY DEF IsPlanOf
      <3> QED
        BY <3>1, ReadFields
    <2>3. ReadAs(w[3]).key = "format_version" /\ ReadAs(w[3]).val = FormatVersion
      <3>1. IsMember(w[3], "format_version", FormatVersion, 0, <<>>)
        BY DEF IsPlanOf
      <3> QED
        BY <3>1, ReadFields
    <2>4. ReadAs(w[4]).key = "manifest_url"
      <3>1. IsMember(w[4], "manifest_url", "url", 0, <<>>)
        BY DEF IsPlanOf
      <3> QED
        BY <3>1, ReadFields
    <2>5. ReadAs(w[5]).key = "pocketdb_path"
      <3>1. IsMember(w[5], "pocketdb_path", "path", 0, <<>>)
        BY DEF IsPlanOf
      <3> QED
        BY <3>1, ReadFields
    <2>6. ReadAs(w[6]).key = "self_hash" /\ ReadAs(w[6]).covers = 5
      <3>1. IsMember(w[6], "self_hash", "", 5, <<>>)
        BY DEF IsPlanOf
      <3> QED
        BY <3>1, ReadFields
    <2> QED
      BY <2>1, <2>2, <2>3, <2>4, <2>5, <2>6
  <1>5. ReadAs(w[2]).divs = DivsAsRead(divs)
    <2>1. IsMember(w[2], "divergences", "", 0, divs)
      BY DEF IsPlanOf
    <2> QED
      BY <2>1, ReadDivs
  <1> QED
    BY <1>2, <1>3, <1>4, <1>5

LEMMA KeysOfPlan ==
  ASSUME NEW doc, Len(doc) = 6,
         doc[1].key = "canonical_identity", doc[2].key = "divergences",
         doc[3].key = "format_version", doc[4].key = "manifest_url",
         doc[5].key = "pocketdb_path", doc[6].key = "self_hash"
  PROVE  /\ Positions(doc, "torn") = {}
         /\ Positions(doc, "divergences") = {2}
         /\ Positions(doc, "format_version") = {3}
         /\ Positions(doc, "self_hash") = {6}
         /\ LastOf(doc, "divergences") = 2
         /\ LastOf(doc, "format_version") = 3
         /\ LastOf(doc, "self_hash") = 6
  <1>1. \A i \in 1 .. Len(doc) : i = 1 \/ i = 2 \/ i = 3 \/ i = 4 \/ i = 5 \/ i = 6
    OBVIOUS
  <1>2. 2 \in 1 .. Len(doc) /\ 3 \in 1 .. Len(doc) /\ 6 \in 1 .. Len(doc)
    OBVIOUS
  <1>3. Positions(doc, "torn") = {}
    BY <1>1 DEF Positions
  <1>4. Positions(doc, "divergences") = {2}
    BY <1>1, <1>2 DEF Positions
  <1>5. Positions(doc, "format_version") = {3}
    BY <1>1, <1>2 DEF Positions
  <1>6. Positions(doc, "self_hash") = {6}
    BY <1>1, <1>2 DEF Positions
  <1>7. /\ LastOf(doc, "divergences") = 2 /\ LastOf(doc, "format_version") = 3
        /\ LastOf(doc, "self_hash") = 6
    BY <1>4, <1>5, <1>6 DEF LastOf
  <1> QED
    BY <1>3, <1>4, <1>5, <1>6, <1>7

(* Whatever divergences a run has collected, the plan it writes of them    *)
(* passes the gates of apply on the content of a plan.                     *)
LEMMA WrittenApplicable ==
  ASSUME NEW divs \in Seq(PlanDivs)
  PROVE  Applicable(Written(divs))
  <1> DEFINE doc == AsRead(Written(divs))
  <1>1. /\ Len(doc) = 6 /\ DOMAIN doc = 1 .. 6
        /\ doc[1].key = "canonical_identity" /\ doc[2].key = "divergences"
        /\ doc[3].key = "format_version" /\ doc[4].key = "manifest_url"
        /\ doc[5].key = "pocketdb_path" /\ doc[6].key = "self_hash"
        /\ doc[3].val = FormatVersion /\ doc[6].covers = 5
        /\ doc[2].divs = DivsAsRead(divs)
    BY WrittenMembers, AsReadMembers
  <1> HIDE DEF doc
  <1>2. /\ Positions(doc, "torn") = {}
        /\ Positions(doc, "divergences") = {2}
        /\ Positions(doc, "format_version") = {3}
        /\ Positions(doc, "self_hash") = {6}
        /\ LastOf(doc, "format_version") = 3 /\ LastOf(doc, "self_hash") = 6
    BY <1>1, KeysOfPlan
  <1>3. ~Torn(doc) /\ Has(doc, "self_hash") /\ Has(doc, "format_version")
    BY <1>2 DEF Torn, Has
  <1>4. Readable(doc) /\ Header(doc).version = FormatVersion
    <2>1. Readable(doc)
      BY <1>1, <1>2, <1>3 DEF Readable
    <2>2. Header(doc).version = FormatVersion
      BY <1>1, <1>2, <1>3 DEF Header, Value
    <2> QED
      BY <2>1, <2>2
  <1>5. PrefixMatches(doc, Boundary(doc), Embedded(doc))
    <2>1. Boundary(doc) = 5
      BY <1>2, <1>3 DEF Boundary
    <2>2. Embedded(doc) = Digest(SubSeq(doc, 1, 5))
      BY <1>1, <1>2, <1>3 DEF Embedded
    <2> QED
      BY <1>1, <2>1, <2>2 DEF PrefixMatches
  <1>6. Len(DivsAsRead(divs)) = Len(divs)
          /\ \A i \in 1 .. Len(divs) :
               DivsAsRead(divs)[i] = DivAsRead(divs[i]) /\ divs[i] \in PlanDivs
    BY DEF DivsAsRead
  <1>7. \A i \in 1 .. Len(doc[2].divs) :
          /\ ShapeOK(doc[2].divs[i])
          /\ \A n \in 1 .. Len(doc[2].divs[i].pages) : doc[2].divs[i].pages[n] = "canonical"
    BY <1>1, <1>6, DivAsReadOK
  <1>8. HeadersOK(doc) /\ PageHashesOK(doc)
    <2>1. HeadersOK(doc)
      BY <1>2, <1>3, <1>7 DEF HeadersOK
    <2>2. \A a \in PageArrays(doc) : \E i \in 1 .. Len(doc[2].divs) : a.pages = doc[2].divs[i].pages
      BY <1>2 DEF PageArrays
    <2>3. PageHashesOK(doc)
      BY <1>3, <1>7, <2>2 DEF PageHashesOK
    <2> QED
      BY <2>1, <2>3
  <1> QED
    BY <1>4, <1>5, <1>8 DEF Applicable, doc

(* What a successful run reports its plan to contain.                      *)
LEMMA HeadersOfWritten ==
  ASSUME NEW divs
  PROVE  Headers(Written(divs)) = divs
  <1> DEFINE w == Written(divs)
  <1>1. /\ Len(w) = 6
        /\ w[1].key = "canonical_identity" /\ w[2].key = "divergences"
        /\ w[3].key = "format_version" /\ w[4].key = "manifest_url"
        /\ w[5].key = "pocketdb_path" /\ w[6].key = "self_hash" /\ w[2].divs = divs
    <2>1. IsPlanOf(w, divs)
      BY WrittenMembers
    <2> HIDE DEF w
    <2>2. w[2].key = "divergences" /\ w[2].divs = divs
      <3>1. IsMember(w[2], "divergences", "", 0, divs)
        BY <2>1 DEF IsPlanOf
      <3> QED
        BY <3>1, MemberKey
    <2>3. w[1].key = "canonical_identity"
      <3>1. IsMember(w[1], "canonical_identity", "id", 0, <<>>)
        BY <2>1 DEF IsPlanOf
      <3> QED
        BY <3>1, MemberKey
    <2>4. w[3].key = "format_version"
      <3>1. IsMember(w[3], "format_version", FormatVersion, 0, <<>>)
        BY <2>1 DEF IsPlanOf
      <3> QED
        BY <3>1, MemberKey
    <2>5. w[4].key = "manifest_url"
      <3>1. IsMember(w[4], "manifest_url", "url", 0, <<>>)
        BY <2>1 DEF IsPlanOf
      <3> QED
        BY <3>1, MemberKey
    <2>6. w[5].key = "pocketdb_path"
      <3>1. IsMember(w[5], "pocketdb_path", "path", 0, <<>>)
        BY <2>1 DEF IsPlanOf
      <3> QED
        BY <3>1, MemberKey
    <2>7. w[6].key = "self_hash"
      <3>1. IsMember(w[6], "self_hash", "", 5, <<>>)
        BY <2>1 DEF IsPlanOf
      <3> QED
        BY <3>1, MemberKey
    <2>8. Len(w) = 6
      BY <2>1 DEF IsPlanOf
    <2> QED
      BY <2>2, <2>3, <2>4, <2>5, <2>6, <2>7, <2>8
  <1> HIDE DEF w
  <1>2. Positions(w, "divergences") = {2} /\ LastOf(w, "divergences") = 2
    BY <1>1, KeysOfPlan
  <1> QED
    BY <1>1, <1>2 DEF Headers, Has, w
-----------------------------------------------------------------------------
(* The members of an entry.                                                *)
LEMMA ValueTyped ==
  ASSUME NEW e \in Seq(EntryMember), NEW key
  PROVE  Value(e, key) \in Text
  <1>1. CASE Has(e, key)
    <2>1. LastOf(e, key) \in 1 .. Len(e)
      BY <1>1, LastOfIsPosition DEF Positions
    <2>2. e[LastOf(e, key)] \in EntryMember
      BY <2>1
    <2>3. e[LastOf(e, key)].val \in STRING
      BY <2>2 DEF EntryMember
    <2> QED
      BY <1>1, <2>3 DEF Value, Text
  <1>2. CASE ~Has(e, key)
    BY <1>2 DEF Value, Text
  <1> QED
    BY <1>1, <1>2
-----------------------------------------------------------------------------
(* The runs.  A spool is there as long as its run has a use for it, the    *)
(* predicates hold once they have been passed, and from the writing of the *)
(* temporary plan on it says what the run has collected.                   *)
HasSpool == {"manifest", "entries", "predicates", "finalize", "write", "rename", "renamed"}
Passed == {"finalize", "write", "rename", "renamed"}
PagesOfMain ==
  UNION {PagesPublished(manifest.entries[e]) :
           e \in {x \in 1 .. Len(manifest.entries) : Decoded(manifest.entries[x]).path = Main}}

Collected ==
  /\ sqliteGroup \in [Procs -> Seq(PageDiv)]
  /\ wholeFile \in [Procs -> Seq(WholeDiv)]
  /\ DOMAIN tempDoc = Procs
RunInv(p) ==
  /\ p \in spools => at[p] \in HasSpool \/ result[p] = Killed
  /\ p \in temps => at[p] \in {"write", "rename"} \/ result[p] = Killed
  /\ at[p] \in Passed => FormatOK /\ VersionOK /\ Fits(p) /\ machine.writable
  /\ at[p] \in Passed \cup {"predicates"} \/ result[p] = Success =>
       entry[p] = Len(manifest.entries) + 1
  /\ at[p] \in {"rename", "renamed"} \/ result[p] = Success => tempDoc[p] = Emitted(p)
  /\ at[p] = "down" => entry[p] = 1 /\ sqliteGroup[p] = <<>> /\ wholeFile[p] = <<>>
  /\ PagesOf(sqliteGroup[p]) \subseteq PagesOfMain
RunsInv == \A p \in Procs : RunInv(p)
PlanInv == plan # NoPlan => Applicable(plan)
DInv == TypeOK /\ Collected /\ RunsInv /\ PlanInv

LEMMA InitRuns == Init => DInv
  <1> SUFFICES ASSUME Init PROVE DInv
    OBVIOUS
  <1> USE DEF Init
  <1>1. Len(manifest.entries) \in Nat
    BY DiagnoseAssumption
  <1>2. TypeOK
    BY <1>1, DiagnoseAssumption DEF TypeOK, Places, Codes, Running
  <1>3. Collected
    BY DEF Collected
  <1>4. PagesOf(<<>>) = {}
    BY DEF PagesOf
  <1>5. RunsInv
    BY <1>4 DEF RunsInv, RunInv, Passed, Success, Running
  <1>6. PlanInv
    BY PreviousAssumption DEF PlanInv
  <1> QED
    BY <1>2, <1>3, <1>5, <1>6 DEF DInv

(* A step of one run leaves what belongs to the others.                    *)
Unaffected(q) ==
  /\ manifest' = manifest /\ machine' = machine
  /\ at'[q] = at[q] /\ entry'[q] = entry[q] /\ result'[q] = result[q]
  /\ sqliteGroup'[q] = sqliteGroup[q] /\ wholeFile'[q] = wholeFile[q]
  /\ pageCount'[q] = pageCount[q] /\ tempDoc'[q] = tempDoc[q]
  /\ q \in spools' <=> q \in spools
  /\ q \in temps' <=> q \in temps

LEMMA UnaffectedKeeps ==
  ASSUME NEW q \in Procs, RunInv(q), Unaffected(q)
  PROVE  RunInv(q)'
  <1>1. /\ FormatOK' = FormatOK /\ VersionOK' = VersionOK /\ Fits(q)' = Fits(q)
        /\ machine'.writable = machine.writable
    BY DEF Unaffected, FormatOK, VersionOK, Fits
  <1>2. Emitted(q)' = Emitted(q)
    BY DEF Unaffected, Emitted
  <1>3. PagesOfMain' = PagesOfMain
    BY DEF Unaffected, PagesOfMain
  <1>4. PagesOf(sqliteGroup[q])' = PagesOf(sqliteGroup[q])
    BY DEF Unaffected, PagesOf
  <1> QED
    BY <1>1, <1>2, <1>3, <1>4 DEF RunInv, Unaffected

LEMMA OthersUnaffected ==
  ASSUME TypeOK, Collected, NEW p \in Procs, Step(p) \/ Kill(p), NEW q \in Procs, q # p
  PROVE  Unaffected(q)
  <1> USE DEF TypeOK, Collected, Unaffected, environment, found, onDisk, Goto, Exit, Fail,
              Abort, NextEntry
  <1>1. CASE CheckNode(p) \/ ProbeWritable(p) \/ NewPlanEmitter(p) \/ FetchManifest(p)
    BY <1>1 DEF CheckNode, ProbeWritable, NewPlanEmitter, FetchManifest
  <1>2. CASE SQLiteEntry(p)
    BY <1>2 DEF SQLiteEntry
  <1>3. CASE WholeFileEntry(p)
    BY <1>3 DEF WholeFileEntry
  <1>4. CASE UnknownEntry(p) \/ EntryFails(p) \/ EntriesEnd(p) \/ Predicates(p)
    BY <1>4 DEF UnknownEntry, EntryFails, EntriesEnd, Predicates
  <1>5. CASE Finalize(p)
    BY <1>5 DEF Finalize, CreateTemp, WritePlan, RenamePlan, RemoveSpool
  <1>6. CASE Kill(p)
    BY <1>6 DEF Kill
  <1> QED
    BY <1>1, <1>2, <1>3, <1>4, <1>5, <1>6 DEF Step, Entries

LEMMA CurrentTyped ==
  ASSUME TypeOK, NEW p \in Procs, Reading(p)
  PROVE  /\ entry[p] \in 1 .. Len(manifest.entries) /\ Len(manifest.entries) \in Nat
         /\ Current[p] = manifest.entries[entry[p]]
         /\ Current[p] \in Seq(EntryMember)
         /\ local.main \in Seq(STRING)
  <1>1. manifest.entries \in Seq(Seq(EntryMember)) /\ local.main \in Seq(STRING)
    BY DiagnoseAssumption DEF TypeOK
  <1>2. entry[p] \in 1 .. Len(manifest.entries) /\ Len(manifest.entries) \in Nat
    BY <1>1 DEF TypeOK, Reading
  <1>3. Current[p] = manifest.entries[entry[p]]
    BY DEF Current
  <1> QED
    BY <1>1, <1>2, <1>3

(* What an entry of pages adds.                                            *)
LEMMA EntryAdds ==
  ASSUME TypeOK, NEW p \in Procs, Reading(p)
  PROVE  /\ Reported(Current[p]) \in Seq(PageDiv)
         /\ Len(Reported(Current[p])) \in Nat
         /\ PageTotal(Reported(Current[p])) \in Nat
         /\ PagesOf(Reported(Current[p])) \subseteq PagesPublished(Current[p])
  <1> DEFINE e == Current[p]
  <1>1. e \in Seq(EntryMember) /\ local.main \in Seq(STRING)
    BY CurrentTyped
  <1> HIDE DEF e
  <1>2. Reported(e) \in Seq(PageDiv) /\ PagesOf(Reported(e)) = Differing(e, Len(e))
    BY <1>1, ReportedTyped
  <1>3. Len(Reported(e)) \in Nat /\ PageTotal(Reported(e)) \in Nat
    BY <1>2, PageTotalTyped
  <1>4. ASSUME NEW i \in Positions(e, "pages")
        PROVE  Listed(Divergent(e[i].pages, local.main)) \subseteq Listed(e[i].pages)
    <2>1. e[i] \in EntryMember
      BY <1>1 DEF Positions
    <2>2. e[i].pages \in Seq(Page)
      BY <2>1 DEF EntryMember
    <2>3. Divergent(e[i].pages, local.main) \in Seq(Listed(e[i].pages))
      BY <1>1, <2>2, MergeFindsTheDifference
    <2> QED
      BY <2>3 DEF Listed
  <1>5. Differing(e, Len(e)) \subseteq PagesPublished(e)
    <2>1. PagesPublished(e) = UNION {Listed(e[i].pages) : i \in Positions(e, "pages")}
      BY DEF PagesPublished, Listed
    <2> QED
      BY <1>4, <2>1 DEF Differing
  <1> QED
    BY <1>2, <1>3, <1>5 DEF e

(* Most steps move one run, and may add or remove its files.               *)
Moves(p) ==
  /\ at[p] # "ended"
  /\ \/ \E next \in Places \ {"ended"} : Goto(p, next)
     \/ \E code \in Codes \ {Running} : Exit(p, code)
  /\ spools' \subseteq spools \cup {p} /\ temps' \subseteq temps \cup {p}
  /\ DOMAIN tempDoc' = DOMAIN tempDoc
  /\ UNCHANGED <<environment, entry, found, disturbed>>

LEMMA MovesPreserveTypes ==
  ASSUME TypeOK, Collected, NEW p \in Procs, Moves(p)
  PROVE  TypeOK' /\ Collected'
  <1>1. /\ at' \in [Procs -> Places] /\ result' \in [Procs -> Codes]
        /\ \A q \in Procs : at'[q] = "ended" <=> result'[q] # Running
    <2>1. CASE \E next \in Places \ {"ended"} : Goto(p, next)
      BY <2>1 DEF TypeOK, Goto, Moves
    <2>2. CASE \E code \in Codes \ {Running} : Exit(p, code)
      <3>1. PICK code \in Codes \ {Running} : Exit(p, code)
        BY <2>2
      <3>2. "ended" \in Places
        BY DEF Places
      <3> QED
        BY <3>1, <3>2 DEF TypeOK, Exit
    <2> QED
      BY <2>1, <2>2 DEF Moves
  <1>2. spools' \subseteq Procs /\ temps' \subseteq Procs
    BY DEF Moves, TypeOK
  <1> QED
    BY <1>1, <1>2 DEF TypeOK, Collected, Moves, environment, found

LEMMA FilesMove ==
  ASSUME NEW p \in Procs, Fail(p, GenericError) \/ Fail(p, Capacity) \/ Fail(p, VersionMismatch)
           \/ Fail(p, PermissionReadOnly) \/ Fail(p, Panic)
           \/ Fail(p, ManifestFormatVersionUnrecognized)
  PROVE  /\ \E code \in Codes \ {Running} : Exit(p, code)
         /\ spools' \subseteq spools \cup {p} /\ temps' \subseteq temps \cup {p}
         /\ DOMAIN tempDoc' = DOMAIN tempDoc
  BY DEF Fail, Abort, Codes, GenericError, Capacity, VersionMismatch, PermissionReadOnly, Panic,
         ManifestFormatVersionUnrecognized, Running, Success, RunningNode, Killed

LEMMA MovingSteps ==
  ASSUME TypeOK, NEW p \in Procs,
         \/ CheckNode(p) \/ ProbeWritable(p) \/ NewPlanEmitter(p) \/ FetchManifest(p)
         \/ EntryFails(p) \/ EntriesEnd(p) \/ Predicates(p) \/ Finalize(p) \/ Kill(p)
  PROVE  Moves(p)
  <1> USE DEF onDisk
  <1>0. /\ GenericError \in Codes \ {Running} /\ RunningNode \in Codes \ {Running}
        /\ Success \in Codes \ {Running} /\ Killed \in Codes \ {Running}
    BY DEF Codes, GenericError, RunningNode, Success, Killed, Running, Panic
  <1>1. CASE CheckNode(p) \/ ProbeWritable(p) \/ NewPlanEmitter(p)
    BY <1>0, <1>1 DEF CheckNode, ProbeWritable, NewPlanEmitter, Moves, Places
  <1>2. CASE FetchManifest(p)
    <2>1. CASE Fail(p, Capacity) \/ Fail(p, GenericError)
      BY <1>2, <2>1, FilesMove DEF FetchManifest, Moves
    <2>2. CASE Goto(p, "entries") /\ UNCHANGED onDisk
      BY <1>2, <2>2 DEF FetchManifest, Moves, Places
    <2> QED
      BY <1>2, <2>1, <2>2 DEF FetchManifest
  <1>3. CASE EntryFails(p)
    BY <1>3, FilesMove DEF EntryFails, Reading, Moves
  <1>4. CASE EntriesEnd(p)
    <2>1. CASE Fail(p, GenericError)
      BY <1>4, <2>1, FilesMove DEF EntriesEnd, Moves
    <2>2. CASE Goto(p, "predicates") /\ UNCHANGED onDisk
      BY <1>4, <2>2 DEF EntriesEnd, Moves, Places
    <2> QED
      BY <1>4, <2>1, <2>2 DEF EntriesEnd
  <1>5. CASE Predicates(p)
    <2>1. CASE Goto(p, "finalize") /\ UNCHANGED onDisk
      BY <1>5, <2>1 DEF Predicates, Moves, Places
    <2>2. CASE ~(Goto(p, "finalize") /\ UNCHANGED onDisk)
      BY <1>5, <2>2, FilesMove DEF Predicates, Moves
    <2> QED
      BY <2>1, <2>2
  <1>6. CASE CreateTemp(p)
    <2>1. CASE Fail(p, GenericError)
      BY <1>6, <2>1, FilesMove DEF CreateTemp, Moves
    <2>2. CASE ~Fail(p, GenericError)
      BY <1>6, <2>2 DEF CreateTemp, Moves, Places
    <2> QED
      BY <2>1, <2>2
  <1>7. CASE WritePlan(p)
    <2>1. CASE Fail(p, GenericError)
      BY <1>7, <2>1, FilesMove DEF WritePlan, Moves
    <2>2. CASE ~Fail(p, GenericError)
      BY <1>7, <2>2 DEF WritePlan, Moves, Places
    <2> QED
      BY <2>1, <2>2
  <1>8. CASE RenamePlan(p)
    <2>1. CASE Fail(p, GenericError)
      BY <1>8, <2>1, FilesMove DEF RenamePlan, Moves
    <2>2. CASE ~Fail(p, GenericError)
      BY <1>8, <2>2 DEF RenamePlan, Moves, Places
    <2> QED
      BY <2>1, <2>2
  <1>9. CASE RemoveSpool(p) \/ Kill(p)
    BY <1>0, <1>9 DEF RemoveSpool, Kill, Moves
  <1> QED
    BY <1>1, <1>2, <1>3, <1>4, <1>5, <1>6, <1>7, <1>8, <1>9 DEF Finalize

LEMMA TypesPreserved ==
  ASSUME TypeOK, Collected, NEW p \in Procs, Step(p) \/ Kill(p)
  PROVE  TypeOK' /\ Collected'
  <1> USE DEF environment, found, onDisk, NextEntry
  <1>1. CASE \/ CheckNode(p) \/ ProbeWritable(p) \/ NewPlanEmitter(p) \/ FetchManifest(p)
             \/ EntryFails(p) \/ EntriesEnd(p) \/ Predicates(p) \/ Finalize(p) \/ Kill(p)
    BY <1>1, MovingSteps, MovesPreserveTypes
  <1>2. CASE SQLiteEntry(p)
    <2> DEFINE divs == Reported(Current[p])
    <2>1. Reading(p) /\ Len(manifest.entries) \in Nat /\ entry[p] \in 1 .. Len(manifest.entries)
      BY <1>2, CurrentTyped DEF SQLiteEntry
    <2>2. divs \in Seq(PageDiv) /\ Len(divs) \in Nat /\ PageTotal(divs) \in Nat
      BY <2>1, EntryAdds
    <2>3. /\ sqliteGroup' = [sqliteGroup EXCEPT ![p] = @ \o divs]
          /\ fileCount' = [fileCount EXCEPT ![p] = @ + Len(divs)]
          /\ pageCount' = [pageCount EXCEPT ![p] = @ + PageTotal(divs)]
          /\ entry' = [entry EXCEPT ![p] = @ + 1]
          /\ UNCHANGED <<at, result, environment, onDisk, wholeFile, disturbed>>
      BY <1>2 DEF SQLiteEntry
    <2> HIDE DEF divs
    <2>4. entry' \in [Procs -> 1 .. Len(manifest.entries) + 1]
      BY <2>1, <2>3 DEF TypeOK
    <2>5. sqliteGroup' \in [Procs -> Seq(PageDiv)]
      BY <2>2, <2>3 DEF Collected
    <2>6. fileCount' \in [Procs -> Nat] /\ pageCount' \in [Procs -> Nat]
      BY <2>2, <2>3 DEF TypeOK
    <2> QED
      BY <2>3, <2>4, <2>5, <2>6 DEF TypeOK, Collected
  <1>3. CASE WholeFileEntry(p)
    <2> DEFINE path == Value(Current[p], "path")
               hash == Value(Current[p], "hash")
    <2>1. Reading(p) /\ Len(manifest.entries) \in Nat /\ entry[p] \in 1 .. Len(manifest.entries)
            /\ Current[p] \in Seq(EntryMember)
      BY <1>3, CurrentTyped DEF WholeFileEntry
    <2>2. entry' = [entry EXCEPT ![p] = @ + 1]
            /\ UNCHANGED <<at, result, environment, onDisk, sqliteGroup, pageCount, disturbed>>
      BY <1>3 DEF WholeFileEntry
    <2>3. path \in Text /\ hash \in Text
      BY <2>1, ValueTyped
    <2>4. WholeDivergence(path, hash) \in WholeDiv
      <3> HIDE DEF path, hash
      <3> QED
        BY <2>3 DEF WholeDivergence, WholeDiv
    <2>5. \/ UNCHANGED <<wholeFile, fileCount>>
          \/ /\ wholeFile' = [wholeFile EXCEPT ![p] = Append(@, WholeDivergence(path, hash))]
             /\ fileCount' = [fileCount EXCEPT ![p] = @ + 1]
      BY <1>3 DEF WholeFileEntry
    <2> HIDE DEF path, hash
    <2>6. wholeFile' \in [Procs -> Seq(WholeDiv)]
      <3>1. Append(wholeFile[p], WholeDivergence(path, hash)) \in Seq(WholeDiv)
        BY <2>4 DEF Collected
      <3> QED
        BY <2>5, <3>1 DEF Collected
    <2>7. fileCount' \in [Procs -> Nat]
      <3>1. fileCount' = fileCount \/ fileCount' = [fileCount EXCEPT ![p] = @ + 1]
        BY <2>5
      <3> QED
        BY <3>1 DEF TypeOK
    <2>8. entry' \in [Procs -> 1 .. Len(manifest.entries) + 1]
      BY <2>1, <2>2 DEF TypeOK
    <2> QED
      BY <2>2, <2>6, <2>7, <2>8 DEF TypeOK, Collected
  <1>4. CASE UnknownEntry(p)
    <2>1. Reading(p) /\ Len(manifest.entries) \in Nat /\ entry[p] \in 1 .. Len(manifest.entries)
      BY <1>4, CurrentTyped DEF UnknownEntry
    <2>2. entry' = [entry EXCEPT ![p] = @ + 1]
            /\ UNCHANGED <<at, result, environment, onDisk, found, disturbed>>
      BY <1>4 DEF UnknownEntry
    <2>3. entry' \in [Procs -> 1 .. Len(manifest.entries) + 1]
      BY <2>1, <2>2 DEF TypeOK
    <2> QED
      BY <2>2, <2>3 DEF TypeOK, Collected
  <1> QED
    BY <1>1, <1>2, <1>3, <1>4 DEF Step, Entries

(* Steps that leave what the run has collected.                            *)
Keeps(p) == UNCHANGED <<manifest, machine, entry, sqliteGroup, wholeFile, pageCount>>

LEMMA KeepsMeans ==
  ASSUME NEW p \in Procs, Keeps(p)
  PROVE  /\ FormatOK' = FormatOK /\ VersionOK' = VersionOK /\ Fits(p)' = Fits(p)
         /\ Emitted(p)' = Emitted(p) /\ PagesOfMain' = PagesOfMain
         /\ PagesOf(sqliteGroup[p])' = PagesOf(sqliteGroup[p])
  BY DEF Keeps, FormatOK, VersionOK, Fits, Emitted, PagesOfMain, PagesOf

LEMMA RunsOn ==
  ASSUME TypeOK, NEW p \in Procs, at[p] # "ended"
  PROVE  result[p] # Success /\ result[p] # Killed
  <1>1. result[p] = Running
    BY DEF TypeOK
  <1> QED
    BY <1>1 DEF Success, Killed, Running

LEMMA GotoMeans ==
  ASSUME TypeOK, NEW p \in Procs, at[p] # "ended", NEW next, Goto(p, next)
  PROVE  /\ at'[p] = next /\ result'[p] = result[p]
         /\ result[p] # Success /\ result[p] # Killed
         /\ result'[p] # Success /\ result'[p] # Killed
  <1>1. at'[p] = next /\ result'[p] = result[p]
    BY DEF TypeOK, Goto
  <1>2. result[p] = Running
    BY DEF TypeOK
  <1> QED
    BY <1>1, <1>2 DEF Success, Killed, Running

LEMMA ExitMeans ==
  ASSUME TypeOK, NEW p \in Procs, NEW code, Exit(p, code)
  PROVE  at'[p] = "ended" /\ result'[p] = code
  BY DEF TypeOK, Exit

LEMMA FailKeepsRun ==
  ASSUME TypeOK, RunsInv, NEW p \in Procs, Keeps(p),
         \/ Fail(p, GenericError) \/ Fail(p, Capacity) \/ Fail(p, VersionMismatch)
         \/ Fail(p, PermissionReadOnly) \/ Fail(p, Panic)
         \/ Fail(p, ManifestFormatVersionUnrecognized)
  PROVE  RunInv(p)'
  <1>1. at'[p] = "ended" /\ result'[p] # Success /\ p \notin spools' /\ p \notin temps'
    BY ExitMeans DEF Fail, Abort, Success, GenericError, Capacity, VersionMismatch,
         PermissionReadOnly, Panic, ManifestFormatVersionUnrecognized
  <1> QED
    BY <1>1, KeepsMeans DEF RunsInv, RunInv, Keeps, Passed

LEMMA RunKept ==
  ASSUME DInv, NEW p \in Procs, Step(p) \/ Kill(p)
  PROVE  RunInv(p)'
  <1> USE DEF onDisk
  <1>0. TypeOK /\ RunsInv /\ RunInv(p) /\ DOMAIN tempDoc = Procs
    BY DEF DInv, Collected, RunsInv
  <1>k. ASSUME \/ CheckNode(p) \/ ProbeWritable(p) \/ NewPlanEmitter(p) \/ FetchManifest(p)
               \/ EntryFails(p) \/ EntriesEnd(p) \/ Predicates(p) \/ Finalize(p) \/ Kill(p)
        PROVE  Keeps(p)
    BY <1>k DEF Keeps, environment, found, CheckNode, ProbeWritable, NewPlanEmitter, FetchManifest,
         EntryFails, EntriesEnd, Predicates, Finalize, CreateTemp, WritePlan, RenamePlan,
         RemoveSpool, Kill
  <1>1. CASE CheckNode(p) \/ ProbeWritable(p)
    <2>1. Keeps(p) /\ UNCHANGED <<spools, temps, tempDoc>> /\ at[p] \in {"down", "probe"}
      BY <1>1, <1>k DEF CheckNode, ProbeWritable
    <2>2. \/ at'[p] \in {"probe", "emitter"} /\ result'[p] # Success
          \/ at'[p] = "ended" /\ result'[p] # Success
      BY <1>0, <1>1, <2>1, GotoMeans, ExitMeans
         DEF CheckNode, ProbeWritable, GenericError, RunningNode, Success
    <2>3. p \notin spools /\ p \notin temps
      BY <1>0, <2>1, RunsOn DEF RunInv, HasSpool
    <2> QED
      BY <1>0, <2>1, <2>2, <2>3, KeepsMeans DEF RunInv, Keeps, Passed
  <1>2. CASE NewPlanEmitter(p)
    <2>1. Keeps(p) /\ UNCHANGED <<temps, tempDoc>> /\ at[p] = "emitter"
      BY <1>2, <1>k DEF NewPlanEmitter
    <2>2. \/ at'[p] = "manifest" /\ result'[p] # Success
          \/ at'[p] = "ended" /\ result'[p] # Success /\ spools' = spools
      BY <1>0, <1>2, <2>1, GotoMeans, ExitMeans DEF NewPlanEmitter, GenericError, Success
    <2>3. p \notin spools /\ p \notin temps
      BY <1>0, <2>1, RunsOn DEF RunInv, HasSpool
    <2> QED
      BY <1>0, <2>1, <2>2, <2>3, KeepsMeans DEF RunInv, Keeps, Passed, HasSpool
  <1>3. CASE FetchManifest(p) \/ EntryFails(p) \/ EntriesEnd(p) \/ Predicates(p)
    <2>1. Keeps(p) /\ at[p] \in {"manifest", "entries", "predicates"}
      BY <1>3, <1>k DEF FetchManifest, EntryFails, EntriesEnd, Predicates, Reading
    <2>2. CASE \/ Fail(p, GenericError) \/ Fail(p, Capacity) \/ Fail(p, VersionMismatch)
               \/ Fail(p, PermissionReadOnly) \/ Fail(p, Panic)
               \/ Fail(p, ManifestFormatVersionUnrecognized)
      BY <1>0, <2>1, <2>2, FailKeepsRun
    <2>3. CASE Goto(p, "entries") /\ UNCHANGED onDisk
      BY <1>0, <2>1, <2>3, GotoMeans, KeepsMeans DEF RunInv, Keeps, Passed, HasSpool
    <2>4. CASE EntriesEnd(p) /\ Goto(p, "predicates") /\ UNCHANGED onDisk
      <3>1. entry[p] = Len(manifest.entries) + 1
        <4>1. Len(manifest.entries) \in Nat
          BY <1>0, DiagnoseAssumption DEF TypeOK
        <4> QED
          BY <1>0, <2>4, <4>1 DEF EntriesEnd, TypeOK
      <3> QED
        BY <1>0, <2>1, <2>4, <3>1, GotoMeans, KeepsMeans DEF RunInv, Keeps, Passed, HasSpool
    <2>5. CASE Goto(p, "finalize") /\ UNCHANGED onDisk /\ FormatOK /\ VersionOK /\ Fits(p)
               /\ machine.writable /\ at[p] = "predicates"
      <3>1. at'[p] = "finalize" /\ result'[p] # Success
        BY <1>0, <2>5, GotoMeans
      <3>2. (FormatOK /\ VersionOK /\ Fits(p) /\ machine.writable)'
        BY <2>1, <2>5, KeepsMeans DEF Keeps
      <3>3. (entry[p] = Len(manifest.entries) + 1)'
        BY <1>0, <2>1, <2>5 DEF RunInv, Keeps
      <3>4. p \in temps' => p \in temps
        BY <2>5
      <3>5. p \notin temps
        BY <1>0, <2>5, RunsOn DEF RunInv
      <3> QED
        BY <1>0, <2>1, <3>1, <3>2, <3>3, <3>4, <3>5, KeepsMeans DEF RunInv, Keeps, HasSpool
    <2> QED
      BY <1>3, <2>2, <2>3, <2>4, <2>5 DEF FetchManifest, EntryFails, EntriesEnd, Predicates
  <1>4. CASE CreateTemp(p)
    <2>1. Keeps(p) /\ at[p] = "finalize"
      BY <1>4, <1>k DEF CreateTemp, Finalize
    <2>2. CASE Fail(p, GenericError)
      BY <1>0, <2>1, <2>2, FailKeepsRun
    <2>3. CASE Goto(p, "write") /\ temps' = temps \cup {p} /\ UNCHANGED spools
      <3>1. at'[p] = "write" /\ result'[p] # Success
        BY <1>0, <2>1, <2>3, GotoMeans
      <3> QED
        BY <1>0, <2>1, <2>3, <3>1, KeepsMeans DEF RunInv, Keeps, Passed, HasSpool
    <2> QED
      BY <1>4, <2>2, <2>3 DEF CreateTemp
  <1>5. CASE WritePlan(p)
    <2>1. Keeps(p) /\ at[p] = "write"
      BY <1>5, <1>k DEF WritePlan, Finalize
    <2>2. CASE Fail(p, GenericError)
      BY <1>0, <2>1, <2>2, FailKeepsRun
    <2>3. CASE /\ Goto(p, "rename") /\ tempDoc' = [tempDoc EXCEPT ![p] = Emitted(p)]
               /\ UNCHANGED <<spools, temps>>
      <3>1. tempDoc'[p] = Emitted(p)
        BY <1>0, <2>3
      <3> QED
        BY <1>0, <2>1, <2>3, <3>1, GotoMeans, KeepsMeans DEF RunInv, Keeps, Passed, HasSpool
    <2> QED
      BY <1>5, <2>2, <2>3 DEF WritePlan
  <1>6. CASE RenamePlan(p)
    <2>1. Keeps(p) /\ at[p] = "rename"
      BY <1>6, <1>k DEF RenamePlan, Finalize
    <2>2. CASE Fail(p, GenericError)
      BY <1>0, <2>1, <2>2, FailKeepsRun
    <2>3. CASE Goto(p, "renamed") /\ temps' = temps \ {p} /\ UNCHANGED <<spools, tempDoc>>
      BY <1>0, <2>1, <2>3, GotoMeans, KeepsMeans DEF RunInv, Keeps, Passed, HasSpool
    <2> QED
      BY <1>6, <2>2, <2>3 DEF RenamePlan
  <1>7. CASE RemoveSpool(p)
    <2>1. Keeps(p) /\ at[p] = "renamed" /\ p \notin spools' /\ UNCHANGED <<temps, tempDoc>>
            /\ at'[p] = "ended" /\ result'[p] = Success
      BY <1>0, <1>7, <1>k, ExitMeans DEF RemoveSpool, Finalize
    <2>2. p \notin temps
      BY <1>0, <2>1, RunsOn DEF RunInv
    <2> QED
      BY <1>0, <2>1, <2>2, KeepsMeans DEF RunInv, Keeps, Passed, HasSpool
  <1>8. CASE Kill(p)
    <2>1. Keeps(p) /\ at'[p] = "ended" /\ result'[p] = Killed /\ Killed # Success
      BY <1>0, <1>8, <1>k, ExitMeans DEF Kill, Killed, Success
    <2> QED
      BY <1>0, <2>1, KeepsMeans DEF RunInv, Keeps, Passed, HasSpool
  <1>9. CASE SQLiteEntry(p) \/ WholeFileEntry(p) \/ UnknownEntry(p)
    <2>1. /\ UNCHANGED <<manifest, machine, at, result, spools, temps, tempDoc>> /\ at[p] = "entries"
          /\ Reading(p)
      BY <1>9 DEF SQLiteEntry, WholeFileEntry, UnknownEntry, NextEntry, environment, Reading
    <2>2. result[p] # Success
      BY <1>0, <2>1, RunsOn
    <2>3. PagesOf(sqliteGroup[p])' \subseteq PagesOfMain
      <3>1. CASE SQLiteEntry(p)
        <4> DEFINE divs == Reported(Current[p])
        <4>1. divs \in Seq(PageDiv) /\ PagesOf(divs) \subseteq PagesPublished(Current[p])
          BY <1>0, <2>1, EntryAdds
        <4>2. Current[p] = manifest.entries[entry[p]] /\ entry[p] \in 1 .. Len(manifest.entries)
          BY <1>0, <2>1, CurrentTyped
        <4>3. Decoded(Current[p]).path = Main
          BY <3>1 DEF SQLiteEntry, Attributed, Decoded
        <4>4. PagesPublished(Current[p]) \subseteq PagesOfMain
          BY <4>2, <4>3 DEF PagesOfMain
        <4>5. sqliteGroup[p] \in Seq(PageDiv) /\ sqliteGroup'[p] = sqliteGroup[p] \o divs
          BY <3>1 DEF SQLiteEntry, DInv, Collected
        <4>6. PagesOf(sqliteGroup[p] \o divs) = PagesOf(sqliteGroup[p]) \cup PagesOf(divs)
          BY <4>1, <4>5, PagesOfJoined
        <4>7. PagesOf(sqliteGroup[p])' = PagesOf(sqliteGroup[p] \o divs)
          BY <4>5 DEF PagesOf
        <4> HIDE DEF divs
        <4> QED
          BY <1>0, <4>1, <4>4, <4>6, <4>7 DEF RunInv
      <3>2. CASE UNCHANGED sqliteGroup
        BY <1>0, <3>2 DEF RunInv, PagesOf
      <3> QED
        BY <1>9, <3>1, <3>2 DEF WholeFileEntry, UnknownEntry, found
    <2>4. PagesOfMain' = PagesOfMain
      BY <2>1 DEF PagesOfMain
    <2> QED
      BY <1>0, <2>1, <2>2, <2>3, <2>4 DEF RunInv, Passed
  <1> QED
    BY <1>1, <1>2, <1>3, <1>4, <1>5, <1>6, <1>7, <1>8, <1>9 DEF Step, Entries, Finalize

LEMMA PlanKept ==
  ASSUME DInv, NEW p \in Procs, Step(p) \/ Kill(p)
  PROVE  PlanInv'
  <1>1. CASE UNCHANGED plan
    BY <1>1 DEF DInv, PlanInv
  <1>2. CASE RenamePlan(p) /\ plan' = tempDoc[p]
    <2> DEFINE divs == sqliteGroup[p] \o wholeFile[p]
    <2>1. plan' = Emitted(p)
      BY <1>2 DEF RenamePlan, DInv, RunsInv, RunInv
    <2>2. divs \in Seq(PlanDivs)
      <3>1. sqliteGroup[p] \in Seq(PlanDivs) /\ wholeFile[p] \in Seq(PlanDivs)
        BY DEF DInv, Collected, PlanDivs
      <3> QED
        BY <3>1
    <2>3. Emitted(p) = Written(divs)
      BY DEF Emitted, Written
    <2>4. Applicable(plan')
      <3> HIDE DEF divs
      <3> QED
        BY <2>1, <2>2, <2>3, WrittenApplicable
    <2> QED
      BY <2>4 DEF PlanInv
  <1> QED
    BY <1>1, <1>2 DEF Step, Entries, Finalize, CheckNode, ProbeWritable, NewPlanEmitter,
       FetchManifest, SQLiteEntry, WholeFileEntry, UnknownEntry, EntryFails, EntriesEnd, Predicates,
       CreateTemp, WritePlan, RenamePlan, RemoveSpool, Kill, Fail, onDisk

LEMMA NextKeepsDInv ==
  ASSUME DInv, [Next]_vars
  PROVE  DInv'
  <1>1. CASE NodeSwitched \/ NodeWrites \/ UNCHANGED vars
    <2>1. UNCHANGED <<manifest, machine, onDisk, at, entry, found, result>>
      BY <1>1 DEF NodeSwitched, NodeWrites, vars, environment
    <2>2. TypeOK'
      <3>1. node' \in BOOLEAN
        <4>1. node' = ~node \/ node' = node
          BY <1>1 DEF NodeSwitched, NodeWrites, vars, environment
        <4> QED
          BY <4>1, Zenon DEF DInv, TypeOK
      <3>2. writes' \in 0 .. MaxWrites
        <4>1. writes' = writes \/ (writes < MaxWrites /\ writes' = writes + 1)
          BY <1>1 DEF NodeSwitched, NodeWrites, vars, environment
        <4> QED
          BY <4>1, DiagnoseAssumption DEF DInv, TypeOK
      <3>3. local' \in Locals /\ disturbed' \subseteq Procs
        BY <1>1 DEF NodeSwitched, NodeWrites, vars, environment, DInv, TypeOK
      <3> QED
        BY <2>1, <3>1, <3>2, <3>3 DEF DInv, TypeOK, onDisk, found
    <2>3. Collected' /\ PlanInv'
      BY <2>1 DEF DInv, Collected, PlanInv, onDisk, found
    <2>4. RunsInv'
      BY <2>1, UnaffectedKeeps DEF DInv, RunsInv, Unaffected, onDisk, found
    <2> QED
      BY <2>2, <2>3, <2>4 DEF DInv
  <1>2. ASSUME NEW p \in Procs, Step(p) \/ Kill(p)
        PROVE  DInv'
    <2>1. TypeOK' /\ Collected'
      BY <1>2, TypesPreserved DEF DInv
    <2>2. RunsInv'
      <3>1. RunInv(p)'
        BY <1>2, RunKept
      <3>2. ASSUME NEW q \in Procs, q # p
            PROVE  RunInv(q)'
        BY <1>2, <3>2, OthersUnaffected, UnaffectedKeeps DEF DInv, RunsInv
      <3> QED
        BY <3>1, <3>2 DEF RunsInv
    <2>3. PlanInv'
      BY <1>2, PlanKept
    <2> QED
      BY <2>1, <2>2, <2>3 DEF DInv
  <1> QED
    BY <1>1, <1>2 DEF Next, AllEnded

LEMMA NoPagesInWholes ==
  ASSUME NEW divs \in Seq(WholeDiv)
  PROVE  PagesOf(divs) = {}
  <1>1. \A d \in Listed(divs) : d \in WholeDiv
    BY DEF Listed
  <1>2. \A d \in WholeDiv : d.pages = <<>>
    BY DEF WholeDiv
  <1>3. Listed(<<>>) = {}
    BY DEF Listed
  <1> QED
    BY <1>1, <1>2, <1>3, PagesOfListed

(* The types, for every manifest, datadir, machine and number of runs.     *)
THEOREM DiagnoseTypes == Spec => []TypeOK
  <1>1. DInv => TypeOK
    BY DEF DInv
  <1> QED
    BY <1>1, InitRuns, NextKeepsDInv, PTL DEF Spec

LEMMA DiagnoseInvariant == Spec => []DInv
  BY InitRuns, NextKeepsDInv, PTL DEF Spec

(* "No partial plan is observable at the final path": for any manifest, any*)
(* number of overlapping runs and any kills, what lies at the plan path    *)
(* passes the gates of apply on the content of a plan.                     *)
THEOREM PlanPassesTheGates == Spec => []PlanAlwaysApplicable
  <1>1. DInv => PlanAlwaysApplicable
    BY DEF DInv, PlanInv, PlanAlwaysApplicable
  <1> QED
    BY <1>1, DiagnoseInvariant, PTL

(* A spool or a temporary plan outlives its run only when it was killed.   *)
THEOREM DirectoryIsCleaned == Spec => []NothingLeftBehind
  <1>1. DInv => NothingLeftBehind
    BY DEF DInv, TypeOK, RunsInv, RunInv, HasSpool, NothingLeftBehind
  <1> QED
    BY <1>1, DiagnoseInvariant, PTL

(* No page of another database gets into the plan of a successful run.     *)
THEOREM PagesOfOneFile == Spec => []PagesStayWithTheirFile
  <1>1. DInv => PagesStayWithTheirFile
    <2> SUFFICES ASSUME DInv, NEW p \in Procs, result[p] = Success
                 PROVE  PagesOf(Headers(tempDoc[p])) \subseteq PagesOfMain
      BY DEF PagesStayWithTheirFile, PagesOfMain
    <2>1. tempDoc[p] = Emitted(p) /\ PagesOf(sqliteGroup[p]) \subseteq PagesOfMain
      BY DEF DInv, RunsInv, RunInv
    <2>2. sqliteGroup[p] \in Seq(PlanDivs) /\ wholeFile[p] \in Seq(PlanDivs)
            /\ wholeFile[p] \in Seq(WholeDiv)
      BY DEF DInv, Collected, PlanDivs
    <2>3. Headers(tempDoc[p]) = sqliteGroup[p] \o wholeFile[p]
      BY <2>1, HeadersOfWritten DEF Emitted, Written
    <2>4. PagesOf(sqliteGroup[p] \o wholeFile[p]) =
            PagesOf(sqliteGroup[p]) \cup PagesOf(wholeFile[p])
      BY <2>2, PagesOfJoined
    <2>5. PagesOf(wholeFile[p]) = {}
      BY <2>2, NoPagesInWholes
    <2> QED
      BY <2>1, <2>3, <2>4, <2>5
  <1> QED
    BY <1>1, DiagnoseInvariant, PTL

(* The plan at the path is replaced only by a run that passed every        *)
(* refusal, and by all that it found.                                      *)
THEOREM RefusalsPrecedeThePlan == Spec => PlanReplacedWhole
  <1>1. ASSUME DInv, [Next]_vars
        PROVE  [ plan' # plan =>
                   \E p \in Procs : /\ at[p] = "rename" /\ plan' = Emitted(p)
                                    /\ FormatOK /\ VersionOK /\ Fits(p) /\ machine.writable ]_vars
    <2> SUFFICES ASSUME plan' # plan
                 PROVE  \E p \in Procs :
                           /\ at[p] = "rename" /\ plan' = Emitted(p)
                           /\ FormatOK /\ VersionOK /\ Fits(p) /\ machine.writable
      OBVIOUS
    <2>1. PICK p \in Procs : RenamePlan(p) /\ plan' = tempDoc[p]
      BY <1>1 DEF Next, AllEnded, NodeSwitched, NodeWrites, Step, Entries, Finalize, CheckNode,
         ProbeWritable, NewPlanEmitter, FetchManifest, SQLiteEntry, WholeFileEntry, UnknownEntry,
         EntryFails, EntriesEnd, Predicates, CreateTemp, WritePlan, RenamePlan, RemoveSpool, Kill,
         Fail, vars, onDisk
    <2>2. RunInv(p) /\ at[p] = "rename"
      BY <1>1, <2>1 DEF DInv, RunsInv, RenamePlan
    <2> QED
      BY <2>1, <2>2 DEF RunInv, Passed
  <1> QED
    BY <1>1, DiagnoseInvariant, PTL DEF PlanReplacedWhole, Spec
-----------------------------------------------------------------------------
(* What a run nobody disturbs has collected when it has read n entries, of *)
(* a manifest that repeats no member within an entry.                      *)
DecodedAt(e) == Decoded(manifest.entries[e])
Plain == \A e \in 1 .. Len(manifest.entries) : NoneRepeated(manifest.entries[e])
PagesDueAt(e) == Listed(Divergent(DecodedAt(e).pages, local.main))
WholeDueAt(e) ==
  [path |-> DecodedAt(e).path, hash |-> DecodedAt(e).hash,
   source |-> IF local.whole[DecodedAt(e).path] = NoFile THEN "fetch_full" ELSE ""]
Stale(e) == local.whole[DecodedAt(e).path] # DecodedAt(e).hash
PagesDue(n) == UNION {PagesDueAt(e) : e \in EntriesOf("sqlite_pages") \cap 1 .. n}
WholesDue(n) == {WholeDueAt(e) : e \in {x \in EntriesOf("whole_file") \cap 1 .. n : Stale(x)}}
DiffInv(p) ==
  p \notin disturbed /\ Plain =>
    /\ PagesOf(sqliteGroup[p]) = PagesDue(entry[p] - 1)
    /\ WholesOf(wholeFile[p]) = WholesDue(entry[p] - 1)
DiffsInv == \A p \in Procs : DiffInv(p)

LEMMA DueNext ==
  ASSUME NEW n \in 1 .. Len(manifest.entries)
  PROVE  /\ PagesDue(n) = PagesDue(n - 1) \cup
              (IF DecodedAt(n).kind = "sqlite_pages" THEN PagesDueAt(n) ELSE {})
         /\ WholesDue(n) = WholesDue(n - 1) \cup
              (IF DecodedAt(n).kind = "whole_file" /\ Stale(n) THEN {WholeDueAt(n)} ELSE {})
  <1>1. 1 .. n = (1 .. n - 1) \cup {n}
    OBVIOUS
  <1>2. \A kind : n \in EntriesOf(kind) <=> DecodedAt(n).kind = kind
    BY DEF EntriesOf, DecodedAt
  <1>3. \A kind : EntriesOf(kind) \cap 1 .. n =
          (EntriesOf(kind) \cap 1 .. n - 1) \cup (IF DecodedAt(n).kind = kind THEN {n} ELSE {})
    BY <1>1, <1>2
  <1> QED
    BY <1>3 DEF PagesDue, WholesDue

LEMMA OnePosition ==
  ASSUME NEW e \in Seq(EntryMember), NoneRepeated(e), NEW key, Has(e, key)
  PROVE  Positions(e, key) = {LastOf(e, key)}
  <1>1. LastOf(e, key) \in Positions(e, key)
    BY LastOfIsPosition
  <1> QED
    BY <1>1 DEF Positions, NoneRepeated

(* The kind that was read before the pages is the kind of the entry.       *)
LEMMA KindOfPages ==
  ASSUME NEW e \in Seq(EntryMember), NoneRepeated(e), Has(e, "pages"), ~Undecodable(e)
  PROVE  Decoded(e).kind = "sqlite_pages"
  <1> DEFINE n == LastOf(e, "pages")
             s == SubSeq(e, 1, n - 1)
  <1>1. n \in Positions(e, "pages") /\ n \in 1 .. Len(e)
    BY LastOfIsPosition DEF Positions
  <1>2. Value(s, "entry_kind") = "sqlite_pages"
    BY <1>1 DEF Undecodable
  <1>3. s \in Seq(EntryMember) /\ Len(s) = n - 1 /\ \A i \in 1 .. n - 1 : s[i] = e[i]
    BY <1>1
  <1> HIDE DEF s
  <1>4. Has(s, "entry_kind") /\ s[LastOf(s, "entry_kind")].val = "sqlite_pages"
    BY <1>2 DEF Value
  <1>5. PICK j \in Positions(s, "entry_kind") : s[j].val = "sqlite_pages"
    BY <1>1, <1>3, <1>4, LastOfIsPosition
  <1>6. j \in Positions(e, "entry_kind") /\ e[j].val = "sqlite_pages"
    BY <1>1, <1>3, <1>5 DEF Positions
  <1>7. Has(e, "entry_kind")
    BY <1>6 DEF Has
  <1>8. j = LastOf(e, "entry_kind")
    BY <1>6, <1>7, OnePosition
  <1> QED
    BY <1>6, <1>7, <1>8 DEF Decoded, Value

LEMMA PagesOfEntry ==
  ASSUME local.main \in Seq(STRING), NEW e \in Seq(EntryMember), NoneRepeated(e), Has(e, "pages")
  PROVE  PagesOf(Reported(e)) = Listed(Divergent(Decoded(e).pages, local.main))
  <1>1. PagesOf(Reported(e)) = Differing(e, Len(e))
    BY ReportedTyped
  <1>2. Positions(e, "pages") = {LastOf(e, "pages")}
    BY OnePosition
  <1>3. Positions(e, "pages") \cap 1 .. Len(e) = Positions(e, "pages")
    BY DEF Positions
  <1>4. Decoded(e).pages = e[LastOf(e, "pages")].pages
    BY DEF Decoded
  <1> QED
    BY <1>1, <1>2, <1>3, <1>4 DEF Differing

LEMMA DecodedPages ==
  ASSUME NEW e \in Seq(EntryMember)
  PROVE  Decoded(e).pages \in Seq(Page)
  <1>1. CASE Has(e, "pages")
    <2>1. LastOf(e, "pages") \in 1 .. Len(e)
      BY <1>1, LastOfIsPosition DEF Positions
    <2>2. e[LastOf(e, "pages")] \in EntryMember
      BY <2>1
    <2>3. e[LastOf(e, "pages")].pages \in Seq(Page)
      BY <2>2 DEF EntryMember
    <2> QED
      BY <1>1, <2>3 DEF Decoded
  <1>2. CASE ~Has(e, "pages")
    BY <1>2 DEF Decoded
  <1> QED
    BY <1>1, <1>2

WholeRecord(d) == [path |-> d.path, hash |-> d.hash, source |-> d.source]
LEMMA WholesOfListed ==
  ASSUME NEW divs
  PROVE  WholesOf(divs) = {WholeRecord(d) : d \in {x \in Listed(divs) : x.kind = "whole_file"}}
  BY DEF WholesOf, Listed, WholeRecord

LEMMA WholesOfPlan ==
  ASSUME NEW a \in Seq(PageDiv), NEW b \in Seq(WholeDiv)
  PROVE  WholesOf(a \o b) = WholesOf(b)
  <1>1. a \in Seq(PlanDivs) /\ b \in Seq(PlanDivs)
    BY DEF PlanDivs
  <1>2. Listed(a \o b) = Listed(a) \cup Listed(b)
    BY <1>1, ListedAppend
  <1>3. ASSUME NEW d \in Listed(a)
        PROVE  d.kind = "sqlite_pages"
    <2>1. d \in PageDiv
      BY DEF Listed
    <2> QED
      BY <2>1, PageDivTyped
  <1>4. {x \in Listed(a \o b) : x.kind = "whole_file"} = {x \in Listed(b) : x.kind = "whole_file"}
    BY <1>2, <1>3
  <1> QED
    BY <1>4, WholesOfListed

LEMMA WholesOfAppended ==
  ASSUME NEW a \in Seq(WholeDiv), NEW d \in WholeDiv
  PROVE  WholesOf(Append(a, d)) = WholesOf(a) \cup {WholeRecord(d)}
  <1>1. Listed(Append(a, d)) = Listed(a) \cup {d}
    <2>1. Len(Append(a, d)) = Len(a) + 1 /\ Append(a, d)[Len(a) + 1] = d
      OBVIOUS
    <2>2. \A n \in 1 .. Len(a) : Append(a, d)[n] = a[n]
      OBVIOUS
    <2>3. 1 .. Len(a) + 1 = (1 .. Len(a)) \cup {Len(a) + 1}
      OBVIOUS
    <2> QED
      BY <2>1, <2>2, <2>3 DEF Listed
  <1>2. d.kind = "whole_file"
    BY DEF WholeDiv
  <1>3. {x \in Listed(Append(a, d)) : x.kind = "whole_file"} =
          {x \in Listed(a) : x.kind = "whole_file"} \cup {d}
    BY <1>1, <1>2
  <1> QED
    BY <1>3, WholesOfListed

LEMMA WholeDivergenceTyped ==
  ASSUME NEW path \in Text, NEW hash \in Text
  PROVE  /\ WholeDivergence(path, hash) \in WholeDiv
         /\ WholeRecord(WholeDivergence(path, hash)) =
              [path |-> path, hash |-> hash,
               source |-> IF local.whole[path] = NoFile THEN "fetch_full" ELSE ""]
  <1>1. (IF local.whole[path] = NoFile THEN "fetch_full" ELSE "") \in {"", "fetch_full"}
    OBVIOUS
  <1> QED
    BY <1>1 DEF WholeDivergence, WholeDiv, WholeRecord

LEMMA DiffKept ==
  ASSUME NEW p \in Procs, DiffInv(p), UNCHANGED <<manifest, local>>,
         entry'[p] = entry[p], sqliteGroup'[p] = sqliteGroup[p], wholeFile'[p] = wholeFile[p],
         p \in disturbed => p \in disturbed'
  PROVE  DiffInv(p)'
  <1>2. Plain' = Plain
    BY DEF Plain
  <1>3. \A n : PagesDue(n)' = PagesDue(n) /\ WholesDue(n)' = WholesDue(n)
    BY DEF PagesDue, WholesDue, PagesDueAt, WholeDueAt, Stale, DecodedAt, EntriesOf
  <1>4. PagesOf(sqliteGroup[p])' = PagesOf(sqliteGroup[p])
    BY DEF PagesOf
  <1>5. WholesOf(wholeFile[p])' = WholesOf(wholeFile[p])
    BY DEF WholesOf
  <1> QED
    BY <1>2, <1>3, <1>4, <1>5 DEF DiffInv

LEMMA NodeLeavesFiles ==
  ASSUME NEW p \in Procs, DiffInv(p), NodeSwitched \/ UNCHANGED vars
  PROVE  DiffInv(p)'
  <1>1. UNCHANGED <<manifest, local, entry, sqliteGroup, wholeFile, disturbed>>
    BY DEF NodeSwitched, vars, environment, found
  <1> QED
    BY <1>1, DiffKept

LEMMA NothingRead ==
  ASSUME NEW p \in Procs, entry[p] - 1 = 0, sqliteGroup[p] = <<>>, wholeFile[p] = <<>>
  PROVE  DiffInv(p)
  <1>1. PagesDue(0) = {} /\ WholesDue(0) = {}
    BY DEF PagesDue, WholesDue
  <1>2. PagesOf(<<>>) = {} /\ WholesOf(<<>>) = {}
    BY DEF PagesOf, WholesOf
  <1> QED
    BY <1>1, <1>2 DEF DiffInv

LEMMA EntryKeepsDiff ==
  ASSUME DInv, NEW p \in Procs, DiffInv(p), SQLiteEntry(p) \/ WholeFileEntry(p) \/ UnknownEntry(p)
  PROVE  DiffInv(p)'
  <1> DEFINE e == manifest.entries[entry[p]]
             n == entry[p]
  <1>1. TypeOK /\ Reading(p) /\ UNCHANGED <<manifest, local, disturbed>>
    BY DEF DInv, SQLiteEntry, WholeFileEntry, UnknownEntry, environment
  <1>2. /\ n \in 1 .. Len(manifest.entries)
        /\ Current[p] = e /\ e \in Seq(EntryMember) /\ local.main \in Seq(STRING)
    BY <1>1, CurrentTyped
  <1>3. entry'[p] = n + 1 /\ (n + 1) - 1 = n
    <2>1. entry' = [entry EXCEPT ![p] = @ + 1] /\ DOMAIN entry = Procs
      BY <1>1 DEF SQLiteEntry, WholeFileEntry, UnknownEntry, NextEntry, TypeOK
    <2>2. entry[p] \in Int
      BY <1>2
    <2> QED
      BY <2>1, <2>2
  <1>4. SUFFICES ASSUME p \notin disturbed, Plain
                 PROVE  /\ PagesOf(sqliteGroup[p])' = PagesDue(n)
                        /\ WholesOf(wholeFile[p])' = WholesDue(n)
    <2>1. Plain' = Plain
      BY <1>1 DEF Plain
    <2>2. \A k : PagesDue(k)' = PagesDue(k) /\ WholesDue(k)' = WholesDue(k)
      BY <1>1 DEF PagesDue, WholesDue, PagesDueAt, WholeDueAt, Stale, DecodedAt, EntriesOf
    <2> QED
      BY <1>1, <1>3, <2>1, <2>2 DEF DiffInv
  <1>5. NoneRepeated(e) /\ Decoded(e) = DecodedAt(n)
    BY <1>2, <1>4 DEF Plain, DecodedAt
  <1>6. PagesOf(sqliteGroup[p]) = PagesDue(n - 1) /\ WholesOf(wholeFile[p]) = WholesDue(n - 1)
    BY <1>4 DEF DiffInv
  <1>7. sqliteGroup \in [Procs -> Seq(PageDiv)] /\ wholeFile \in [Procs -> Seq(WholeDiv)]
    BY DEF DInv, Collected
  <1>8. /\ Decoded(e).path = Value(e, "path") /\ Decoded(e).hash = Value(e, "hash")
        /\ Decoded(e).kind = Value(e, "entry_kind")
    BY DEF Decoded
  <1> HIDE DEF e
  <1>9. CASE SQLiteEntry(p)
    <2>1. ~Undecodable(e) /\ Has(e, "pages") /\ UNCHANGED wholeFile
            /\ sqliteGroup'[p] = sqliteGroup[p] \o Reported(e)
      BY <1>2, <1>7, <1>9 DEF SQLiteEntry
    <2>2. DecodedAt(n).kind = "sqlite_pages"
      BY <1>2, <1>5, <2>1, KindOfPages
    <2>3. PagesOf(Reported(e)) = PagesDueAt(n)
      BY <1>2, <1>5, <2>1, PagesOfEntry DEF PagesDueAt
    <2>4. Reported(e) \in Seq(PageDiv) /\ sqliteGroup[p] \in Seq(PageDiv)
      BY <1>2, <1>7, ReportedTyped
    <2>5. PagesOf(sqliteGroup[p] \o Reported(e)) = PagesOf(sqliteGroup[p]) \cup PagesOf(Reported(e))
      BY <2>4, PagesOfJoined
    <2>6. PagesOf(sqliteGroup[p])' = PagesOf(sqliteGroup[p] \o Reported(e))
      BY <2>1 DEF PagesOf
    <2>7. WholesOf(wholeFile[p])' = WholesOf(wholeFile[p])
      BY <2>1 DEF WholesOf
    <2> QED
      BY <1>2, <1>6, <2>2, <2>3, <2>5, <2>6, <2>7, DueNext
  <1>10. CASE WholeFileEntry(p)
    <2> DEFINE path == Value(e, "path")
               hash == Value(e, "hash")
    <2>1. /\ CalledAs(e) = "whole_file" /\ UNCHANGED sqliteGroup
          /\ IF local.whole[path] = hash THEN UNCHANGED wholeFile
             ELSE wholeFile'[p] = Append(wholeFile[p], WholeDivergence(path, hash))
      BY <1>2, <1>7, <1>10 DEF WholeFileEntry
    <2>2. DecodedAt(n).kind = "whole_file"
      BY <1>5, <1>8, <2>1 DEF CalledAs
    <2>3. Stale(n) <=> local.whole[path] # hash
      BY <1>5, <1>8 DEF Stale
    <2>4. path \in Text /\ hash \in Text
      BY <1>2, ValueTyped
    <2>5. WholeDueAt(n) = [path |-> path, hash |-> hash,
                           source |-> IF local.whole[path] = NoFile THEN "fetch_full" ELSE ""]
      BY <1>5, <1>8 DEF WholeDueAt
    <2> HIDE DEF path, hash
    <2>6. PagesOf(sqliteGroup[p])' = PagesOf(sqliteGroup[p])
      BY <2>1 DEF PagesOf
    <2>7. CASE local.whole[path] = hash
      <3>1. WholesOf(wholeFile[p])' = WholesOf(wholeFile[p])
        BY <2>1, <2>7 DEF WholesOf
      <3> QED
        BY <1>2, <1>6, <2>2, <2>3, <2>6, <2>7, <3>1, DueNext
    <2>8. CASE local.whole[path] # hash
      <3> DEFINE d == WholeDivergence(path, hash)
      <3>1. WholesOf(wholeFile[p])' = WholesOf(Append(wholeFile[p], d))
        BY <2>1, <2>8 DEF WholesOf
      <3>2. d \in WholeDiv /\ WholeRecord(d) = WholeDueAt(n)
        BY <2>4, <2>5, WholeDivergenceTyped
      <3> HIDE DEF d
      <3>3. WholesOf(Append(wholeFile[p], d)) = WholesOf(wholeFile[p]) \cup {WholeRecord(d)}
        BY <1>7, <3>2, WholesOfAppended
      <3> QED
        BY <1>2, <1>6, <2>2, <2>3, <2>6, <2>8, <3>1, <3>2, <3>3, DueNext
    <2> QED
      BY <2>7, <2>8
  <1>11. CASE UnknownEntry(p)
    <2>1. CalledAs(e) \notin {"sqlite_pages", "whole_file"} /\ UNCHANGED <<sqliteGroup, wholeFile>>
      BY <1>2, <1>11 DEF UnknownEntry, found
    <2>2. DecodedAt(n).kind \notin {"sqlite_pages", "whole_file"}
      BY <1>5, <1>8, <2>1 DEF CalledAs
    <2>3. PagesOf(sqliteGroup[p])' = PagesOf(sqliteGroup[p])
      BY <2>1 DEF PagesOf
    <2>4. WholesOf(wholeFile[p])' = WholesOf(wholeFile[p])
      BY <2>1 DEF WholesOf
    <2>5. PagesDue(n) = PagesDue(n - 1) /\ WholesDue(n) = WholesDue(n - 1)
      BY <1>2, <2>2, DueNext
    <2> QED
      BY <1>6, <2>3, <2>4, <2>5
  <1> QED
    BY <1>9, <1>10, <1>11

LEMMA NextKeepsDiffs ==
  ASSUME DInv, DiffsInv, [Next]_vars
  PROVE  DiffsInv'
  <1>1. SUFFICES ASSUME NEW q \in Procs
                 PROVE  DiffInv(q)'
    BY DEF DiffsInv
  <1>2. DiffInv(q)
    BY DEF DiffsInv
  <1>3. CASE NodeSwitched \/ UNCHANGED vars
    BY <1>2, <1>3, NodeLeavesFiles
  <1>4. CASE NodeWrites
    <2>1. CASE at[q] # "down"
      <3>1. q \in disturbed'
        BY <1>4, <2>1 DEF NodeWrites
      <3> QED
        BY <3>1 DEF DiffInv
    <2>2. CASE at[q] = "down"
      <3>1. entry[q] = 1 /\ sqliteGroup[q] = <<>> /\ wholeFile[q] = <<>>
        BY <2>2 DEF DInv, RunsInv, RunInv
      <3>2. entry'[q] - 1 = 0 /\ sqliteGroup'[q] = <<>> /\ wholeFile'[q] = <<>>
        BY <1>4, <3>1 DEF NodeWrites, found
      <3>3. PagesDue(0)' = {} /\ WholesDue(0)' = {}
        BY DEF PagesDue, WholesDue
      <3>4. PagesOf(sqliteGroup[q])' = {} /\ WholesOf(wholeFile[q])' = {}
        BY <3>2 DEF PagesOf, WholesOf
      <3> QED
        BY <3>2, <3>3, <3>4 DEF DiffInv
    <2> QED
      BY <2>1, <2>2
  <1>5. ASSUME NEW p \in Procs, Step(p) \/ Kill(p)
        PROVE  DiffInv(q)'
    <2>1. UNCHANGED environment /\ disturbed' = disturbed
      BY <1>5 DEF Step, Entries, Finalize, CheckNode, ProbeWritable, NewPlanEmitter,
         FetchManifest, SQLiteEntry, WholeFileEntry, UnknownEntry, EntryFails, EntriesEnd, Predicates,
         CreateTemp, WritePlan, RenamePlan, RemoveSpool, Kill
    <2>2. CASE q # p
      <3>1. Unaffected(q)
        BY <1>5, <2>2, OthersUnaffected DEF DInv
      <3> QED
        BY <1>2, <2>1, <3>1, DiffKept DEF Unaffected, environment
    <2>3. CASE q = p /\ (SQLiteEntry(p) \/ WholeFileEntry(p) \/ UnknownEntry(p))
      BY <1>2, <2>3, EntryKeepsDiff
    <2>4. CASE q = p /\ ~(SQLiteEntry(p) \/ WholeFileEntry(p) \/ UnknownEntry(p))
      <3>1. UNCHANGED <<entry, sqliteGroup, wholeFile>>
        BY <1>5, <2>4 DEF Step, Entries, Finalize, CheckNode, ProbeWritable, NewPlanEmitter,
           FetchManifest, EntryFails, EntriesEnd, Predicates, CreateTemp, WritePlan, RenamePlan,
           RemoveSpool, Kill, found
      <3> QED
        BY <1>2, <2>1, <2>4, <3>1, DiffKept DEF environment
    <2> QED
      BY <2>2, <2>3, <2>4
  <1> QED
    BY <1>3, <1>4, <1>5 DEF Next, AllEnded

LEMMA DiagnoseDifference == Spec => []DiffsInv
  <1>1. Init => DiffsInv
    <2> SUFFICES ASSUME Init, NEW p \in Procs
                 PROVE  DiffInv(p)
      BY DEF DiffsInv
    <2>1. entry[p] - 1 = 0 /\ sqliteGroup[p] = <<>> /\ wholeFile[p] = <<>>
      BY DEF Init
    <2> QED
      BY <2>1, NothingRead
  <1> QED
    BY <1>1, DiagnoseInvariant, NextKeepsDiffs, PTL DEF Spec

(* What the property says, entry by entry.                                 *)
DifferingAt(e) ==
  {DecodedAt(e).pages[n] : n \in Difference(DecodedAt(e).pages, local.main)}
TheDifference(divs) ==
  /\ UNION {DifferingAt(e) : e \in EntriesOf("sqlite_pages")} \subseteq PagesOf(divs)
  /\ (\A e \in EntriesOf("sqlite_pages") : Ascending(DecodedAt(e).pages)) =>
       PagesOf(divs) = UNION {DifferingAt(e) : e \in EntriesOf("sqlite_pages")}
  /\ WholesOf(divs) = {WholeDueAt(e) : e \in {x \in EntriesOf("whole_file") : Stale(x)}}

LEMMA StatedByEntry ==
  ASSUME \A p \in Procs \ disturbed : result[p] = Success /\ Plain => TheDifference(Headers(tempDoc[p]))
  PROVE  PlanIsTheDifference
  <1> DEFINE N == Len(manifest.entries)
             whole == [e \in 1 .. N |-> Decoded(manifest.entries[e])]
  <1>1. \A kind : \A e \in EntriesOf(kind) : whole[e] = DecodedAt(e)
    BY DEF EntriesOf, DecodedAt
  <1> HIDE DEF whole
  <1>2. {{whole[e].pages[n] : n \in Difference(whole[e].pages, local.main)} :
           e \in EntriesOf("sqlite_pages")} =
        {DifferingAt(e) : e \in EntriesOf("sqlite_pages")}
    BY <1>1 DEF DifferingAt
  <1>3. (\A e \in EntriesOf("sqlite_pages") : Ascending(whole[e].pages)) <=>
          \A e \in EntriesOf("sqlite_pages") : Ascending(DecodedAt(e).pages)
    BY <1>1
  <1>4. {[path |-> whole[e].path, hash |-> whole[e].hash,
          source |-> IF local.whole[whole[e].path] = NoFile THEN "fetch_full" ELSE ""] :
           e \in {x \in EntriesOf("whole_file") : local.whole[whole[x].path] # whole[x].hash}} =
        {WholeDueAt(e) : e \in {x \in EntriesOf("whole_file") : Stale(x)}}
    BY <1>1 DEF WholeDueAt, Stale
  <1> QED
    BY <1>2, <1>3, <1>4 DEF PlanIsTheDifference, TheDifference, Plain, whole

(* The merge of a whole manifest: what a successful, undisturbed run lists *)
(* is the difference, for every manifest and every local file.             *)
THEOREM PlanListsTheDifference == Spec => []PlanIsTheDifference
  <1>1. DInv /\ DiffsInv => PlanIsTheDifference
    <2> SUFFICES ASSUME DInv, DiffsInv, NEW p \in Procs \ disturbed, result[p] = Success, Plain
                 PROVE  TheDifference(Headers(tempDoc[p]))
      BY StatedByEntry
    <2> DEFINE N == Len(manifest.entries)
               D(e) == DifferingAt(e)
    <2>1. N \in Nat /\ entry[p] - 1 = N /\ tempDoc[p] = Emitted(p)
      BY DiagnoseAssumption DEF DInv, TypeOK, RunsInv, RunInv
    <2>2. PagesOf(sqliteGroup[p]) = PagesDue(N) /\ WholesOf(wholeFile[p]) = WholesDue(N)
      BY <2>1 DEF DiffsInv, DiffInv
    <2>3. sqliteGroup[p] \in Seq(PageDiv) /\ wholeFile[p] \in Seq(WholeDiv)
            /\ sqliteGroup[p] \in Seq(PlanDivs) /\ wholeFile[p] \in Seq(PlanDivs)
      BY DEF DInv, Collected, PlanDivs
    <2>4. Headers(tempDoc[p]) = sqliteGroup[p] \o wholeFile[p]
      BY <2>1, HeadersOfWritten DEF Emitted, Written
    <2>5. PagesOf(Headers(tempDoc[p])) = PagesDue(N)
      <3>1. PagesOf(wholeFile[p]) = {}
        BY <2>3, NoPagesInWholes
      <3>2. PagesOf(sqliteGroup[p] \o wholeFile[p]) =
              PagesOf(sqliteGroup[p]) \cup PagesOf(wholeFile[p])
        BY <2>3, PagesOfJoined
      <3> QED
        BY <2>2, <2>4, <3>1, <3>2
    <2>6. WholesOf(Headers(tempDoc[p])) = WholesDue(N)
      BY <2>2, <2>3, <2>4, WholesOfPlan
    <2>7. ASSUME NEW e \in 1 .. N
          PROVE  /\ D(e) \subseteq PagesDueAt(e)
                 /\ Ascending(DecodedAt(e).pages) => PagesDueAt(e) = D(e)
      <3>1. manifest.entries[e] \in Seq(EntryMember) /\ local.main \in Seq(STRING)
        BY DiagnoseAssumption DEF DInv, TypeOK
      <3>2. DecodedAt(e).pages \in Seq(Page)
        BY <3>1, DecodedPages DEF DecodedAt
      <3> QED
        BY <3>1, <3>2, MergeFindsTheDifference DEF PagesDueAt, DifferingAt
    <2>8. \A kind : EntriesOf(kind) \subseteq 1 .. N /\ EntriesOf(kind) \cap 1 .. N = EntriesOf(kind)
      BY DEF EntriesOf
    <2>9. PagesDue(N) = UNION {PagesDueAt(e) : e \in EntriesOf("sqlite_pages")}
      BY <2>8 DEF PagesDue
    <2>10. WholesDue(N) = {WholeDueAt(e) : e \in {x \in EntriesOf("whole_file") : Stale(x)}}
      BY <2>8 DEF WholesDue
    <2>11. \A e \in EntriesOf("sqlite_pages") : D(e) \subseteq PagesDueAt(e)
      BY <2>7, <2>8
    <2>12. (\A e \in EntriesOf("sqlite_pages") : Ascending(DecodedAt(e).pages)) =>
             \A e \in EntriesOf("sqlite_pages") : PagesDueAt(e) = D(e)
      BY <2>7, <2>8
    <2> DEFINE divs == Headers(tempDoc[p])
    <2>13. UNION {D(e) : e \in EntriesOf("sqlite_pages")} \subseteq PagesOf(divs)
      BY <2>5, <2>9, <2>11
    <2>14. (\A e \in EntriesOf("sqlite_pages") : Ascending(DecodedAt(e).pages)) =>
             PagesOf(divs) = UNION {D(e) : e \in EntriesOf("sqlite_pages")}
      BY <2>5, <2>9, <2>12
    <2> HIDE DEF divs
    <2> QED
      BY <2>6, <2>8, <2>10, <2>13, <2>14 DEF divs, TheDifference, DifferingAt
  <1> QED
    BY <1>1, DiagnoseInvariant, DiagnoseDifference, PTL
=============================================================================
