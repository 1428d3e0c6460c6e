------------------------ MODULE ConsoleLists_proofs ------------------------
(***************************************************************************)
(* Proofs about ConsoleLists, for every number of rows and of requests and *)
(* every size of a page.                                                   *)
(***************************************************************************)
EXTENDS ConsoleLists, FiniteSetTheorems, WellFoundedInduction, TLAPS

-----------------------------------------------------------------------------
(* Lists in order.  What is true of every natural number is proved by taking *)
(* the least one it fails for.                                              *)

LEMMA Least ==
  ASSUME NEW T \in SUBSET Nat, T # {}
  PROVE  \E x \in T : \A y \in T : x <= y
<1> DEFINE R == {p \in Nat \X Nat : p[1] < p[2]}
<1>1. OpToRel(<, Nat) = R
  BY Zenon DEF OpToRel
<1>2. IsWellFoundedOn(R, Nat)
  BY <1>1, NatLessThanWellFounded
<1>3. \A x, y \in Nat : y < x => <<y, x>> \in R
  OBVIOUS
<1> HIDE DEF R
<1>4. PICK x \in T : \A y \in T : ~ (<<y, x>> \in R)
  BY <1>2, WFMin
<1>5. ASSUME NEW y \in T PROVE x <= y
  <2>1. ~(y < x)
    BY <1>3, <1>4
  <2> QED BY <2>1
<1> QED BY <1>5

\* f counts the members of S down.
CountsDown(f, S, n) ==
  /\ f \in [1..n -> S]
  /\ \A i, j \in 1..n : i < j => f[i] > f[j]

LEMMA CountDown ==
  ASSUME NEW S \in SUBSET Nat, IsFiniteSet(S)
  PROVE  \E f : CountsDown(f, S, Cardinality(S))
<1> DEFINE Bad == {n \in Nat : \E T \in SUBSET Nat :
                     /\ IsFiniteSet(T)
                     /\ Cardinality(T) = n
                     /\ ~ \E f : CountsDown(f, T, n)}
<1>1. SUFFICES Bad = {}
  BY <1>1, FS_CardinalityType
<1>2. SUFFICES ASSUME Bad # {} PROVE FALSE
  OBVIOUS
<1>3. PICK n \in Bad : \A k \in Bad : n <= k
  BY <1>2, Least
<1>4. PICK T \in SUBSET Nat :
        IsFiniteSet(T) /\ Cardinality(T) = n /\ ~ \E f : CountsDown(f, T, n)
  BY <1>3
<1>5. n \in Nat
  BY <1>3
<1>6. CASE T = {}
  <2>1. n = 0
    BY <1>4, <1>6, FS_EmptySet
  <2>2. CountsDown([i \in 1..0 |-> 0], T, 0)
    BY DEF CountsDown
  <2> QED BY <1>4, <2>1, <2>2
<1>7. CASE T # {}
  <2>1. PICK m \in T : \A x \in T : m <= x
    BY <1>7, Least
  <2>2. IsFiniteSet(T \ {m}) /\ Cardinality(T \ {m}) = n - 1
    BY <1>4, <2>1, FS_RemoveElement
  <2>3. n - 1 \in Nat
    BY <2>2, FS_CardinalityType
  <2>4. n - 1 \notin Bad
    BY <1>3, <1>5, <2>3
  <2>5. PICK f : CountsDown(f, T \ {m}, n - 1)
    BY <2>2, <2>3, <2>4
  <2> DEFINE g == [i \in 1..n |-> IF i = n THEN m ELSE f[i]]
  <2>6. \A i \in 1..n : i # n => i \in 1..(n - 1)
    BY <1>5
  <2>7. \A i \in 1..n : i # n => f[i] \in T /\ f[i] # m /\ f[i] > m
    <3> SUFFICES ASSUME NEW i \in 1..n, i # n PROVE f[i] \in T /\ f[i] # m /\ f[i] > m
      OBVIOUS
    <3>1. f[i] \in T \ {m}
      BY <2>5, <2>6 DEF CountsDown
    <3>2. f[i] >= m /\ f[i] \in Nat /\ m \in Nat
      BY <2>1, <3>1
    <3> QED BY <3>1, <3>2
  <2>8. g \in [1..n -> T]
    BY <2>7
  <2>9. ASSUME NEW i \in 1..n, NEW j \in 1..n, i < j PROVE g[i] > g[j]
    <3>1. i # n /\ i \in 1..(n - 1)
      BY <1>5, <2>9
    <3>2. CASE j = n
      BY <2>7, <3>1, <3>2
    <3>3. CASE j # n
      BY <2>5, <2>6, <2>9, <3>1, <3>3 DEF CountsDown
    <3> QED BY <3>2, <3>3
  <2>10. CountsDown(g, T, n)
    BY <2>8, <2>9 DEF CountsDown
  <2> QED BY <1>4, <2>10
<1> QED BY <1>6, <1>7

\* Descending(S) holds every member of S, the largest first.
LEMMA InOrder ==
  ASSUME NEW S \in SUBSET Nat, IsFiniteSet(S)
  PROVE  /\ Cardinality(S) \in Nat
         /\ Descending(S) \in [1..Cardinality(S) -> S]
         /\ \A i, j \in 1..Cardinality(S) : i < j => Descending(S)[i] > Descending(S)[j]
         /\ \A r \in S : \E i \in 1..Cardinality(S) : Descending(S)[i] = r
<1> DEFINE n == Cardinality(S)
           f == Descending(S)
<1>1. n \in Nat
  BY FS_CardinalityType
<1>2. CountsDown(f, S, n)
  <2>1. PICK g : CountsDown(g, S, n)
    BY CountDown
  <2>2. \E q \in [1..n -> S] : \A i, j \in DOMAIN q : i < j => q[i] > q[j]
    BY <2>1 DEF CountsDown
  <2>3. f \in [1..n -> S] /\ \A i, j \in DOMAIN f : i < j => f[i] > f[j]
    BY <2>2 DEF Descending
  <2> QED BY <2>3 DEF CountsDown
<1> HIDE DEF f
<1>3. ASSUME NEW r \in S PROVE \E i \in 1..n : f[i] = r
  <2>1. SUFFICES ASSUME \A i \in 1..n : f[i] # r PROVE FALSE
    OBVIOUS
  <2>2. IsFiniteSet(S \ {r}) /\ Cardinality(S \ {r}) = n - 1
    BY FS_RemoveElement
  <2>3. IsFiniteSet(1..n) /\ Cardinality(1..n) = n
    BY <1>1, FS_Interval
  <2>4. f \in [1..n -> S \ {r}]
    BY <1>2, <2>1 DEF CountsDown
  <2>5. PICK i, j \in 1..n : i # j /\ f[i] = f[j]
    BY <1>1, <2>2, <2>3, <2>4, FS_PigeonHole
  <2>6. i < j \/ j < i
    BY <1>1, <2>5
  <2>7. f[i] > f[j] \/ f[j] > f[i]
    BY <1>2, <2>6 DEF CountsDown
  <2>8. f[i] \in Nat
    BY <2>4
  <2> QED BY <2>5, <2>7, <2>8
<1> QED BY <1>1, <1>2, <1>3 DEF f, CountsDown

-----------------------------------------------------------------------------
(* Pages and filtered lists *)

\* The first page of the rows S: at most Limit of them, all those down to the cursor.
LEMMA FirstPage ==
  ASSUME NEW S \in SUBSET Places, NEW found, found = Descending(S),
         NEW shown, shown = IF Len(found) > Limit THEN PageAfter(found) ELSE found,
         NEW to, to = IF Len(found) > Limit THEN shown[Limit] ELSE None
  PROVE  /\ shown \in Seq(S)
         /\ Len(shown) <= Limit
         /\ to \in S \cup {None}
         /\ Covers(shown, None, to, S)
<1> DEFINE n == Cardinality(S)
<1>1. S \in SUBSET Nat /\ IsFiniteSet(S) /\ Limit \in Nat \ {0} /\ None \notin Nat
  BY ListAssumption, FS_Subset
<1>2. /\ n \in Nat
      /\ found \in [1..n -> S]
      /\ \A i, j \in 1..n : i < j => found[i] > found[j]
      /\ \A r \in S : \E i \in 1..n : found[i] = r
  BY <1>1, InOrder
<1>3. Len(found) = n /\ found \in Seq(S)
  BY <1>2
<1>4. CASE n > Limit
  <2>1. shown = [i \in 1..Limit |-> found[i]]
    BY <1>1, <1>2, <1>3, <1>4 DEF PageAfter
  <2>2. \A i \in 1..Limit : i \in 1..n
    BY <1>1, <1>2, <1>4
  <2>3. shown \in Seq(S) /\ Len(shown) = Limit /\ DOMAIN shown = 1..Limit
    BY <1>1, <1>2, <2>1, <2>2
  <2>4. Limit \in 1..n /\ Limit \in 1..Limit /\ to = found[Limit]
    BY <1>1, <1>2, <1>3, <1>4, <2>1
  <2>5. \A i \in 1..Limit : shown[i] >= to
    <3> SUFFICES ASSUME NEW i \in 1..Limit PROVE found[i] >= found[Limit]
      BY <2>1, <2>4
    <3>1. i = Limit \/ i < Limit
      BY <1>1
    <3>2. found[i] \in Nat /\ found[Limit] \in Nat
      BY <1>1, <1>2, <2>2, <2>4
    <3> QED BY <1>2, <2>2, <2>4, <3>1, <3>2
  <2>6. ASSUME NEW r \in S, r >= to PROVE \E i \in DOMAIN shown : shown[i] = r
    <3>1. PICK i \in 1..n : found[i] = r
      BY <1>2
    <3>2. ~(Limit < i)
      <4>1. found[Limit] \in Nat /\ r \in Nat
        BY <1>1, <1>2, <2>4
      <4> QED BY <1>2, <2>4, <2>6, <3>1, <4>1
    <3>3. i \in 1..Limit
      BY <1>1, <1>2, <3>1, <3>2
    <3> QED BY <2>1, <2>3, <3>1, <3>3
  <2>7. \A i, j \in DOMAIN shown : i < j => shown[i] > shown[j]
    BY <1>2, <2>1, <2>2, <2>3
  <2>8. to \in S
    BY <1>2, <2>4
  <2> QED BY <1>1, <2>3, <2>5, <2>6, <2>7, <2>8 DEF Covers
<1>5. CASE ~(n > Limit)
  <2>1. shown = found /\ to = None /\ Len(shown) <= Limit
    BY <1>1, <1>2, <1>3, <1>5
  <2> QED BY <1>2, <1>3, <2>1 DEF Covers
<1> QED BY <1>4, <1>5

\* A query with a cursor answers with the first page of what comes after it.
LEMMA NextPage ==
  ASSUME NEW R \in SUBSET Places, NEW from \in Places0,
         NEW items \in Seq({r \in R : Before(r, from)}),
         NEW to \in {r \in R : Before(r, from)} \cup {None},
         Covers(items, None, to, {r \in R : Before(r, from)})
  PROVE  Covers(items, from, to, R)
<1>1. \A i \in DOMAIN items : items[i] \in {r \in R : Before(r, from)}
  OBVIOUS
<1>2. \A i \in DOMAIN items : from # None => items[i] < from
  BY <1>1 DEF Before
<1>3. to # None /\ from # None => to < from
  BY DEF Before
<1> QED BY <1>2, <1>3 DEF Covers, Before

LEMMA CoversFewer ==
  ASSUME NEW items, NEW from, NEW to, NEW st, NEW fewer \in SUBSET st,
         Covers(items, from, to, st)
  PROVE  Covers(items, from, to, fewer)
BY DEF Covers

\* The page after the cursor continues the list that ends at the cursor.
LEMMA CoversJoin ==
  ASSUME NEW a \in Seq(Nat), NEW b \in Seq(Nat), NEW m \in Nat, NEW to \in Nat \cup {None},
         NEW st \in SUBSET Nat, Covers(a, None, m, st), Covers(b, m, to, st)
  PROVE  Covers(a \o b, None, to, st)
<1> DEFINE c == a \o b
           k == Len(a)
<1>1. m # None
  BY ListAssumption
<1>2. /\ k \in Nat /\ Len(b) \in Nat
      /\ DOMAIN a = 1..k /\ DOMAIN b = 1..Len(b)
      /\ DOMAIN c = 1..(k + Len(b))
      /\ \A i \in 1..k : c[i] = a[i] /\ a[i] \in Nat
  OBVIOUS
<1>3. \A i \in 1..Len(b) : c[k + i] = b[i] /\ b[i] \in Nat /\ k + i \in DOMAIN c
  BY <1>2
<1>4. \A i \in DOMAIN c : i \in 1..k \/ i - k \in 1..Len(b)
  BY <1>2
<1>5. \A i \in DOMAIN c : ~(i \in 1..k) => c[i] = b[i - k]
  <2> SUFFICES ASSUME NEW i \in DOMAIN c, ~(i \in 1..k) PROVE c[i] = b[i - k]
    OBVIOUS
  <2>1. i - k \in 1..Len(b) /\ k + (i - k) = i
    BY <1>2, <1>4
  <2> QED BY <1>3, <2>1
<1> HIDE DEF c, k
<1>6. \A i \in 1..k : a[i] >= m
  BY <1>1, <1>2 DEF Covers
<1>7. \A i \in 1..Len(b) : b[i] < m
  BY <1>1, <1>2 DEF Covers
<1>8. ASSUME NEW i \in DOMAIN c, NEW j \in DOMAIN c, i < j PROVE c[i] > c[j]
  <2>1. CASE i \in 1..k /\ j \in 1..k
    BY <1>2, <1>8, <2>1 DEF Covers
  <2>2. CASE i \in 1..k /\ ~(j \in 1..k)
    <3>1. c[i] >= m /\ c[i] \in Nat
      BY <1>2, <1>6, <2>2
    <3>2. j - k \in 1..Len(b) /\ c[j] = b[j - k]
      BY <1>4, <1>5, <2>2
    <3>3. c[j] < m /\ c[j] \in Nat
      BY <1>3, <1>7, <3>2
    <3> QED BY <3>1, <3>3
  <2>3. CASE ~(i \in 1..k) /\ j \in 1..k
    BY <1>2, <1>8, <2>3
  <2>4. CASE ~(i \in 1..k) /\ ~(j \in 1..k)
    <3>1. i - k \in DOMAIN b /\ j - k \in DOMAIN b
      BY <1>2, <1>4, <2>4
    <3>2. i - k < j - k
      BY <1>2, <1>8
    <3>3. b[i - k] > b[j - k]
      BY <3>1, <3>2 DEF Covers
    <3> QED BY <1>5, <2>4, <3>3
  <2> QED BY <2>1, <2>2, <2>3, <2>4
<1>9. to # None => to \in Nat /\ to < m
  BY <1>1 DEF Covers
<1>10. ASSUME NEW i \in DOMAIN c, to # None PROVE c[i] >= to
  <2>1. CASE i \in 1..k
    BY <1>2, <1>6, <1>9, <1>10, <2>1
  <2>2. CASE ~(i \in 1..k)
    BY <1>2, <1>4, <1>5, <1>10, <2>2 DEF Covers
  <2> QED BY <2>1, <2>2
<1>11. ASSUME NEW r \in st, to # None => r >= to PROVE \E i \in DOMAIN c : c[i] = r
  <2>1. CASE r >= m
    <3>1. PICK i \in DOMAIN a : a[i] = r
      BY <2>1 DEF Covers
    <3>2. i \in DOMAIN c /\ c[i] = r
      BY <1>2, <3>1
    <3> QED BY <3>2
  <2>2. CASE ~(r >= m)
    <3>1. r < m
      BY <2>2
    <3>2. PICK i \in DOMAIN b : b[i] = r
      BY <1>1, <1>11, <3>1 DEF Covers
    <3> QED BY <1>2, <1>3, <3>2
  <2> QED BY <2>1, <2>2
<1> QED BY <1>8, <1>10, <1>11 DEF c, Covers

\* What filter() leaves: the places kept, in their order.
Picks(items, row, n, at) ==
  /\ at \in [1..n -> DOMAIN items]
  /\ Without(items, row) = [i \in 1..n |-> items[at[i]]]
  /\ \A i, j \in 1..n : i < j => at[i] < at[j]
  /\ \A i \in DOMAIN items : items[i] # row => \E j \in 1..n : at[j] = i

LEMMA Kept ==
  ASSUME NEW B, NEW items \in Seq(B), NEW row
  PROVE  \E n \in Nat : \E at : Picks(items, row, n, at)
<1> DEFINE kept == {i \in DOMAIN items : items[i] # row}
           n == Cardinality(kept)
           down == Descending(kept)
           at == [i \in 1..n |-> down[n + 1 - i]]
<1>1. DOMAIN items = 1..Len(items) /\ Len(items) \in Nat
  OBVIOUS
<1>2. kept \in SUBSET Nat /\ IsFiniteSet(kept)
  <2>1. kept \in SUBSET (1..Len(items)) /\ IsFiniteSet(1..Len(items))
    BY <1>1, FS_Interval
  <2> QED BY <1>1, <2>1, FS_Subset
<1>3. /\ n \in Nat
      /\ down \in [1..n -> kept]
      /\ \A i, j \in 1..n : i < j => down[i] > down[j]
      /\ \A r \in kept : \E i \in 1..n : down[i] = r
  BY <1>2, InOrder
<1>4. Without(items, row) = [i \in 1..n |-> items[down[n + 1 - i]]]
  BY DEF Without
<1> HIDE DEF n, down
<1>5. \A i \in 1..n : n + 1 - i \in 1..n /\ n + 1 - (n + 1 - i) = i
  BY <1>3
<1>6. at \in [1..n -> DOMAIN items]
  BY <1>3, <1>5
<1>7. Without(items, row) = [i \in 1..n |-> items[at[i]]]
  BY <1>4
<1>8. \A i, j \in 1..n : i < j => at[i] < at[j]
  <2> SUFFICES ASSUME NEW i \in 1..n, NEW j \in 1..n, i < j PROVE at[i] < at[j]
    OBVIOUS
  <2>1. n + 1 - j < n + 1 - i
    BY <1>3
  <2>2. down[n + 1 - j] > down[n + 1 - i]
    BY <1>3, <1>5, <2>1
  <2>3. down[n + 1 - j] \in Nat /\ down[n + 1 - i] \in Nat
    BY <1>2, <1>3, <1>5
  <2> QED BY <2>2, <2>3
<1>9. \A i \in DOMAIN items : items[i] # row => \E j \in 1..n : at[j] = i
  <2> SUFFICES ASSUME NEW i \in DOMAIN items, items[i] # row
               PROVE  \E j \in 1..n : at[j] = i
    OBVIOUS
  <2>1. PICK k \in 1..n : down[k] = i
    BY <1>3
  <2>2. n + 1 - k \in 1..n /\ at[n + 1 - k] = i
    BY <1>5, <2>1
  <2> QED BY <2>2
<1>10. Picks(items, row, n, at)
  BY <1>6, <1>7, <1>8, <1>9 DEF Picks
<1> QED BY <1>3, <1>10

LEMMA KeptTyped ==
  ASSUME NEW B, NEW items \in Seq(B), NEW row
  PROVE  Without(items, row) \in Seq(B)
<1>1. PICK n \in Nat : \E at : Picks(items, row, n, at)
  BY Kept
<1>2. PICK at : Picks(items, row, n, at)
  BY <1>1
<1>3. \A i \in 1..n : items[at[i]] \in B
  BY <1>2 DEF Picks
<1> QED BY <1>2, <1>3 DEF Picks

\* Taking out a row that is gone leaves the list covering what stayed.
LEMMA KeptCovers ==
  ASSUME NEW B \in SUBSET Nat, NEW items \in Seq(B), NEW row, NEW to, NEW st,
         row \notin st, Covers(items, None, to, st)
  PROVE  Covers(Without(items, row), None, to, st)
<1> DEFINE w == Without(items, row)
<1>1. PICK n \in Nat : \E at : Picks(items, row, n, at)
  BY Kept
<1>2. PICK at : Picks(items, row, n, at)
  BY <1>1
<1>3. DOMAIN w = 1..n /\ \A i \in 1..n : w[i] = items[at[i]] /\ at[i] \in DOMAIN items
  BY <1>2 DEF Picks
<1> HIDE DEF w
<1>4. \A i, j \in DOMAIN w : i < j => w[i] > w[j]
  BY <1>2, <1>3 DEF Picks, Covers
<1>5. \A i \in DOMAIN w : to # None => w[i] >= to
  BY <1>3 DEF Covers
<1>6. ASSUME NEW r \in st, to # None => r >= to PROVE \E i \in DOMAIN w : w[i] = r
  <2>1. PICK k \in DOMAIN items : items[k] = r
    BY <1>6 DEF Covers
  <2>2. PICK i \in 1..n : at[i] = k
    BY <1>2, <2>1 DEF Picks
  <2> QED BY <1>3, <2>1, <2>2
<1> QED BY <1>4, <1>5, <1>6 DEF w, Covers

-----------------------------------------------------------------------------
(* Types *)

Labels == {"idle", "run", "second", "answer"}

LEMMA NoRequestFits ==
  ASSUME NEW B
  PROVE  NoRequest \in Request(B)
<1>1. <<>> \in {items \in Seq(B) : Len(items) <= Limit}
  BY ListAssumption
<1> QED BY <1>1 DEF NoRequest, Request, Kinds

LEMMA FetchFits ==
  ASSUME NEW B, NEW reset \in BOOLEAN, NEW after \in B \cup {None}
  PROVE  /\ Fetch(reset, after) \in Request(B)
         /\ Fetch(reset, after).kind = "fetch"
         /\ Fetch(reset, after).here
         /\ Fetch(reset, after).reset = reset
         /\ Fetch(reset, after).next = after
<1>1. NoRequest \in Request(B)
  BY NoRequestFits
<1>2. Fetch(reset, after) = [NoRequest EXCEPT !.kind = "fetch", !.here = TRUE,
                                              !.reset = reset, !.next = after]
  BY DEF Fetch
<1>3. Fetch(reset, after) \in Request(B)
  BY <1>1, <1>2 DEF Request, Kinds
<1> QED BY <1>2, <1>3 DEF NoRequest

LEMMA ClickFits ==
  ASSUME NEW B, NEW k \in Kinds, NEW r \in B \cup {None}, NEW here \in BOOLEAN
  PROVE  [NoRequest EXCEPT !.kind = k, !.row = r, !.here = here] \in Request(B)
BY NoRequestFits DEF Request

\* The two updates of one request, its answer and its row.
Answered(h, items, to) == req' = [req EXCEPT ![h].got = items, ![h].next = to]

LEMMA AnswerFits ==
  ASSUME NEW B, req \in [Handlers -> Request(B)], NEW h \in Handlers,
         NEW items \in Seq(B), Len(items) <= Limit, NEW to \in B \cup {None},
         Answered(h, items, to)
  PROVE  /\ req' \in [Handlers -> Request(B)]
         /\ req'[h].kind = req[h].kind
         /\ req'[h].reset = req[h].reset
         /\ req'[h].got = items
         /\ req'[h].next = to
<1> DEFINE Shown == {l \in Seq(B) : Len(l) <= Limit}
<1>1. items \in Shown
  OBVIOUS
<1>2. \A g \in Handlers : req[g] \in Request(B)
  OBVIOUS
<1>3. Request(B) = [kind : Kinds, row : B \cup {None}, here : BOOLEAN, reset : BOOLEAN,
                    got : Shown, next : B \cup {None}]
  BY DEF Request
<1> HIDE DEF Shown
<1>4. req'[h] = [req[h] EXCEPT !.got = items, !.next = to]
  BY DEF Answered
<1>5. [req[h] EXCEPT !.got = items, !.next = to] \in Request(B)
  <2>1. req[h] \in [kind : Kinds, row : B \cup {None}, here : BOOLEAN, reset : BOOLEAN,
                    got : Shown, next : B \cup {None}]
    BY <1>2, <1>3
  <2>2. [req[h] EXCEPT !.got = items, !.next = to]
          \in [kind : Kinds, row : B \cup {None}, here : BOOLEAN, reset : BOOLEAN,
              got : Shown, next : B \cup {None}]
    BY <1>1, <2>1
  <2> QED BY <1>3, <2>2
<1>6. /\ req'[h].kind = req[h].kind
      /\ req'[h].reset = req[h].reset
      /\ req'[h].got = items
      /\ req'[h].next = to
  BY <1>2, <1>3, <1>4
<1>7. DOMAIN req' = Handlers /\ req' = [g \in Handlers |-> req'[g]]
  BY DEF Answered
<1>8. \A g \in Handlers \ {h} : req'[g] = req[g]
  BY DEF Answered
<1>9. \A g \in Handlers : req'[g] \in Request(B)
  BY <1>2, <1>4, <1>5, <1>8
<1> QED BY <1>7, <1>9, <1>6

LEMMA RowFits ==
  ASSUME NEW B, req \in [Handlers -> Request(B)], NEW h \in Handlers, NEW r \in B,
         req' = [req EXCEPT ![h].row = r]
  PROVE  /\ req' \in [Handlers -> Request(B)]
         /\ req'[h] = [req[h] EXCEPT !.row = r]
<1> DEFINE Shown == {l \in Seq(B) : Len(l) <= Limit}
<1>1. Request(B) = [kind : Kinds, row : B \cup {None}, here : BOOLEAN, reset : BOOLEAN,
                    got : Shown, next : B \cup {None}]
  BY DEF Request
<1> HIDE DEF Shown
<1>2. req'[h] = [req[h] EXCEPT !.row = r]
  OBVIOUS
<1>3. [req[h] EXCEPT !.row = r] \in Request(B)
  BY <1>1
<1>4. \A g \in Handlers : req'[g] \in Request(B)
  BY <1>2, <1>3
<1> QED BY <1>2, <1>4

LEMMA RequestGrows ==
  ASSUME NEW B, NEW C, B \subseteq C
  PROVE  Request(B) \subseteq Request(C)
<1>1. Seq(B) \subseteq Seq(C)
  OBVIOUS
<1> QED BY <1>1 DEF Request

LEMMA BeginTyped ==
  ASSUME TypeOK, NEW h \in Handlers, NEW r \in Request(born), Begin(h, r)
  PROVE  pc' \in [Handlers -> Labels] /\ req' \in [Handlers -> Request(born)]
BY DEF TypeOK, Begin, Labels

LEMMA EndTyped ==
  ASSUME TypeOK, NEW h \in Handlers, End(h)
  PROVE  pc' \in [Handlers -> Labels] /\ req' \in [Handlers -> Request(born)]
BY NoRequestFits DEF TypeOK, End, Labels

LEMMA ReplyTyped ==
  ASSUME TypeOK, NEW h \in Handlers, Reply(h)
  PROVE  pc' \in [Handlers -> Labels] /\ req' \in [Handlers -> Request(born)]
BY EndTyped DEF TypeOK, Reply, Goto, Labels

LEMMA BreakTyped ==
  ASSUME TypeOK, NEW lost, BreakIf(lost)
  PROVE  broken' \in BOOLEAN /\ steady' \subseteq steady
BY DEF TypeOK, BreakIf

\* The fields that most steps leave as they are.
TypedElse ==
  /\ page' \in {"sandbox", "god", "developer"}
  /\ rows' \subseteq born' /\ profiles' \subseteq born' /\ born' \subseteq Places
  /\ list' \in Seq(born') /\ next' \in born' \cup {None} /\ loading' \in BOOLEAN
  /\ steady' \subseteq rows' /\ broken' \in BOOLEAN
  /\ torn' \subseteq born'

LEMMA TypedParts ==
  ASSUME pc' \in [Handlers -> Labels], req' \in [Handlers -> Request(born')], TypedElse
  PROVE  TypeOK'
BY DEF TypeOK, TypedElse, Labels

LEMMA ServeTyped ==
  ASSUME TypeOK, CarriedInv, NEW h \in Handlers, Serve(h)
  PROVE  TypeOK'
<1> USE DEF tables, pageVars, histories
<1> SUFFICES /\ pc' \in [Handlers -> Labels]
             /\ req' \in [Handlers -> Request(born')]
             /\ TypedElse
  BY TypedParts
<1>1. ASSUME ListPage(h)
      PROVE  /\ pc' \in [Handlers -> Labels]
             /\ req' \in [Handlers -> Request(born')]
             /\ TypedElse
  <2> DEFINE S == {r \in rows : Before(r, req[h].next)}
             found == Descending(S)
             more == Len(found) > Limit
             shown == IF more THEN PageAfter(found) ELSE found
             to == IF more THEN shown[Limit] ELSE None
  <2>1. S \in SUBSET Places /\ S \subseteq born
    BY DEF TypeOK
  <2>2. req' = [req EXCEPT ![h].got = shown, ![h].next = to]
    BY <1>1 DEF ListPage
  <2>3. shown \in Seq(S) /\ Len(shown) <= Limit /\ to \in S \cup {None}
    BY <2>1, FirstPage
  <2> HIDE DEF shown, to
  <2>4. shown \in {items \in Seq(born) : Len(items) <= Limit} /\ to \in born \cup {None}
    BY <2>1, <2>3
  <2>5. req' \in [Handlers -> Request(born)]
    <3>1. Answered(h, shown, to)
      BY <2>2 DEF Answered
    <3> QED BY <2>4, <3>1, AnswerFits DEF TypeOK
  <2>6. steady' \subseteq rows /\ pc' \in [Handlers -> Labels]
    BY <1>1 DEF ListPage, TypeOK, Goto, Labels
  <2> QED BY <1>1, <2>5, <2>6 DEF ListPage, TypeOK, TypedElse
<1>2. ASSUME NEW r \in Places, InsertRow(h, r)
      PROVE  /\ pc' \in [Handlers -> Labels]
             /\ req' \in [Handlers -> Request(born')]
             /\ TypedElse
  <2>1. born \subseteq born' /\ born' \subseteq Places /\ r \in born'
    BY <1>2 DEF InsertRow, TypeOK
  <2>2. req \in [Handlers -> Request(born')]
    BY <2>1, RequestGrows DEF TypeOK
  <2>3. req' \in [Handlers -> Request(born')]
    BY <1>2, <2>1, <2>2, RowFits DEF InsertRow
  <2>4. pc' \in [Handlers -> Labels]
    BY <1>2 DEF InsertRow, TypeOK, Goto, Labels
  <2>5. list \in Seq(born')
    BY <2>1 DEF TypeOK
  <2> QED BY <1>2, <2>1, <2>3, <2>4, <2>5 DEF InsertRow, TypeOK, TypedElse
<1>3. ASSUME InsertProfile(h)
      PROVE  /\ pc' \in [Handlers -> Labels]
             /\ req' \in [Handlers -> Request(born')]
             /\ TypedElse
  <2>1. req[h].row \in born
    BY <1>3 DEF InsertProfile, CarriedInv, Carried
  <2>2. Reply(h) \/ End(h)
    BY <1>3 DEF InsertProfile
  <2>3. TypedElse
    BY <1>3, <2>1 DEF InsertProfile, TypeOK, TypedElse
  <2> QED BY <1>3, <2>2, <2>3, ReplyTyped, EndTyped DEF InsertProfile
<1>4. ASSUME DeleteProfile(h)
      PROVE  /\ pc' \in [Handlers -> Labels]
             /\ req' \in [Handlers -> Request(born')]
             /\ TypedElse
  <2>1. req[h].row \in born
    BY <1>4 DEF DeleteProfile, CarriedInv, Carried
  <2> QED BY <1>4, <2>1 DEF DeleteProfile, TypeOK, TypedElse, Goto, Labels
<1>5. ASSUME DeleteUser(h)
      PROVE  /\ pc' \in [Handlers -> Labels]
             /\ req' \in [Handlers -> Request(born')]
             /\ TypedElse
  <2>1. Reply(h) \/ End(h)
    BY <1>5 DEF DeleteUser
  <2>2. TypedElse
    BY <1>5 DEF DeleteUser, Drop, TypeOK, TypedElse
  <2> QED BY <1>5, <2>1, <2>2, ReplyTyped, EndTyped DEF DeleteUser
<1>6. ASSUME DeleteSession(h)
      PROVE  /\ pc' \in [Handlers -> Labels]
             /\ req' \in [Handlers -> Request(born')]
             /\ TypedElse
  <2>1. TypedElse
    BY <1>6 DEF DeleteSession, Drop, TypeOK, TypedElse
  <2> QED BY <1>6, <2>1, ReplyTyped DEF DeleteSession
<1>7. ASSUME UpdateUser(h)
      PROVE  /\ pc' \in [Handlers -> Labels]
             /\ req' \in [Handlers -> Request(born')]
             /\ TypedElse
  <2>1. TypedElse
    BY <1>7 DEF UpdateUser, TypeOK, TypedElse
  <2> QED BY <1>7, <2>1, ReplyTyped, EndTyped DEF UpdateUser
<1>8. ASSUME Fails(h)
      PROVE  /\ pc' \in [Handlers -> Labels]
             /\ req' \in [Handlers -> Request(born')]
             /\ TypedElse
  <2>1. broken' \in BOOLEAN /\ steady' \subseteq steady
    BY <1>8, BreakTyped DEF Fails
  <2>2. pc[h] = "second" => req[h].row \in born
    BY DEF CarriedInv, Carried
  <2>3. torn' \subseteq born
    BY <1>8, <2>2 DEF Fails, TypeOK
  <2>4. loading' \in BOOLEAN
    BY <1>8 DEF Fails
  <2>5. TypedElse
    BY <1>8, <2>1, <2>3, <2>4 DEF Fails, TypeOK, TypedElse
  <2> QED BY <1>8, <2>5, EndTyped DEF Fails
<1> QED BY <1>1, <1>2, <1>3, <1>4, <1>5, <1>6, <1>7, <1>8 DEF Serve

LEMMA PageTyped ==
  ASSUME TypeOK, CarriedInv, NEW h \in Handlers, Page(h)
  PROVE  TypeOK'
<1> USE DEF tables, pageVars, histories
<1> SUFFICES /\ pc' \in [Handlers -> Labels]
             /\ req' \in [Handlers -> Request(born')]
             /\ TypedElse
  BY TypedParts
<1>1. ASSUME Mount(h)
      PROVE  /\ pc' \in [Handlers -> Labels]
             /\ req' \in [Handlers -> Request(born')]
             /\ TypedElse
  <2> DEFINE lost(g) == Fetching(g) \/ pc[g] = "answer"
             item(g) == IF g = h THEN Fetch(TRUE, None)
                        ELSE IF lost(g) THEN NoRequest ELSE [req[g] EXCEPT !.here = FALSE]
  <2>1. req' = [g \in Handlers |-> item(g)]
    BY <1>1 DEF Mount
  <2>2. \A g \in Handlers : item(g) \in Request(born)
    <3>1. Fetch(TRUE, None) \in Request(born) /\ NoRequest \in Request(born)
      BY FetchFits, NoRequestFits
    <3>2. \A g \in Handlers : [req[g] EXCEPT !.here = FALSE] \in Request(born)
      BY DEF TypeOK, Request
    <3> QED BY <3>1, <3>2
  <2> HIDE DEF item
  <2>3. req' \in [Handlers -> Request(born)]
    BY <2>1, <2>2
  <2>4. pc' \in [Handlers -> Labels]
    BY <1>1 DEF Mount, TypeOK, Labels
  <2>5. TypedElse
    <3>1. /\ page' = page /\ rows' = rows /\ profiles' = profiles /\ born' = born
          /\ torn' = torn
          /\ list' = <<>> /\ next' = None /\ loading' = TRUE
          /\ broken' = FALSE /\ steady' = {}
      BY <1>1 DEF Mount, Clear
    <3>2. /\ page \in {"sandbox", "god", "developer"}
          /\ rows \subseteq born /\ profiles \subseteq born /\ born \subseteq Places
          /\ torn \subseteq born
          /\ <<>> \in Seq(born)
      BY DEF TypeOK
    <3> QED BY <3>1, <3>2 DEF TypedElse
  <2> QED BY <1>1, <2>3, <2>4, <2>5 DEF Mount
<1>2. ASSUME NEW r \in Request(born), Begin(h, r), UNCHANGED <<page, tables, next, torn>>,
             list' = list \/ list' = <<>>, loading' \in BOOLEAN,
             broken' \in BOOLEAN, steady' \subseteq steady
      PROVE  /\ pc' \in [Handlers -> Labels]
             /\ req' \in [Handlers -> Request(born')]
             /\ TypedElse
  <2>1. TypedElse
    <3>1. page' = page /\ rows' = rows /\ profiles' = profiles /\ born' = born
      BY <1>2
    <3>2. torn' = torn /\ next' = next
      BY <1>2
    <3>3. list' \in Seq(born)
      <4>1. <<>> \in Seq(born) /\ list \in Seq(born)
        BY DEF TypeOK
      <4>2. list' = list \/ list' = <<>>
        BY <1>2
      <4> QED BY <4>1, <4>2
    <3>4. /\ page \in {"sandbox", "god", "developer"}
          /\ rows \subseteq born /\ profiles \subseteq born /\ born \subseteq Places
          /\ torn \subseteq born /\ next \in born \cup {None}
          /\ steady' \subseteq rows
      BY <1>2 DEF TypeOK
    <3>5. loading' \in BOOLEAN /\ broken' \in BOOLEAN
      BY <1>2
    <3> QED BY <3>1, <3>2, <3>3, <3>4, <3>5 DEF TypedElse
  <2> QED BY <1>2, <2>1, BeginTyped
<1>3. ASSUME Refresh(h)
      PROVE  /\ pc' \in [Handlers -> Labels]
             /\ req' \in [Handlers -> Request(born')]
             /\ TypedElse
  <2>1. broken' \in BOOLEAN /\ steady' \subseteq steady
    BY <1>3, BreakTyped DEF Refresh
  <2> QED BY <1>2, <1>3, <2>1, FetchFits DEF Refresh, Clear
<1>4. ASSUME LoadMore(h)
      PROVE  /\ pc' \in [Handlers -> Labels]
             /\ req' \in [Handlers -> Request(born')]
             /\ TypedElse
  <2>1. broken' \in BOOLEAN /\ steady' \subseteq steady
    BY <1>4, BreakTyped DEF LoadMore
  <2>2. Fetch(FALSE, next) \in Request(born)
    BY FetchFits DEF TypeOK
  <2> QED BY <1>2, <1>4, <2>1, <2>2 DEF LoadMore
<1>5. ASSUME NEW g \in Handlers, LoadMoreAndFirst(h, g)
      PROVE  /\ pc' \in [Handlers -> Labels]
             /\ req' \in [Handlers -> Request(born')]
             /\ TypedElse
  <2>1. broken' \in BOOLEAN /\ steady' \subseteq steady
    BY <1>5, BreakTyped DEF LoadMoreAndFirst
  <2>2. Fetch(FALSE, next) \in Request(born) /\ Fetch(TRUE, None) \in Request(born)
    BY FetchFits DEF TypeOK
  <2>3. req' \in [Handlers -> Request(born)]
    BY <1>5, <2>2 DEF LoadMoreAndFirst, TypeOK
  <2>4. pc' \in [Handlers -> Labels]
    BY <1>5 DEF LoadMoreAndFirst, TypeOK, Labels
  <2>5. TypedElse
    BY <1>5, <2>1 DEF LoadMoreAndFirst, Clear, TypeOK, TypedElse
  <2> QED BY <1>5, <2>3, <2>4, <2>5 DEF LoadMoreAndFirst
<1>6. ASSUME ShowPage(h)
      PROVE  /\ pc' \in [Handlers -> Labels]
             /\ req' \in [Handlers -> Request(born')]
             /\ TypedElse
  <2>1. req[h].got \in Seq(born) /\ req[h].next \in born \cup {None}
    BY DEF TypeOK, Request
  <2>2. list' \in Seq(born)
    BY <1>6, <2>1 DEF ShowPage, TypeOK
  <2>3. TypedElse
    BY <1>6, <2>1, <2>2 DEF ShowPage, TypeOK, TypedElse
  <2> QED BY <1>6, <2>3, EndTyped DEF ShowPage
<1>7. ASSUME Done(h)
      PROVE  /\ pc' \in [Handlers -> Labels]
             /\ req' \in [Handlers -> Request(born')]
             /\ TypedElse
  <2>1. CASE page = "sandbox"
    <3>1. broken' \in BOOLEAN /\ steady' \subseteq steady
      BY <1>7, <2>1, BreakTyped DEF Done
    <3>2. Fetch(TRUE, None) \in Request(born)
      BY FetchFits
    <3>3. req' \in [Handlers -> Request(born)]
      BY <1>7, <2>1, <3>2 DEF Done, TypeOK
    <3>4. pc' \in [Handlers -> Labels]
      BY <1>7, <2>1 DEF Done, TypeOK, Labels
    <3>5. TypedElse
      BY <1>7, <2>1, <3>1 DEF Done, Clear, TypeOK, TypedElse
    <3> QED BY <1>7, <3>3, <3>4, <3>5 DEF Done
  <2>2. CASE page # "sandbox"
    <3>1. list' \in Seq(born)
      BY <1>7, <2>2, KeptTyped DEF Done, TypeOK
    <3>2. TypedElse
      BY <1>7, <2>2, <3>1 DEF Done, TypeOK, TypedElse
    <3> QED BY <1>7, <2>2, <3>2, EndTyped DEF Done
  <2> QED BY <2>1, <2>2
<1>8. ASSUME NEW r \in Places0, NEW k \in SandboxKinds \cup {"create", "revoke"},
             Click(h, k, r)
      PROVE  /\ pc' \in [Handlers -> Labels]
             /\ req' \in [Handlers -> Request(born')]
             /\ TypedElse
  <2>1. r \in born \cup {None}
    BY <1>8 DEF Click, Listed, TypeOK
  <2>2. k \in Kinds
    BY DEF Kinds, SandboxKinds
  <2>3. [NoRequest EXCEPT !.kind = k, !.row = r, !.here = TRUE] \in Request(born)
    BY <2>1, <2>2, ClickFits
  <2>4. broken' \in BOOLEAN /\ steady' \subseteq steady /\ loading' \in BOOLEAN
    BY <1>8 DEF Click, TypeOK
  <2> QED BY <1>2, <1>8, <2>3, <2>4 DEF Click
<1> QED BY <1>1, <1>3, <1>4, <1>5, <1>6, <1>7, <1>8 DEF Page

LEMMA ElsewhereTyped ==
  ASSUME TypeOK, NEW h \in Handlers, NEW r \in rows \cup profiles \cup {None},
         NEW k \in {"create", "delete", "revoke"}, Elsewhere(h, k, r)
  PROVE  TypeOK'
<1> USE DEF tables, pageVars, histories
<1>1. NoRequest \in Request(born) /\ k \in Kinds /\ r \in born \cup {None}
  BY NoRequestFits DEF Kinds, TypeOK
<1>2. [NoRequest EXCEPT !.kind = k, !.row = r] \in Request(born)
  BY <1>1 DEF Request
<1>3. pc' \in [Handlers -> Labels] /\ req' \in [Handlers -> Request(born)]
  BY <1>2, BeginTyped DEF Elsewhere
<1>4. TypedElse
  BY DEF Elsewhere, TypeOK, TypedElse
<1> QED BY <1>3, <1>4, TypedParts DEF Elsewhere

LEMMA TypeStep == TypeOK /\ CarriedInv /\ [Next]_vars => TypeOK'
<1> SUFFICES ASSUME TypeOK, CarriedInv, [Next]_vars PROVE TypeOK'
  OBVIOUS
<1>1. ASSUME UNCHANGED vars PROVE TypeOK'
  BY <1>1 DEF vars, tables, pageVars, histories, TypeOK
<1> QED BY <1>1, ServeTyped, PageTyped, ElsewhereTyped DEF Next

-----------------------------------------------------------------------------
(* What the requests carry *)

\* The page stays what it is, and a row that is gone does not come back.
TablesMove ==
  /\ page' = page
  /\ born \subseteq born'
  /\ \A r \in born : r \notin rows => r \notin rows'

LEMMA TablesDo ==
  ASSUME TypeOK, [Next]_vars
  PROVE  TablesMove
<1> USE DEF tables
<1>1. ASSUME UNCHANGED <<page, tables>> PROVE TablesMove
  BY <1>1 DEF TablesMove
<1>2. ASSUME NEW h \in Handlers, NEW r \in Places, InsertRow(h, r) PROVE TablesMove
  BY <1>2 DEF InsertRow, TablesMove
<1>3. ASSUME page' = page, born' = born, rows' \subseteq rows PROVE TablesMove
  BY <1>3 DEF TablesMove
<1>4. ASSUME NEW h \in Handlers, Serve(h) PROVE TablesMove
  <2>1. ASSUME InsertProfile(h) \/ DeleteProfile(h) PROVE TablesMove
    BY <1>3, <2>1 DEF InsertProfile, DeleteProfile
  <2>2. ASSUME DeleteUser(h) \/ DeleteSession(h) PROVE TablesMove
    BY <1>3, <2>2 DEF DeleteUser, DeleteSession, Drop
  <2>3. ASSUME ListPage(h) \/ UpdateUser(h) \/ Fails(h) PROVE TablesMove
    BY <1>1, <2>3 DEF ListPage, UpdateUser, Fails
  <2> QED BY <1>2, <1>4, <2>1, <2>2, <2>3 DEF Serve
<1>5. ASSUME NEW h \in Handlers, Page(h) PROVE TablesMove
  <2>1. ASSUME Mount(h) \/ Refresh(h) \/ LoadMore(h) \/ ShowPage(h) \/ Done(h)
        PROVE  TablesMove
    BY <1>1, <2>1 DEF Mount, Refresh, LoadMore, ShowPage, Done
  <2>2. ASSUME NEW g \in Handlers, LoadMoreAndFirst(h, g) PROVE TablesMove
    BY <1>1, <2>2 DEF LoadMoreAndFirst
  <2>3. ASSUME NEW k, NEW r, Click(h, k, r) PROVE TablesMove
    BY <1>1, <2>3 DEF Click
  <2> QED BY <1>5, <2>1, <2>2, <2>3 DEF Page
<1>6. ASSUME NEW h \in Handlers, NEW k, NEW r, Elsewhere(h, k, r) PROVE TablesMove
  BY <1>1, <1>6 DEF Elsewhere
<1> QED BY <1>1, <1>4, <1>5, <1>6 DEF Next, vars

LEMMA StillCarried ==
  ASSUME TablesMove, NEW label, NEW r, Carried(page, rows, born, label, r)
  PROVE  Carried(page', rows', born', label, r)
BY DEF TablesMove, Carried

Alone(h) == \A g \in Handlers \ {h} : pc'[g] = pc[g] /\ req'[g] = req[g]

LEMMA OneCarried ==
  ASSUME CarriedInv, TablesMove, NEW h \in Handlers, Alone(h),
         Carried(page', rows', born', pc'[h], req'[h])
  PROVE  CarriedInv'
<1>1. \A g \in Handlers \ {h} : Carried(page', rows', born', pc'[g], req'[g])
  BY StillCarried DEF CarriedInv, Alone
<1> QED BY <1>1 DEF CarriedInv

\* A request that ends carries nothing.
LEMMA EndCarried ==
  ASSUME TypeOK, CarriedInv, TablesMove, NEW h \in Handlers, End(h)
  PROVE  CarriedInv'
<1>1. Alone(h) /\ pc'[h] = "idle" /\ req'[h] = NoRequest
  BY DEF End, Alone, TypeOK
<1>2. Carried(page', rows', born', "idle", NoRequest)
  BY DEF Carried, NoRequest
<1> QED BY <1>1, <1>2, OneCarried

LEMMA ReplyCarried ==
  ASSUME TypeOK, CarriedInv, TablesMove, NEW h \in Handlers, Reply(h) \/ End(h),
         pc[h] \in {"run", "second"},
         req[h].kind = "create" => pc[h] = "second",
         req[h].kind = "revoke" => req[h].row \notin rows'
  PROVE  CarriedInv'
<1>1. CASE End(h)
  BY <1>1, EndCarried
<1>2. CASE req[h].here /\ Goto(h, "answer") /\ UNCHANGED req
  <2>1. Alone(h) /\ pc'[h] = "answer" /\ req'[h] = req[h]
    BY <1>2 DEF Goto, Alone, TypeOK
  <2>2. Carried(page', rows', born', "answer", req[h])
    <3>1. Carried(page', rows', born', pc[h], req[h])
      BY StillCarried DEF CarriedInv
    <3> QED BY <1>2, <3>1 DEF Carried
  <2> QED BY <2>1, <2>2, OneCarried
<1> QED BY <1>1, <1>2 DEF Reply

LEMMA BeginCarried ==
  ASSUME TypeOK, CarriedInv, TablesMove, NEW h \in Handlers, NEW r, Begin(h, r),
         Carried(page', rows', born', "run", r)
  PROVE  CarriedInv'
<1>1. Alone(h) /\ pc'[h] = "run" /\ req'[h] = r
  BY DEF Begin, Alone, TypeOK
<1> QED BY <1>1, OneCarried

LEMMA FetchCarried ==
  ASSUME NEW at, NEW there, NEW seen, NEW reset \in BOOLEAN, NEW after
  PROVE  Carried(at, there, seen, "run", Fetch(reset, after))
BY DEF Carried, Fetch, NoRequest

LEMMA CarriedStep == TypeOK /\ CarriedInv /\ [Next]_vars => CarriedInv'
<1> SUFFICES ASSUME TypeOK, CarriedInv, [Next]_vars PROVE CarriedInv'
  OBVIOUS
<1> USE DEF tables, pageVars, histories
<1>0. TablesMove
  BY TablesDo
<1>1. ASSUME NEW h \in Handlers, ListPage(h) PROVE CarriedInv'
  <2> DEFINE found == Descending({r \in rows : Before(r, req[h].next)})
             more == Len(found) > Limit
             shown == IF more THEN PageAfter(found) ELSE found
             to == IF more THEN shown[Limit] ELSE None
  <2>1. req' = [req EXCEPT ![h].got = shown, ![h].next = to] /\ Goto(h, "answer")
    BY <1>1 DEF ListPage
  <2> HIDE DEF to, shown
  <2>2. Alone(h) /\ pc'[h] = "answer"
    BY <2>1 DEF Goto, Alone, TypeOK
  <2>3. req[h] \in Request(born)
    BY DEF TypeOK
  <2>4. /\ req'[h].kind = req[h].kind
        /\ req'[h].here = req[h].here
        /\ req[h].kind = "fetch"
    BY <1>1, <2>1, <2>3 DEF ListPage, TypeOK, Request
  <2>5. req[h].here
    BY <2>4 DEF CarriedInv, Carried
  <2>6. Carried(page', rows', born', "answer", req'[h])
    BY <2>4, <2>5 DEF Carried
  <2> QED BY <1>0, <2>2, <2>6, OneCarried
<1>2. ASSUME NEW h \in Handlers, NEW r \in Places, InsertRow(h, r) PROVE CarriedInv'
  <2>1. r \in born' /\ req' = [req EXCEPT ![h].row = r]
    BY <1>2 DEF InsertRow
  <2>2. Alone(h) /\ pc'[h] = "second"
    BY <1>2 DEF InsertRow, Goto, Alone, TypeOK
  <2>3. /\ req'[h].kind = "create"
        /\ req'[h].row = r
        /\ page = "sandbox"
    BY <1>2, <2>1 DEF InsertRow, TypeOK, Request, CarriedInv, Carried
  <2>4. Carried(page', rows', born', "second", req'[h])
    BY <1>0, <2>1, <2>3 DEF Carried, TablesMove
  <2> QED BY <1>0, <2>2, <2>4, OneCarried
<1>3. ASSUME NEW h \in Handlers, InsertProfile(h) \/ DeleteUser(h) \/ UpdateUser(h)
      PROVE  CarriedInv'
  <2>1. /\ Reply(h) \/ End(h)
        /\ pc[h] \in {"run", "second"}
        /\ req[h].kind = "create" => pc[h] = "second"
        /\ req[h].kind # "revoke"
    BY <1>3 DEF InsertProfile, DeleteUser, UpdateUser
  <2> QED BY <1>0, <2>1, ReplyCarried
<1>4. ASSUME NEW h \in Handlers, DeleteSession(h) PROVE CarriedInv'
  <2>1. /\ Reply(h) /\ pc[h] = "run" /\ req[h].kind = "revoke"
        /\ req[h].row \notin rows'
    BY <1>4 DEF DeleteSession, Drop
  <2> QED BY <1>0, <2>1, ReplyCarried
<1>5. ASSUME NEW h \in Handlers, DeleteProfile(h) PROVE CarriedInv'
  <2>1. Alone(h) /\ pc'[h] = "second" /\ req'[h] = req[h] /\ req[h].kind = "delete"
    BY <1>5 DEF DeleteProfile, Goto, Alone, TypeOK
  <2>2. Carried(page', rows', born', pc[h], req[h])
    BY <1>0, StillCarried DEF CarriedInv
  <2>3. Carried(page', rows', born', "second", req[h])
    BY <2>1, <2>2 DEF Carried
  <2> QED BY <1>0, <2>1, <2>3, OneCarried
<1>6. ASSUME NEW h \in Handlers, Fails(h) \/ ShowPage(h) PROVE CarriedInv'
  BY <1>0, <1>6, EndCarried DEF Fails, ShowPage
<1>7. ASSUME NEW h \in Handlers, Mount(h) PROVE CarriedInv'
  <2> DEFINE lost(g) == Fetching(g) \/ pc[g] = "answer"
  <2>1. ASSUME NEW g \in Handlers PROVE Carried(page', rows', born', pc'[g], req'[g])
    <3>1. CASE g = h
      <4>1. pc'[g] = "run" /\ req'[g] = Fetch(TRUE, None)
        BY <1>7, <3>1 DEF Mount
      <4> QED BY <4>1, FetchCarried
    <3>2. CASE g # h /\ lost(g)
      <4>1. pc'[g] = "idle" /\ req'[g] = NoRequest
        BY <1>7, <3>2 DEF Mount
      <4> QED BY <4>1 DEF Carried, NoRequest
    <3>3. CASE g # h /\ ~lost(g)
      <4>1. pc'[g] = pc[g] /\ req'[g] = [req[g] EXCEPT !.here = FALSE]
        BY <1>7, <3>3 DEF Mount
      <4>2. req[g] \in Request(born)
        BY DEF TypeOK
      <4>3. /\ req'[g].kind = req[g].kind
            /\ req'[g].row = req[g].row
        BY <4>1, <4>2 DEF Request
      <4>4. Carried(page, rows, born, pc[g], req[g])
        BY DEF CarriedInv
      <4>5. req[g].kind # "fetch" /\ pc[g] # "answer"
        BY <3>3, <4>4 DEF Carried, Fetching, Here
      <4>6. Carried(page, rows, born, pc[g], req'[g])
        BY <4>3, <4>4, <4>5 DEF Carried
      <4> QED BY <1>0, <4>1, <4>6, StillCarried
    <3> QED BY <3>1, <3>2, <3>3
  <2> QED BY <2>1 DEF CarriedInv
<1>8. ASSUME NEW h \in Handlers, Refresh(h) \/ LoadMore(h) PROVE CarriedInv'
  BY <1>0, <1>8, BeginCarried, FetchCarried DEF Refresh, LoadMore
<1>9. ASSUME NEW h \in Handlers, NEW g \in Handlers, LoadMoreAndFirst(h, g) PROVE CarriedInv'
  <2>1. /\ pc'[h] = "run" /\ req'[h] = Fetch(FALSE, next)
        /\ pc'[g] = "run" /\ req'[g] = Fetch(TRUE, None)
        /\ \A f \in Handlers \ {h, g} : pc'[f] = pc[f] /\ req'[f] = req[f]
    BY <1>9 DEF LoadMoreAndFirst, TypeOK
  <2>2. \A f \in Handlers \ {h, g} : Carried(page', rows', born', pc'[f], req'[f])
    BY <1>0, <2>1, StillCarried DEF CarriedInv
  <2>3. /\ Carried(page', rows', born', pc'[h], req'[h])
        /\ Carried(page', rows', born', pc'[g], req'[g])
    BY <2>1, FetchCarried
  <2> QED BY <2>2, <2>3 DEF CarriedInv
<1>10. ASSUME NEW h \in Handlers, Done(h) PROVE CarriedInv'
  <2>1. CASE page = "sandbox"
    <3>1. Alone(h) /\ pc'[h] = "run" /\ req'[h] = Fetch(TRUE, None)
      BY <1>10, <2>1 DEF Done, Alone, TypeOK
    <3> QED BY <1>0, <3>1, FetchCarried, OneCarried
  <2>2. CASE page # "sandbox"
    BY <1>0, <1>10, <2>2, EndCarried DEF Done
  <2> QED BY <2>1, <2>2
<1>11. ASSUME NEW h \in Handlers, NEW r \in Places0,
              NEW k \in SandboxKinds \cup {"create", "revoke"}, Click(h, k, r)
       PROVE  CarriedInv'
  <2> DEFINE q == [NoRequest EXCEPT !.kind = k, !.row = r, !.here = TRUE]
  <2>1. q.kind = k /\ q.row = r
    BY DEF NoRequest
  <2>2. /\ k \in {"delete", "update"} => page = "sandbox" /\ r \in born
        /\ k = "create" => page = "sandbox"
        /\ k = "revoke" => page # "sandbox" /\ r \in born
        /\ k \in {"create", "delete", "update", "revoke"}
    BY <1>11 DEF Click, SandboxKinds, Listed, TypeOK
  <2> HIDE DEF q
  <2>3. Carried(page', rows', born', "run", q)
    BY <1>0, <2>1, <2>2 DEF Carried, TablesMove
  <2>4. Begin(h, q)
    BY <1>11 DEF Click, q
  <2> QED BY <1>0, <2>3, <2>4, BeginCarried
<1>12. ASSUME NEW h \in Handlers, NEW r \in rows \cup profiles \cup {None},
              NEW k \in {"create", "delete", "revoke"}, Elsewhere(h, k, r)
       PROVE  CarriedInv'
  <2> DEFINE q == [NoRequest EXCEPT !.kind = k, !.row = r]
  <2>1. q.kind = k /\ q.row = r
    BY DEF NoRequest
  <2>2. /\ k \in {"create", "delete"} => page = "sandbox"
        /\ k = "revoke" => page # "sandbox"
        /\ k # "create" => r \in born
    <3>1. k # "create" => r # None
      BY <1>12 DEF Elsewhere
    <3>2. r # None => r \in born
      BY DEF TypeOK
    <3> QED BY <1>12, <3>1, <3>2 DEF Elsewhere
  <2> HIDE DEF q
  <2>3. Carried(page', rows', born', "run", q)
    BY <1>0, <2>1, <2>2 DEF Carried, TablesMove
  <2>4. Begin(h, q)
    BY <1>12 DEF Elsewhere, q
  <2> QED BY <1>0, <2>3, <2>4, BeginCarried
<1>13. ASSUME UNCHANGED vars PROVE CarriedInv'
  BY <1>13 DEF vars, CarriedInv
<1> QED
  BY <1>1, <1>2, <1>3, <1>4, <1>5, <1>6, <1>7, <1>8, <1>9, <1>10, <1>11, <1>12, <1>13
  DEF Next, Serve, Page

LEMMA InitTyped == Init => TypeOK /\ CarriedInv
<1>1. Init => CarriedInv
  BY DEF Init, CarriedInv, Carried, NoRequest
<1>2. Init => req \in [Handlers -> Request(born)]
  BY NoRequestFits DEF Init
<1>3. ASSUME Init PROVE /\ page \in {"sandbox", "god", "developer"}
                        /\ rows \subseteq born /\ profiles \subseteq born /\ born \subseteq Places
                        /\ pc \in [Handlers -> {"idle", "run", "second", "answer"}]
                        /\ steady \subseteq rows /\ broken \in BOOLEAN /\ torn \subseteq born
  BY <1>3 DEF Init
<1>4. Init => list \in Seq(born) /\ next \in born \cup {None} /\ loading \in BOOLEAN
  BY DEF Init
<1> QED BY <1>1, <1>2, <1>3, <1>4 DEF TypeOK

\* Every reachable state of the lists is typed: among others no page holds more than Limit
\* rows and every cursor is a row that was there (SandboxService.listUsers, service.ts:28).
THEOREM TypeCorrect == Spec => []TypeOK
<1>1. Spec => [](TypeOK /\ CarriedInv)
  BY InitTyped, TypeStep, CarriedStep, PTL DEF Spec
<1> QED BY <1>1, PTL

-----------------------------------------------------------------------------
(* Users and their profiles *)

\* A step that neither touches the tables nor takes a request into or out of its second
\* query, other than by recording its row as torn.
Apart ==
  /\ UNCHANGED <<page, tables>>
  /\ torn \subseteq torn'
  /\ \A g \in Handlers :
       /\ pc'[g] = "second" =>
            pc[g] = "second" /\ req'[g].kind = req[g].kind /\ req'[g].row = req[g].row
       /\ pc[g] = "second" => pc'[g] = "second" \/ req[g].row \in torn'

LEMMA ApartKeeps ==
  ASSUME DeletionsInv, ProfilesMatchUsers, Apart
  PROVE  DeletionsInv' /\ ProfilesMatchUsers'
<1> USE DEF tables
<1>1. DeletionsInv'
  BY DEF DeletionsInv, Apart
<1>2. ASSUME page' = "sandbox", NEW r \in born' \ torn',
             (r \in rows') # (r \in profiles')
      PROVE  \E h \in Handlers : pc'[h] = "second" /\ req'[h].row = r
  <2>1. page = "sandbox" /\ r \in born \ torn /\ (r \in rows) # (r \in profiles)
    BY <1>2 DEF Apart
  <2>2. PICK h \in Handlers : pc[h] = "second" /\ req[h].row = r
    BY <2>1 DEF ProfilesMatchUsers
  <2>3. pc'[h] = "second" /\ req'[h].row = r
    BY <1>2, <2>2 DEF Apart
  <2> QED BY <2>3
<1> QED BY <1>1, <1>2 DEF ProfilesMatchUsers

LEMMA ReplyLeaves ==
  ASSUME TypeOK, NEW h \in Handlers, Reply(h) \/ End(h)
  PROVE  pc'[h] # "second" /\ Alone(h)
BY DEF TypeOK, Reply, Goto, End, Alone

\* A step of one request that is not in its second query.
LEMMA ApartAlone ==
  ASSUME UNCHANGED <<page, tables, torn>>, NEW h \in Handlers, Alone(h),
         pc[h] # "second", pc'[h] # "second"
  PROVE  Apart
BY DEF Apart, Alone

LEMMA PageApart ==
  ASSUME TypeOK, CarriedInv, NEW h \in Handlers, Page(h)
  PROVE  Apart
<1> USE DEF tables, pageVars, histories
<1>1. ASSUME Mount(h) PROVE Apart
  <2>1. ASSUME NEW g \in Handlers, pc'[g] = "second"
        PROVE  pc[g] = "second" /\ req'[g].kind = req[g].kind /\ req'[g].row = req[g].row
    <3>1. pc'[g] = pc[g] /\ req'[g] = [req[g] EXCEPT !.here = FALSE]
      BY <1>1, <2>1 DEF Mount
    <3>2. req[g] \in Request(born)
      BY DEF TypeOK
    <3> QED BY <2>1, <3>1, <3>2 DEF Request
  <2>2. ASSUME NEW g \in Handlers, pc[g] = "second" PROVE pc'[g] = "second"
    <3>1. ~Fetching(g)
      BY <2>2 DEF CarriedInv, Carried, Fetching
    <3> QED BY <1>1, <2>2, <3>1 DEF Mount
  <2> QED BY <1>1, <2>1, <2>2 DEF Mount, Apart
<1>2. ASSUME Refresh(h) \/ LoadMore(h) \/ ShowPage(h) \/ Done(h) PROVE Apart
  <2>1. Alone(h) /\ pc[h] # "second" /\ pc'[h] # "second"
    BY <1>2 DEF Refresh, LoadMore, ShowPage, Done, Begin, End, Alone, TypeOK
  <2>2. UNCHANGED <<page, tables, torn>>
    BY <1>2 DEF Refresh, LoadMore, ShowPage, Done
  <2> QED BY <2>1, <2>2, ApartAlone
<1>3. ASSUME NEW g \in Handlers, LoadMoreAndFirst(h, g) PROVE Apart
  <2>1. \A f \in Handlers :
          pc'[f] # pc[f] \/ req'[f] # req[f] => pc[f] = "idle" /\ pc'[f] = "run"
    BY <1>3 DEF LoadMoreAndFirst, TypeOK
  <2>2. UNCHANGED <<page, tables, torn>>
    BY <1>3 DEF LoadMoreAndFirst
  <2> QED BY <2>1, <2>2 DEF Apart
<1>4. ASSUME NEW k, NEW r, Click(h, k, r) PROVE Apart
  <2>1. Alone(h) /\ pc[h] # "second" /\ pc'[h] # "second"
    BY <1>4 DEF Click, Begin, Alone, TypeOK
  <2> QED BY <1>4, <2>1, ApartAlone DEF Click
<1> QED BY <1>1, <1>2, <1>3, <1>4 DEF Page

LEMMA MatchStep ==
  TypeOK /\ CarriedInv /\ DeletionsInv /\ ProfilesMatchUsers /\ [Next]_vars
    => DeletionsInv' /\ ProfilesMatchUsers'
<1> SUFFICES ASSUME TypeOK, CarriedInv, DeletionsInv, ProfilesMatchUsers, [Next]_vars
             PROVE  DeletionsInv' /\ ProfilesMatchUsers'
  OBVIOUS
<1> USE DEF tables, pageVars, histories
<1>1. ASSUME NEW h \in Handlers, ListPage(h) \/ UpdateUser(h)
      PROVE  Apart
  <2>1. Alone(h) /\ pc[h] # "second" /\ pc'[h] # "second"
    <3>1. CASE ListPage(h)
      BY <3>1 DEF ListPage, Goto, Alone, TypeOK
    <3>2. CASE UpdateUser(h)
      BY <3>2, ReplyLeaves DEF UpdateUser
    <3> QED BY <1>1, <3>1, <3>2
  <2>2. UNCHANGED <<page, tables, torn>>
    BY <1>1 DEF ListPage, UpdateUser
  <2> QED BY <2>1, <2>2, ApartAlone
<1>2. ASSUME NEW h \in Handlers, Fails(h) PROVE Apart
  <2>1. pc'[h] = "idle" /\ Alone(h)
    BY <1>2 DEF Fails, End, Alone, TypeOK
  <2>2. UNCHANGED <<page, tables>> /\ torn \subseteq torn'
    BY <1>2 DEF Fails
  <2>3. pc[h] = "second" => req[h].row \in torn'
    BY <1>2 DEF Fails
  <2> QED BY <2>1, <2>2, <2>3 DEF Apart, Alone
<1>3. ASSUME NEW h \in Handlers, NEW k, NEW r, Elsewhere(h, k, r) PROVE Apart
  <2>1. Alone(h) /\ pc[h] # "second" /\ pc'[h] # "second"
    BY <1>3 DEF Elsewhere, Begin, Alone, TypeOK
  <2> QED BY <1>3, <2>1, ApartAlone DEF Elsewhere
<1>4. ASSUME NEW h \in Handlers, DeleteSession(h) PROVE DeletionsInv' /\ ProfilesMatchUsers'
  <2>1. page # "sandbox" /\ page' = page /\ UNCHANGED <<profiles, torn>>
    BY <1>4 DEF DeleteSession, CarriedInv, Carried
  <2>2. pc'[h] # "second" /\ Alone(h)
    BY <1>4, ReplyLeaves DEF DeleteSession
  <2>3. DeletionsInv'
    BY <2>1, <2>2 DEF DeletionsInv, Alone
  <2> QED BY <2>1, <2>3 DEF ProfilesMatchUsers
\* The row of a request in its second query may be apart; of the others nothing changes.
<1>5. ASSUME NEW h \in Handlers, NEW x, Alone(h), page' = page,
             \A r \in born' : r # x =>
               /\ r \in born /\ (r \in rows' <=> r \in rows)
               /\ (r \in profiles' <=> r \in profiles)
               /\ (r \in torn' <=> r \in torn),
             pc[h] = "second" => req[h].row = x,
             x \notin torn' /\ (x \in rows') # (x \in profiles')
               => \E g \in Handlers : pc'[g] = "second" /\ req'[g].row = x
      PROVE  ProfilesMatchUsers'
  <2> SUFFICES ASSUME page' = "sandbox", NEW r \in born' \ torn',
                      (r \in rows') # (r \in profiles')
               PROVE  \E g \in Handlers : pc'[g] = "second" /\ req'[g].row = r
    BY DEF ProfilesMatchUsers
  <2>1. CASE r = x
    BY <1>5, <2>1
  <2>2. CASE r # x
    <3>1. r \in born \ torn /\ (r \in rows) # (r \in profiles)
      BY <1>5, <2>2
    <3>2. PICK g \in Handlers : pc[g] = "second" /\ req[g].row = r
      BY <1>5, <3>1 DEF ProfilesMatchUsers
    <3>3. g # h
      BY <1>5, <2>2, <3>2
    <3> QED BY <1>5, <3>2, <3>3 DEF Alone
  <2> QED BY <2>1, <2>2
<1>6. ASSUME NEW h \in Handlers, NEW r \in Places, InsertRow(h, r)
      PROVE  DeletionsInv' /\ ProfilesMatchUsers'
  <2>1. /\ rows' = rows \cup {r} /\ born' = born \cup {r}
        /\ UNCHANGED <<page, profiles, torn>>
        /\ pc[h] = "run"
    BY <1>6 DEF InsertRow
  <2>2. /\ Alone(h)
        /\ pc'[h] = "second"
        /\ req'[h].row = r
        /\ req'[h].kind = "create"
    BY <1>6 DEF InsertRow, Goto, Alone, TypeOK, Request
  <2>3. DeletionsInv'
    BY <2>1, <2>2 DEF DeletionsInv, Alone
  <2>4. ProfilesMatchUsers'
    BY <1>5, <2>1, <2>2
  <2> QED BY <2>3, <2>4
<1>7. ASSUME NEW h \in Handlers, InsertProfile(h) PROVE DeletionsInv' /\ ProfilesMatchUsers'
  <2> DEFINE r == req[h].row
  <2>1. /\ pc[h] = "second" /\ UNCHANGED <<page, rows, born>>
        /\ torn' = IF r \in rows /\ ~Others(h, "delete", r) THEN torn ELSE torn \cup {r}
        /\ profiles' = profiles \cup {r} \/ (r \notin rows /\ profiles' = profiles)
    BY <1>7 DEF InsertProfile
  <2>2. pc'[h] # "second" /\ Alone(h)
    BY <1>7, ReplyLeaves DEF InsertProfile
  <2>3. DeletionsInv'
    <3> SUFFICES ASSUME NEW g \in Handlers, pc'[g] = "second", req'[g].kind = "delete",
                        req'[g].row \in profiles'
                 PROVE  req'[g].row \in torn'
      BY DEF DeletionsInv
    <3>1. g # h /\ pc[g] = "second" /\ req[g].kind = "delete" /\ req'[g].row = req[g].row
      BY <2>2 DEF Alone
    <3>2. CASE req[g].row = r
      BY <2>1, <3>1, <3>2 DEF Others
    <3>3. CASE req[g].row # r
      BY <2>1, <3>1, <3>3 DEF DeletionsInv
    <3> QED BY <3>2, <3>3
  <2>4. r \notin torn' => r \in rows' /\ r \in profiles'
    BY <2>1
  <2>5. ProfilesMatchUsers'
    BY <1>5, <2>1, <2>2, <2>4
  <2> QED BY <2>3, <2>5
<1>8. ASSUME NEW h \in Handlers, DeleteProfile(h) PROVE DeletionsInv' /\ ProfilesMatchUsers'
  <2> DEFINE r == req[h].row
  <2>1. /\ pc[h] = "run" /\ UNCHANGED <<page, rows, born, req>>
        /\ profiles' = profiles \ {r}
        /\ torn' = IF Others(h, "create", r) THEN torn \cup {r} ELSE torn
    BY <1>8 DEF DeleteProfile
  <2>2. pc'[h] = "second" /\ Alone(h)
    BY <1>8 DEF DeleteProfile, Goto, Alone, TypeOK
  <2>3. DeletionsInv'
    BY <2>1, <2>2 DEF DeletionsInv, Alone
  <2>4. ProfilesMatchUsers'
    BY <1>5, <2>1, <2>2
  <2> QED BY <2>3, <2>4
<1>9. ASSUME NEW h \in Handlers, DeleteUser(h) PROVE DeletionsInv' /\ ProfilesMatchUsers'
  <2> DEFINE r == req[h].row
  <2>1. /\ pc[h] = "second" /\ req[h].kind = "delete"
        /\ UNCHANGED <<page, profiles, born>>
        /\ Reply(h) \/ End(h)
    BY <1>9 DEF DeleteUser
  <2>2. r \in profiles => r \in torn
    BY <2>1 DEF DeletionsInv
  <2>3. \/ /\ rows' = rows \ {r}
           /\ torn' = torn \/ (torn' = torn \ {r} /\ r \notin profiles)
        \/ r \in profiles /\ rows' = rows /\ torn' = torn
    BY <1>9 DEF DeleteUser, Drop
  <2>4. pc'[h] # "second" /\ Alone(h)
    BY <2>1, ReplyLeaves
  <2>5. DeletionsInv'
    BY <2>1, <2>3, <2>4 DEF DeletionsInv, Alone
  <2>6. r \notin torn' => r \notin rows' /\ r \notin profiles'
    BY <2>1, <2>2, <2>3
  <2>7. ProfilesMatchUsers'
    BY <1>5, <2>1, <2>3, <2>4, <2>6
  <2> QED BY <2>5, <2>7
<1>10. ASSUME UNCHANGED vars PROVE Apart
  BY <1>10 DEF vars, Apart
<1> QED
  BY <1>1, <1>2, <1>3, <1>4, <1>6, <1>7, <1>8, <1>9, <1>10, ApartKeeps, PageApart
  DEF Next, Serve

\* A sandbox user has a profile and a profile its user, whatever creations and deletions
\* run at once, except where one was cut off or the two met (SandboxService.createUser
\* and deleteUser, service.ts:55-95).
THEOREM ProfilesCorrect == Spec => []ProfilesMatchUsers
<1>1. Init => DeletionsInv /\ ProfilesMatchUsers
  BY DEF Init, DeletionsInv, ProfilesMatchUsers
<1>2. Spec => [](TypeOK /\ CarriedInv /\ DeletionsInv /\ ProfilesMatchUsers)
  BY <1>1, InitTyped, TypeStep, CarriedStep, MatchStep, PTL DEF Spec
<1> QED BY <1>2, PTL

-----------------------------------------------------------------------------
(* What a page has put together *)

LEMMA FetchIs ==
  ASSUME CarriedInv
  PROVE  \A h \in Handlers : Fetching(h) <=> req[h].kind = "fetch"
BY DEF CarriedInv, Carried, Fetching, Here

LEMMA NotBroken ==
  ASSUME NEW lost, BreakIf(lost), ~broken'
  PROVE  ~lost /\ ~broken /\ UNCHANGED <<broken, steady>>
BY DEF BreakIf

LEMMA ContinuesFewer ==
  ASSUME NEW items, NEW cursor, NEW st, NEW fewer \in SUBSET st, NEW label, NEW r,
         Continues(items, cursor, st, label, r)
  PROVE  Continues(items, cursor, fewer, label, r)
<1>1. label = "answer" =>
        Covers(r.got, IF r.reset THEN None ELSE cursor, r.next, st)
  BY DEF Continues
<1>2. label = "answer" =>
        Covers(r.got, IF r.reset THEN None ELSE cursor, r.next, fewer)
  BY <1>1, CoversFewer
<1> QED BY <1>2 DEF Continues

\* A step beside the page: what it shows and its fetches stay, rows may go.
LEMMA BesideKeeps ==
  ASSUME TypeOK, PagesInv, list' = list, next' = next, broken' = broken,
         steady' \subseteq steady,
         \A g \in Handlers :
           /\ req[g].kind = "fetch" => req'[g].kind = "fetch"
           /\ req'[g].kind = "fetch" => pc'[g] = pc[g] /\ req'[g] = req[g]
  PROVE  PagesInv'
<1> SUFFICES ASSUME ~broken
             PROVE  /\ \A g, h \in Handlers :
                         req'[g].kind = "fetch" /\ req'[h].kind = "fetch" => g = h
                    /\ \A h \in Handlers : req'[h].kind = "fetch" =>
                         Continues(list', next', steady', pc'[h], req'[h])
                    /\ (\A h \in Handlers : req'[h].kind = "fetch" => ~req'[h].reset) =>
                         Covers(list', None, next', steady')
  BY DEF PagesInv
<1>1. \A g, h \in Handlers : req'[g].kind = "fetch" /\ req'[h].kind = "fetch" => g = h
  BY DEF PagesInv
<1>2. ASSUME NEW h \in Handlers, req'[h].kind = "fetch"
      PROVE  Continues(list', next', steady', pc'[h], req'[h])
  <2>1. pc'[h] = pc[h] /\ req'[h] = req[h]
    BY <1>2
  <2>2. Continues(list, next, steady, pc[h], req[h])
    BY <1>2, <2>1 DEF PagesInv
  <2>3. Continues(list, next, steady', pc[h], req[h])
    BY <2>2, ContinuesFewer
  <2> QED BY <2>1, <2>3
<1>3. ASSUME \A h \in Handlers : req'[h].kind = "fetch" => ~req'[h].reset
      PROVE  Covers(list', None, next', steady')
  <2>1. \A h \in Handlers : req[h].kind = "fetch" => ~req[h].reset
    BY <1>3
  <2>2. Covers(list, None, next, steady)
    BY <2>1 DEF PagesInv
  <2> QED BY <2>2, CoversFewer
<1> QED BY <1>1, <1>2, <1>3

\* One request alone: it fetches neither before nor after the step.
LEMMA BesideAlone ==
  ASSUME TypeOK, PagesInv, list' = list, next' = next, broken' = broken,
         steady' \subseteq steady, NEW h \in Handlers, Alone(h),
         req[h].kind # "fetch", req'[h].kind # "fetch"
  PROVE  PagesInv'
BY BesideKeeps DEF Alone

LEMMA NumbersOnly ==
  ASSUME NEW B \in SUBSET Nat, NEW items \in Seq(B)
  PROVE  items \in Seq(Nat)
<1>1. ASSUME NEW i \in 1..Len(items) PROVE items[i] \in Nat
  <2>1. items[i] \in B
    OBVIOUS
  <2> QED BY <2>1
<1>2. items = [i \in 1..Len(items) |-> items[i]] /\ Len(items) \in Nat
  OBVIOUS
<1> QED BY <1>1, <1>2

LEMMA ReplyKinds ==
  ASSUME TypeOK, NEW h \in Handlers, Reply(h) \/ End(h), req[h].kind # "fetch"
  PROVE  Alone(h) /\ req'[h].kind # "fetch"
BY DEF TypeOK, Reply, Goto, End, Alone, NoRequest

LEMMA ServeKeepsPages ==
  ASSUME TypeOK, CarriedInv, PagesInv, NEW h \in Handlers, Serve(h)
  PROVE  PagesInv'
<1> USE DEF tables, pageVars, histories
<1>1. ASSUME ListPage(h) PROVE PagesInv'
  <2> DEFINE S == {r \in rows : Before(r, req[h].next)}
             found == Descending(S)
             more == Len(found) > Limit
             shown == IF more THEN PageAfter(found) ELSE found
             to == IF more THEN shown[Limit] ELSE None
             from == IF req[h].reset THEN None ELSE next
  <2>1. S \in SUBSET Places /\ rows \in SUBSET Places
    BY DEF TypeOK
  <2>2. /\ req' = [req EXCEPT ![h].got = shown, ![h].next = to]
        /\ pc[h] = "run" /\ req[h].kind = "fetch"
        /\ steady' = IF req[h].reset /\ ~broken THEN rows ELSE steady
        /\ Goto(h, "answer")
        /\ UNCHANGED <<list, next, broken>>
    BY <1>1 DEF ListPage
  <2>3. /\ shown \in Seq(S)
        /\ Len(shown) <= Limit
        /\ to \in S \cup {None}
        /\ Covers(shown, None, to, S)
    BY <2>1, FirstPage
  <2> HIDE DEF shown, to, found, more
  <2>4. SUFFICES ASSUME ~broken PROVE PagesInv'
    BY <2>2 DEF PagesInv
  <2>5. req[h] \in Request(born) /\ Alone(h) /\ pc'[h] = "answer"
    BY <2>2 DEF TypeOK, Goto, Alone
  <2>6. req[h].next \in Places0
    BY <2>5 DEF TypeOK, Request, Places0
  <2>7. Covers(shown, req[h].next, to, rows)
    BY <2>1, <2>3, <2>6, NextPage
  <2>8. /\ req'[h].kind = "fetch"
        /\ req'[h].reset = req[h].reset
        /\ req'[h].got = shown
        /\ req'[h].next = to
    <3>1. S \subseteq born
      BY DEF TypeOK
    <3>2. shown \in {items \in Seq(born) : Len(items) <= Limit} /\ to \in born \cup {None}
      BY <2>3, <3>1
    <3>3. req \in [Handlers -> Request(born)]
      BY DEF TypeOK
    <3>4. Answered(h, shown, to)
      BY <2>2 DEF Answered
    <3>5. /\ req' \in [Handlers -> Request(born)]
          /\ req'[h].kind = req[h].kind
          /\ req'[h].reset = req[h].reset
          /\ req'[h].got = shown
          /\ req'[h].next = to
      BY <3>2, <3>3, <3>4, AnswerFits
    <3> QED BY <2>2, <3>5
  <2>9. Continues(list, next, steady, "run", req[h])
    BY <2>2, <2>4 DEF PagesInv
  <2>10. req[h].next = from
    BY <2>9 DEF Continues
  <2>11. steady' \subseteq rows
    BY <2>2 DEF TypeOK
  <2>12. Covers(shown, from, to, steady')
    BY <2>7, <2>10, <2>11, CoversFewer
  <2>13. Continues(list, next, steady', "answer", req'[h])
    BY <2>8, <2>9, <2>12 DEF Continues
  <2>14. \A g \in Handlers \ {h} : req'[g].kind # "fetch"
    BY <2>2, <2>4, <2>5 DEF PagesInv, Alone
  <2>15. ~req[h].reset => Covers(list, None, next, steady')
    <3>1. ASSUME ~req[h].reset PROVE Covers(list, None, next, steady')
      <4>1. \A g \in Handlers : req[g].kind = "fetch" => ~req[g].reset
        BY <2>2, <2>4, <3>1 DEF PagesInv
      <4>2. Covers(list, None, next, steady)
        BY <2>4, <4>1 DEF PagesInv
      <4> QED BY <2>2, <3>1, <4>2
    <3> QED BY <3>1
  <2> QED BY <2>2, <2>5, <2>8, <2>13, <2>14, <2>15 DEF PagesInv
<1>2. ASSUME NEW r \in Places, InsertRow(h, r) PROVE PagesInv'
  <2>1. Alone(h) /\ req[h].kind # "fetch" /\ req'[h].kind # "fetch"
    BY <1>2 DEF InsertRow, Goto, Alone, TypeOK, Request
  <2> QED BY <1>2, <2>1, BesideAlone DEF InsertRow
<1>3. ASSUME InsertProfile(h) PROVE PagesInv'
  <2>1. Alone(h) /\ req[h].kind # "fetch" /\ req'[h].kind # "fetch"
    BY <1>3, ReplyKinds DEF InsertProfile
  <2> QED BY <1>3, <2>1, BesideAlone DEF InsertProfile
<1>4. ASSUME DeleteProfile(h) PROVE PagesInv'
  <2>1. Alone(h) /\ req[h].kind # "fetch" /\ req'[h].kind # "fetch"
    BY <1>4 DEF DeleteProfile, Goto, Alone, TypeOK
  <2> QED BY <1>4, <2>1, BesideAlone DEF DeleteProfile
<1>5. ASSUME DeleteUser(h) \/ DeleteSession(h) \/ UpdateUser(h) PROVE PagesInv'
  <2>1. Alone(h) /\ req[h].kind # "fetch" /\ req'[h].kind # "fetch"
    BY <1>5, ReplyKinds DEF DeleteUser, DeleteSession, UpdateUser
  <2>2. steady' \subseteq steady /\ UNCHANGED <<list, next, broken>>
    BY <1>5 DEF DeleteUser, DeleteSession, UpdateUser, Drop
  <2> QED BY <2>1, <2>2, BesideAlone
<1>6. ASSUME Fails(h) PROVE PagesInv'
  <2>1. SUFFICES ASSUME ~broken' PROVE PagesInv'
    BY DEF PagesInv
  <2>2. /\ ~Fetching(h) /\ ~broken
        /\ UNCHANGED <<broken, steady, list, next>>
        /\ End(h)
    BY <1>6, <2>1, NotBroken DEF Fails
  <2>3. req[h].kind # "fetch"
    BY <2>2, FetchIs
  <2>4. Alone(h) /\ req'[h].kind # "fetch"
    BY <2>2, <2>3, ReplyKinds
  <2> QED BY <2>1, <2>2, <2>3, <2>4, BesideAlone
<1> QED BY <1>1, <1>2, <1>3, <1>4, <1>5, <1>6 DEF Serve

\* The one fetch of a page that starts over.
LEMMA StartsOver ==
  ASSUME TypeOK, list' = <<>>, NEW h \in Handlers, pc'[h] = "run",
         req'[h] = Fetch(TRUE, None), \A g \in Handlers \ {h} : req'[g].kind # "fetch"
  PROVE  PagesInv'
<1>1. /\ req'[h].kind = "fetch"
      /\ req'[h].reset
      /\ req'[h].next = None
  <2>1. /\ Fetch(TRUE, None) \in Request(born)
        /\ Fetch(TRUE, None).kind = "fetch"
        /\ Fetch(TRUE, None).reset = TRUE
        /\ Fetch(TRUE, None).next = None
    BY FetchFits
  <2> QED BY <2>1
<1>2. Continues(list', next', steady', pc'[h], req'[h])
  BY <1>1 DEF Continues
<1> QED BY <1>1, <1>2 DEF PagesInv

LEMMA PageKeepsPages ==
  ASSUME TypeOK, CarriedInv, PagesInv, NEW h \in Handlers, Page(h)
  PROVE  PagesInv'
<1> USE DEF tables, pageVars, histories
<1>1. ASSUME Mount(h) PROVE PagesInv'
  <2>1. pc'[h] = "run" /\ req'[h] = Fetch(TRUE, None) /\ list' = <<>>
    BY <1>1 DEF Mount, Clear
  <2>2. ASSUME NEW g \in Handlers \ {h} PROVE req'[g].kind # "fetch"
    <3>1. CASE Fetching(g) \/ pc[g] = "answer"
      <4>1. req'[g] = NoRequest
        BY <1>1, <3>1 DEF Mount
      <4> QED BY <4>1 DEF NoRequest
    <3>2. CASE ~(Fetching(g) \/ pc[g] = "answer")
      <4>1. req'[g] = [req[g] EXCEPT !.here = FALSE]
        BY <1>1, <3>2 DEF Mount
      <4>2. req[g] \in Request(born) /\ req[g].kind # "fetch"
        BY <3>2, FetchIs DEF TypeOK
      <4>3. req'[g].kind = req[g].kind
        BY <4>1, <4>2 DEF Request
      <4> QED BY <4>2, <4>3
    <3> QED BY <3>1, <3>2
  <2> QED BY <2>1, <2>2, StartsOver
<1>2. ASSUME Refresh(h) \/ (Done(h) /\ page = "sandbox") PROVE PagesInv'
  <2>1. SUFFICES ASSUME ~broken' PROVE PagesInv'
    BY DEF PagesInv
  <2>2. BreakIf(Overlap(h)) /\ Clear
    BY <1>2 DEF Refresh, Done
  <2>3. pc'[h] = "run" /\ req'[h] = Fetch(TRUE, None) /\ Alone(h)
    BY <1>2 DEF Refresh, Done, Begin, Alone, TypeOK
  <2>4. ~Overlap(h)
    BY <2>1, <2>2, NotBroken
  <2>5. \A g \in Handlers \ {h} : req'[g].kind # "fetch"
    BY <2>3, <2>4, FetchIs DEF Overlap, Alone
  <2> QED BY <2>2, <2>3, <2>5, StartsOver DEF Clear
<1>3. ASSUME LoadMore(h) PROVE PagesInv'
  <2>1. SUFFICES ASSUME ~broken' PROVE PagesInv'
    BY DEF PagesInv
  <2>2. /\ next # None
        /\ Begin(h, Fetch(FALSE, next))
        /\ BreakIf(Overlap(h))
        /\ UNCHANGED <<list, next>>
    BY <1>3 DEF LoadMore, MoreShown
  <2>3. ~Overlap(h) /\ ~broken /\ steady' = steady
    BY <2>1, <2>2, NotBroken
  <2>4. pc[h] = "idle" /\ pc'[h] = "run" /\ req'[h] = Fetch(FALSE, next) /\ Alone(h)
    BY <2>2 DEF Begin, Alone, TypeOK
  <2>5. \A g \in Handlers : req[g].kind # "fetch"
    BY <2>3, <2>4, FetchIs DEF Overlap, CarriedInv, Carried
  <2>6. Covers(list, None, next, steady)
    BY <2>3, <2>5 DEF PagesInv
  <2>7. /\ req'[h].kind = "fetch"
        /\ ~req'[h].reset
        /\ req'[h].next = next
    <3> DEFINE F == Fetch(FALSE, next)
    <3>1. F.kind = "fetch" /\ F.reset = FALSE /\ F.next = next
      BY DEF Fetch, NoRequest
    <3>2. req'[h] = F
      BY <2>4
    <3> HIDE DEF F
    <3> QED BY <3>1, <3>2
  <2>8. Continues(list', next', steady', pc'[h], req'[h])
    BY <2>2, <2>4, <2>7 DEF Continues
  <2>9. \A g \in Handlers \ {h} : req'[g].kind # "fetch"
    BY <2>4, <2>5 DEF Alone
  <2>10. \A g, k \in Handlers :
           req'[g].kind = "fetch" /\ req'[k].kind = "fetch" => g = k
    BY <2>9
  <2>11. \A g \in Handlers : req'[g].kind = "fetch" =>
           Continues(list', next', steady', pc'[g], req'[g])
    BY <2>8, <2>9
  <2>12. Covers(list', None, next', steady')
    BY <2>2, <2>3, <2>6
  <2> QED BY <2>10, <2>11, <2>12 DEF PagesInv
<1>4. ASSUME NEW g \in Handlers, LoadMoreAndFirst(h, g) PROVE PagesInv'
  <2>1. broken'
    BY <1>4 DEF LoadMoreAndFirst, BreakIf
  <2> QED BY <2>1 DEF PagesInv
<1>5. ASSUME ShowPage(h) PROVE PagesInv'
  <2>1. /\ pc[h] = "answer" /\ Fetching(h)
        /\ list' = IF req[h].reset THEN req[h].got ELSE list \o req[h].got
        /\ next' = req[h].next
        /\ End(h)
        /\ UNCHANGED <<broken, steady>>
    BY <1>5 DEF ShowPage
  <2>2. SUFFICES ASSUME ~broken PROVE PagesInv'
    BY <2>1 DEF PagesInv
  <2>3. req[h].kind = "fetch" /\ Continues(list, next, steady, "answer", req[h])
    BY <2>1, <2>2, FetchIs DEF PagesInv
  <2>4. \A g \in Handlers \ {h} : req[g].kind # "fetch"
    BY <2>2, <2>3 DEF PagesInv
  <2>5. Alone(h) /\ req'[h] = NoRequest
    BY <2>1 DEF End, Alone, TypeOK
  <2>6. \A g \in Handlers : req'[g].kind # "fetch"
    BY <2>4, <2>5 DEF Alone, NoRequest
  <2>7. Covers(list', None, next', steady)
    <3>1. CASE req[h].reset
      BY <2>1, <2>3, <3>1 DEF Continues
    <3>2. CASE ~req[h].reset
      <4>1. next # None /\ Covers(req[h].got, next, req[h].next, steady)
        BY <2>3, <3>2 DEF Continues
      <4>2. Covers(list, None, next, steady)
        BY <2>2, <2>4, <3>2 DEF PagesInv
      <4>3. born \subseteq Nat /\ steady \in SUBSET Nat
        BY ListAssumption DEF TypeOK
      <4>4. list \in Seq(Nat) /\ req[h].got \in Seq(Nat)
        <5>1. list \in Seq(born) /\ req[h].got \in Seq(born)
          <6>1. req[h] \in Request(born) /\ list \in Seq(born)
            BY DEF TypeOK
          <6>2. req[h].got \in {items \in Seq(born) : Len(items) <= Limit}
            BY <6>1 DEF Request
          <6> QED BY <6>1, <6>2
        <5> QED BY <4>3, <5>1, NumbersOnly
      <4>5. next \in Nat /\ req[h].next \in Nat \cup {None}
        BY <4>1, <4>3 DEF TypeOK, Request
      <4>6. Covers(list \o req[h].got, None, req[h].next, steady)
        BY <4>1, <4>2, <4>3, <4>4, <4>5, CoversJoin
      <4> QED BY <2>1, <3>2, <4>6
    <3> QED BY <3>1, <3>2
  <2> QED BY <2>1, <2>6, <2>7 DEF PagesInv
\* A row that was revoked leaves the list; it is gone from the table by then.
<1>6. ASSUME Done(h), page # "sandbox" PROVE PagesInv'
  <2> DEFINE row == req[h].row
  <2>1. /\ pc[h] = "answer" /\ ~Fetching(h)
        /\ End(h)
        /\ list' = Without(list, row)
        /\ UNCHANGED <<next, broken, steady>>
    BY <1>6 DEF Done
  <2>2. SUFFICES ASSUME ~broken PROVE PagesInv'
    BY <2>1 DEF PagesInv
  <2>3. Carried(page, rows, born, "answer", req[h]) /\ req[h].kind # "fetch"
    BY <2>1, FetchIs DEF CarriedInv
  <2>4. req[h].kind \in Kinds
    BY DEF TypeOK, Request
  <2>5. req[h].kind = "revoke"
    BY <1>6, <2>3, <2>4 DEF Carried, Kinds
  <2>6. row \notin steady
    BY <2>3, <2>5 DEF Carried, TypeOK
  <2>7. Alone(h) /\ req'[h].kind # "fetch"
    BY <2>1, <2>3, ReplyKinds
  <2>8. list = <<>> => list' = <<>>
    <3>1. Without(<<>>, row) \in Seq({})
      <4>1. <<>> \in Seq({})
        OBVIOUS
      <4> QED BY <4>1, KeptTyped
    <3>2. Without(<<>>, row) = <<>>
      BY <3>1
    <3> QED BY <2>1, <3>2
  <2>9. ASSUME Covers(list, None, next, steady) PROVE Covers(list', None, next', steady')
    <3>1. born \in SUBSET Nat /\ list \in Seq(born)
      BY ListAssumption DEF TypeOK
    <3>2. Covers(Without(list, row), None, next, steady)
      BY <2>6, <2>9, <3>1, KeptCovers
    <3> QED BY <2>1, <3>2
  <2>10. ASSUME NEW g \in Handlers, req'[g].kind = "fetch"
         PROVE  Continues(list', next', steady', pc'[g], req'[g])
    <3>1. g # h /\ pc'[g] = pc[g] /\ req'[g] = req[g]
      BY <2>7, <2>10 DEF Alone
    <3>2. Continues(list, next, steady, pc[g], req[g])
      BY <2>2, <2>10, <3>1 DEF PagesInv
    <3>3. Continues(list', next, steady, pc[g], req[g])
      BY <2>8, <3>2 DEF Continues
    <3> QED BY <2>1, <3>1, <3>3
  <2>11. \A g \in Handlers : req[g].kind = "fetch" => req'[g] = req[g]
    BY <2>3, <2>7 DEF Alone
  <2>12. \A g \in Handlers : req'[g].kind = "fetch" => req[g].kind = "fetch"
    BY <2>7 DEF Alone
  <2>13. \A f, g \in Handlers : req'[f].kind = "fetch" /\ req'[g].kind = "fetch" => f = g
    BY <2>2, <2>12 DEF PagesInv
  <2>14. ASSUME \A g \in Handlers : req'[g].kind = "fetch" => ~req'[g].reset
         PROVE  Covers(list', None, next', steady')
    <3>1. \A g \in Handlers : req[g].kind = "fetch" => ~req[g].reset
      BY <2>11, <2>14
    <3>2. Covers(list, None, next, steady)
      BY <2>2, <3>1 DEF PagesInv
    <3> QED BY <2>9, <3>2
  <2> QED BY <2>10, <2>13, <2>14 DEF PagesInv
<1>7. ASSUME NEW r \in Places0, NEW k \in SandboxKinds \cup {"create", "revoke"},
             Click(h, k, r)
      PROVE  PagesInv'
  <2>1. pc[h] = "idle" /\ Alone(h) /\ req'[h].kind = k /\ k # "fetch"
    BY <1>7 DEF Click, Begin, Alone, TypeOK, NoRequest, SandboxKinds
  <2>2. req[h].kind # "fetch"
    BY <2>1 DEF CarriedInv, Carried
  <2> QED BY <1>7, <2>1, <2>2, BesideAlone DEF Click
<1> QED BY <1>1, <1>2, <1>3, <1>4, <1>5, <1>6, <1>7 DEF Page

LEMMA PagesStep == TypeOK /\ CarriedInv /\ PagesInv /\ [Next]_vars => PagesInv'
<1> SUFFICES ASSUME TypeOK, CarriedInv, PagesInv, [Next]_vars PROVE PagesInv'
  OBVIOUS
<1> USE DEF tables, pageVars, histories
<1>1. ASSUME NEW h \in Handlers, NEW r, NEW k \in {"create", "delete", "revoke"},
             Elsewhere(h, k, r)
      PROVE  PagesInv'
  <2>1. pc[h] = "idle" /\ Alone(h) /\ req'[h].kind = k
    BY <1>1 DEF Elsewhere, Begin, Alone, TypeOK, NoRequest
  <2>2. req[h].kind # "fetch"
    BY <2>1 DEF CarriedInv, Carried
  <2> QED BY <1>1, <2>1, <2>2, BesideAlone DEF Elsewhere
<1>2. ASSUME UNCHANGED vars PROVE PagesInv'
  BY <1>2 DEF vars, PagesInv
<1> QED BY <1>1, <1>2, ServeKeepsPages, PageKeepsPages DEF Next

\* What a page has put together from several answers fits, whatever is inserted and
\* deleted between its fetches and whichever row it revokes, as long as no two of them
\* overlap and none is lost: for every size of a page and every number of rows in a second
\* (SandboxService.listUsers, SandboxManager.fetchUsers, DeveloperSessions.fetchSessions).
THEOREM PagesCorrect == Spec => []PagesFitTogether
<1>1. Init => PagesInv
  BY DEF Init, PagesInv
<1>2. TypeOK /\ CarriedInv /\ PagesInv => PagesFitTogether
  <2> SUFFICES ASSUME CarriedInv, PagesInv, Quiet, ~broken
               PROVE  /\ \A i, j \in DOMAIN list : i < j => list[i] > list[j]
                      /\ \A r \in steady : next = None \/ r >= next => Listed(r)
    BY DEF PagesFitTogether
  <2>1. \A h \in Handlers : req[h].kind # "fetch"
    BY FetchIs DEF Quiet, Fetching
  <2>2. Covers(list, None, next, steady)
    BY <2>1 DEF PagesInv
  <2> QED BY <2>2 DEF Covers, Listed
<1>3. Spec => [](TypeOK /\ CarriedInv /\ PagesInv)
  BY <1>1, InitTyped, TypeStep, CarriedStep, PagesStep, PTL DEF Spec
<1> QED BY <1>2, <1>3, PTL
=============================================================================
