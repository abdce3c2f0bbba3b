------------------------- MODULE AdminConsoleProofs -------------------------
(***************************************************************************)
(* Proofs that the administrator's two pages show what was asked for last, *)
(* for every hotel, room, consultation and page size, and in whichever     *)
(* order answers come: the log shows the page and the filter its controls  *)
(* show, the dashboard the answer of its last refresh, and the dashboard's *)
(* controls fit the lists, though other administrators edit them.  And     *)
(* that the pages of the log leave nothing out and repeat nothing.         *)
(***************************************************************************)
EXTENDS AdminConsole, FiniteSetTheorems, SequenceTheorems, TLAPS

-----------------------------------------------------------------------------
(* Lists and their pages.                                                  *)

(* Parts of a finite set are counted, and a part of a part has no more.     *)
LEMMA PartCounts ==
    ASSUME NEW S, IsFiniteSet(S), NEW T \in SUBSET S, NEW U \in SUBSET T
    PROVE  /\ IsFiniteSet(U) /\ Cardinality(U) \in Nat
           /\ Cardinality(U) <= Cardinality(T) /\ Cardinality(T) \in Nat
<1>1. IsFiniteSet(T)
  BY FS_Subset
<1>2. IsFiniteSet(U) /\ Cardinality(U) <= Cardinality(T)
  BY <1>1, FS_Subset
<1> QED  BY <1>1, <1>2, FS_CardinalityType

(* How many elements of a finite set of numbers are below one of them: at   *)
(* least one less than there are, and more below a greater one.             *)
LEMMA BelowCounts ==
    ASSUME NEW S \in SUBSET Nat, IsFiniteSet(S), NEW x \in S
    PROVE  /\ Cardinality({y \in S : y < x}) + 1 \in 1 .. Cardinality(S)
           /\ \A z \in S : x < z => Cardinality({y \in S : y < x}) < Cardinality({y \in S : y < z})
<1> DEFINE below == {y \in S : y < x}
           upTo == below \cup {x}
<1>x. x \in Nat /\ ~(x < x)
  OBVIOUS
<1>1. below \in SUBSET S /\ upTo \in SUBSET S /\ x \notin below /\ S \in SUBSET S
  <2>1. upTo \in SUBSET S
    OBVIOUS
  <2>2. x \notin below
    BY <1>x
  <2>3. below \in SUBSET S
    OBVIOUS
  <2>4. S \in SUBSET S
    OBVIOUS
  <2> QED  BY ONLY <2>1, <2>2, <2>3, <2>4
<1>2. ASSUME NEW z \in S, x < z
      PROVE  upTo \in SUBSET {y \in S : y < z} /\ {y \in S : y < z} \in SUBSET S
  <2>1. {y \in S : y < z} \in SUBSET S
    OBVIOUS
  <2>2. ASSUME NEW y \in upTo PROVE y \in S /\ y < z
    <3>1. y \in Nat /\ z \in Nat /\ (y = x \/ y < x)
      OBVIOUS
    <3> QED  BY <1>x, <1>2, <3>1
  <2> QED  BY <2>1, <2>2
<1> HIDE DEF below
<1>3. IsFiniteSet(below) /\ Cardinality(below) \in Nat
  BY <1>1, PartCounts
<1>4. Cardinality(upTo) = Cardinality(below) + 1
  BY <1>1, <1>3, FS_AddElement
<1> HIDE DEF upTo
<1>5. Cardinality(upTo) <= Cardinality(S) /\ Cardinality(S) \in Nat
  BY <1>1, PartCounts
<1>6. ASSUME NEW z \in S, x < z
      PROVE  Cardinality(below) < Cardinality({y \in S : y < z})
  <2>1. /\ Cardinality(upTo) <= Cardinality({y \in S : y < z})
        /\ Cardinality({y \in S : y < z}) \in Nat
    BY <1>2, <1>6, PartCounts
  <2> QED  BY <1>3, <1>4, <2>1
<1>7. Cardinality(below) + 1 \in 1 .. Cardinality(S)
  BY <1>3, <1>4, <1>5
<1> QED  BY <1>6, <1>7 DEF below

(* The elements of a finite set of numbers have an ascending list, and it   *)
(* has all of them.                                                         *)
LEMMA AscendingRight ==
    ASSUME NEW S \in SUBSET Nat, IsFiniteSet(S)
    PROVE  /\ Cardinality(S) \in Nat
           /\ Ascending(S) \in [1 .. Cardinality(S) -> S]
           /\ \A i, j \in 1 .. Cardinality(S) : i < j => Ascending(S)[i] < Ascending(S)[j]
           /\ \A x \in S : \E i \in 1 .. Cardinality(S) : Ascending(S)[i] = x
<1> DEFINE n == Cardinality(S)
           rank == [x \in S |-> Cardinality({y \in S : y < x}) + 1]
           list == [i \in 1 .. n |-> CHOOSE x \in S : rank[x] = i]
           Rising(s) == \A i, j \in 1 .. n : i < j => s[i] < s[j]
<1>1. n \in Nat /\ IsFiniteSet(1 .. n) /\ Cardinality(1 .. n) = n
  BY FS_CardinalityType, FS_Interval
<1>2. rank \in [S -> 1 .. n] /\ \A x, z \in S : x < z => rank[x] < rank[z]
  <2>1. \A x \in S : Cardinality({y \in S : y < x}) \in Nat
    BY PartCounts
  <2> QED  BY <2>1, BelowCounts
<1> HIDE DEF rank
<1>3. rank \in Injection(S, 1 .. n)
  <2>1. \A x, z \in S : rank[x] = rank[z] => ~(x < z) /\ ~(z < x)
    BY <1>2
  <2>2. \A x, z \in S : rank[x] = rank[z] => x = z
    BY <2>1
  <2> QED  BY <1>2, <2>2 DEF Injection, IsInjective
<1>4. rank \in Surjection(S, 1 .. n)
  BY <1>1, <1>3, FS_Injection
<1>5. \A i \in 1 .. n : \E x \in S : rank[x] = i
  BY <1>4 DEF Surjection
<1>6. list \in [1 .. n -> S] /\ \A i \in 1 .. n : rank[list[i]] = i
  BY <1>5
<1> HIDE DEF list
<1>7. Rising(list)
  <2> SUFFICES ASSUME NEW i \in 1 .. n, NEW j \in 1 .. n, i < j PROVE list[i] < list[j]
    OBVIOUS
  <2>1. list[i] \in Nat /\ list[j] \in Nat /\ rank[list[i]] < rank[list[j]]
    BY <1>6
  <2>2. list[i] # list[j] /\ ~(list[j] < list[i])
    BY <1>1, <1>2, <1>6, <2>1
  <2> QED  BY <2>1, <2>2
<1>8. Ascending(S) \in [1 .. n -> S] /\ Rising(Ascending(S))
  <2>1. Ascending(S) = CHOOSE s \in [1 .. n -> S] : Rising(s)
    BY DEF Ascending
  <2> QED  BY <1>6, <1>7, <2>1
<1>9. Ascending(S) \in Injection(1 .. n, S)
  <2>1. ASSUME NEW i \in 1 .. n, NEW j \in 1 .. n, Ascending(S)[i] = Ascending(S)[j] PROVE i = j
    <3>1. Ascending(S)[i] \in Nat /\ Ascending(S)[j] \in Nat
      BY <1>8
    <3>2. ~(i < j) /\ ~(j < i)
      BY <1>8, <2>1, <3>1
    <3> QED  BY <1>1, <3>2
  <2> QED  BY <1>8, <2>1 DEF Injection, IsInjective
<1>10. Ascending(S) \in Surjection(1 .. n, S)
  BY <1>1, <1>9, FS_Injection
<1> QED  BY <1>1, <1>8, <1>10 DEF Surjection

(* What is kept of a list are its rows of the set, each where it was: the  *)
(* places they come from ascend, and no such row is left out.               *)
LEMMA KeptRight ==
    ASSUME NEW X, NEW list \in Seq(X), NEW S
    PROVE  /\ Kept(list, S) \in Seq(X)
           /\ \E at \in [DOMAIN Kept(list, S) -> DOMAIN list] :
                 /\ \A i, j \in DOMAIN at : i < j => at[i] < at[j]
                 /\ \A i \in DOMAIN at : Kept(list, S)[i] = list[at[i]] /\ list[at[i]] \in S
                 /\ \A k \in DOMAIN list : list[k] \in S => \E i \in DOMAIN at : at[i] = k
<1> DEFINE places == {i \in DOMAIN list : list[i] \in S}
           at == Ascending(places)
           n == Cardinality(places)
<1>1. DOMAIN list = 1 .. Len(list) /\ Len(list) \in Nat /\ \A i \in DOMAIN list : list[i] \in X
  OBVIOUS
<1>2. places \in SUBSET Nat /\ IsFiniteSet(places)
  <2>1. IsFiniteSet(1 .. Len(list)) /\ places \in SUBSET (1 .. Len(list))
    BY <1>1, FS_Interval
  <2> QED  BY <2>1, FS_Subset
<1>3. /\ n \in Nat /\ at \in [1 .. n -> places]
      /\ \A i, j \in 1 .. n : i < j => at[i] < at[j]
      /\ \A x \in places : \E i \in 1 .. n : at[i] = x
  BY <1>2, AscendingRight
<1>4. Kept(list, S) = [i \in 1 .. n |-> list[at[i]]]
  <2>1. Kept(list, S) = [i \in DOMAIN at |-> list[at[i]]]
    BY DEF Kept
  <2> QED  BY <1>3, <2>1
<1> HIDE DEF at, n
<1>5. Kept(list, S) \in Seq(X)
  BY <1>1, <1>3, <1>4
<1>6. DOMAIN Kept(list, S) = 1 .. n /\ DOMAIN at = 1 .. n /\ at \in [1 .. n -> DOMAIN list]
  BY <1>3, <1>4
<1> QED  BY <1>3, <1>4, <1>5, <1>6

(* The last page that is counted is the one with the last row: no page is   *)
(* empty and no row is left over (totalPages).                              *)
LEMMA PageCountRight ==
    ASSUME NEW n \in Nat
    PROVE  /\ PageCount(n) \in 1 .. n + 1
           /\ n > 0 => (PageCount(n) - 1) * PageSize < n /\ n <= PageCount(n) * PageSize
<1> DEFINE m == n + PageSize - 1
           q == m \div PageSize
<1>1. PageSize \in Nat /\ PageSize >= 1
  BY ListsAssumption
<1>2. CASE n = 0
  BY <1>2 DEF PageCount
<1>3. CASE n > 0
  <2>1. m \in Nat /\ q \in Int /\ q * PageSize <= m /\ m < q * PageSize + PageSize
    BY <1>1
  <2>2. PageCount(n) = q
    BY <1>3 DEF PageCount
  <2> HIDE DEF q
  <2>3. (q - 1) * PageSize = q * PageSize - PageSize /\ (q + 1) * PageSize = q * PageSize + PageSize
        /\ q * PageSize \in Int
    BY <1>1, <2>1
  <2>4. n <= q * PageSize /\ (q - 1) * PageSize < n
    BY <1>1, <2>1, <2>3
  <2>5. q >= 1
    <3>1. \A a \in Int, b \in Nat : a <= 0 => a * b <= 0
      OBVIOUS
    <3>2. q <= 0 => q * PageSize <= 0
      BY <1>1, <2>1, <3>1
    <3>3. q * PageSize > 0
      BY <1>3, <2>3, <2>4
    <3> QED  BY <2>1, <2>3, <3>2, <3>3
  <2>6. q - 1 <= (q - 1) * PageSize
    <3>1. q - 1 \in Nat
      BY <2>1, <2>5
    <3>2. ASSUME NEW a \in Nat, NEW b \in Nat, b >= 1 PROVE a <= a * b
      <4>1. a * (b - 1) = a * b - a /\ a * (b - 1) \in Nat
        BY <3>2
      <4>2. a * b \in Nat
        OBVIOUS
      <4> QED  BY <4>1, <4>2
    <3> QED  BY <1>1, <3>1, <3>2
  <2>7. q <= n + 1
    <3>1. (q - 1) * PageSize \in Int
      BY <1>1, <2>3
    <3>2. q - 1 < n
      BY <2>1, <2>4, <2>6, <3>1
    <3> QED  BY <2>1, <3>2
  <2> QED  BY <2>1, <2>2, <2>4, <2>5, <2>7
<1> QED  BY <1>2, <1>3

(* A page of a list is a list of its elements, row by row those of the list.*)
LEMMA PageOfRight ==
    ASSUME NEW X, NEW items \in Seq(X), NEW p \in Nat \ {0}
    PROVE  /\ PageOf(items, p) \in Seq(X)
           /\ \A k \in 1 .. Len(items) :
                (p - 1) * PageSize < k /\ k <= p * PageSize =>
                    /\ k - (p - 1) * PageSize \in 1 .. Len(PageOf(items, p))
                    /\ PageOf(items, p)[k - (p - 1) * PageSize] = items[k]
           /\ \A i \in 1 .. Len(PageOf(items, p)) :
                /\ (p - 1) * PageSize + i \in 1 .. Len(items) /\ (p - 1) * PageSize + i <= p * PageSize
                /\ PageOf(items, p)[i] = items[(p - 1) * PageSize + i]
<1> DEFINE from == (p - 1) * PageSize + 1
           to == IF p * PageSize < Len(items) THEN p * PageSize ELSE Len(items)
<1>1. PageSize \in Nat /\ Len(items) \in Nat /\ p - 1 \in Nat
  BY ListsAssumption
<1>2. \A a, b \in Nat : a * b \in Nat
  OBVIOUS
<1>3. (p - 1) * PageSize \in Nat /\ p * PageSize \in Nat
  BY <1>1, <1>2
<1>4. from \in Nat /\ from >= 1 /\ to \in Nat /\ to <= Len(items)
  BY <1>1, <1>3
<1>5. \A i \in from .. to : items[i] \in X
  BY <1>4
<1>6. PageOf(items, p) = SubSeq(items, from, to)
  BY DEF PageOf
<1> HIDE DEF from, to
<1>7. /\ PageOf(items, p) \in Seq(X)
      /\ Len(PageOf(items, p)) = IF from <= to THEN to - from + 1 ELSE 0
      /\ \A i \in 1 .. to - from + 1 : PageOf(items, p)[i] = items[from + i - 1]
  BY <1>4, <1>5, <1>6, SubSeqProperties
<1>8. ASSUME NEW k \in 1 .. Len(items), (p - 1) * PageSize < k, k <= p * PageSize
      PROVE  /\ k - (p - 1) * PageSize \in 1 .. Len(PageOf(items, p))
             /\ PageOf(items, p)[k - (p - 1) * PageSize] = items[k]
  <2> DEFINE i == k - (p - 1) * PageSize
  <2>1. i \in Int /\ 1 <= i /\ k \in Int /\ k <= to /\ i = k - from + 1
    BY <1>1, <1>3, <1>8 DEF from, to
  <2> HIDE DEF i
  <2>2. i \in 1 .. to - from + 1 /\ from <= to /\ from + i - 1 = k
    BY <1>4, <2>1
  <2>3. i \in 1 .. Len(PageOf(items, p)) /\ PageOf(items, p)[i] = items[k]
    BY <1>7, <2>2
  <2> QED  BY <2>3 DEF i
<1>9. ASSUME NEW i \in 1 .. Len(PageOf(items, p))
      PROVE  /\ (p - 1) * PageSize + i \in 1 .. Len(items) /\ (p - 1) * PageSize + i <= p * PageSize
             /\ PageOf(items, p)[i] = items[(p - 1) * PageSize + i]
  <2>1. from <= to /\ i \in 1 .. to - from + 1
    BY <1>4, <1>7
  <2>2. PageOf(items, p)[i] = items[from + i - 1] /\ from + i - 1 \in 1 .. to
    BY <1>4, <1>7, <2>1
  <2>3. from + i - 1 = (p - 1) * PageSize + i /\ to <= p * PageSize /\ to <= Len(items)
    BY <1>1, <1>3, <2>1 DEF from, to
  <2>4. (p - 1) * PageSize + i \in 1 .. to /\ PageOf(items, p)[i] = items[(p - 1) * PageSize + i]
    BY <2>2, <2>3
  <2> QED  BY <1>1, <1>3, <1>4, <2>3, <2>4
<1> QED  BY <1>7, <1>8, <1>9

(* Every row is on one page of those there are, and on no other.            *)
LEMMA OnePage ==
    ASSUME NEW n \in Nat, NEW k \in 1 .. n
    PROVE  \E p \in 1 .. PageCount(n) :
              /\ (p - 1) * PageSize < k /\ k <= p * PageSize
              /\ \A r \in 1 .. PageCount(n) : (r - 1) * PageSize < k /\ k <= r * PageSize => r = p
<1>1. PageSize \in Nat /\ PageSize >= 1 /\ n > 0 /\ k \in Nat /\ k > 0 /\ k <= n
  BY ListsAssumption
<1>2. /\ PageCount(k) \in Nat /\ PageCount(k) >= 1 /\ PageCount(n) \in Nat
      /\ (PageCount(k) - 1) * PageSize < k /\ k <= PageCount(k) * PageSize
      /\ n <= PageCount(n) * PageSize
  BY <1>1, PageCountRight
<1>3. ASSUME NEW a \in Nat, NEW b \in Nat, a < b PROVE a * PageSize <= (b - 1) * PageSize
  <2>1. b - 1 - a \in Nat /\ (b - 1 - a) * PageSize = (b - 1) * PageSize - a * PageSize
    BY <1>1, <1>3
  <2>2. (b - 1 - a) * PageSize \in Nat /\ a * PageSize \in Nat /\ (b - 1) * PageSize \in Int
    BY <1>1, <2>1
  <2> QED  BY <2>1, <2>2
<1>4. \A a \in Nat : a * PageSize \in Nat /\ (a - 1) * PageSize \in Int
  BY <1>1
<1>5. PageCount(k) <= PageCount(n)
  BY <1>1, <1>2, <1>3, <1>4
<1>6. ASSUME NEW r \in Nat, (r - 1) * PageSize < k, k <= r * PageSize PROVE r = PageCount(k)
  <2>1. ~(r < PageCount(k))
    BY <1>1, <1>2, <1>3, <1>4, <1>6
  <2>2. ~(PageCount(k) < r)
    BY <1>1, <1>2, <1>3, <1>4, <1>6
  <2> QED  BY <1>2, <2>1, <2>2
<1> QED  BY <1>2, <1>5, <1>6

-----------------------------------------------------------------------------
(* The log.                                                                *)

\* A request of the log.
LogAsk(a) ==
    /\ a = [latest |-> a.latest, page |-> a.page, filter |-> a.filter, phase |-> a.phase,
            items |-> a.items, pages |-> a.pages]
    /\ a.latest \in BOOLEAN /\ a.page \in Nat /\ a.pages \in Nat

\* At most one request is the newest, none while the timer of a change still runs,
\* and while the log is on the screen it asks for what the controls show.
LogInv ==
    /\ inLog \in BOOLEAN /\ due \in BOOLEAN /\ logError \in BOOLEAN /\ logPage \in Nat
    /\ \A a \in logAsks : LogAsk(a)
    /\ \A a, b \in logAsks : a.latest /\ b.latest => a = b
    /\ due => \A a \in logAsks : ~a.latest
    /\ inLog => \A a \in logAsks : a.latest => a.page = logPage /\ a.filter = logFilter
    /\ ShownLogIsAsked

(* The number of pages is a number, whatever has been found (list).        *)
LEMMA PageCountType ==
    ASSUME NEW n \in Nat
    PROVE  PageCount(n) \in Nat \ {0}
BY PageCountRight

(* So is the number of the log's rows that a filter finds.                 *)
LEMMA TotalType ==
    ASSUME NEW f
    PROVE  PageCount(Total(f)) \in Nat \ {0}
<1> DEFINE found == {l \in Found(f) : l \in Range(done)}
<1>1. IsFiniteSet(found)
  BY ListsAssumption, FS_Subset DEF Found
<1>2. Cardinality(found) \in Nat
  BY <1>1, FS_CardinalityType
<1> QED  BY <1>2, PageCountType DEF Total

(* An outdated request is a request that is not the newest.                *)
LEMMA Outdated ==
    ASSUME NEW a, LogAsk(a), NEW b, b = [a EXCEPT !.latest = FALSE]
    PROVE  LogAsk(b) /\ ~b.latest
<1>1. PICK page, pages, filter_, phase, items :
        /\ b = [latest |-> FALSE, page |-> page, filter |-> filter_, phase |-> phase,
                items |-> items, pages |-> pages]
        /\ page \in Nat /\ pages \in Nat
  BY DEF LogAsk
<1>2. /\ b.latest = FALSE /\ b.page = page /\ b.filter = filter_ /\ b.phase = phase
      /\ b.items = items /\ b.pages = pages
  BY <1>1
<1> QED  BY <1>1, <1>2 DEF LogAsk

(* An answer that is not there yet becomes more of one; nothing else does.  *)
LEMMA Served ==
    ASSUME NEW a, LogAsk(a), NEW b,
           \/ \E phase, items : b = [a EXCEPT !.phase = phase, !.items = items]
           \/ \E phase : \E pages \in Nat : b = [a EXCEPT !.phase = phase, !.pages = pages]
           \/ \E phase, items : \E pages \in Nat :
                b = [a EXCEPT !.phase = phase, !.items = items, !.pages = pages]
    PROVE  LogAsk(b) /\ b.latest = a.latest /\ b.page = a.page /\ b.filter = a.filter
<1>1. PICK pages, phase, items :
        /\ b = [latest |-> a.latest, page |-> a.page, filter |-> a.filter, phase |-> phase,
                items |-> items, pages |-> pages]
        /\ pages \in Nat
  BY DEF LogAsk
<1>2. /\ b.latest = a.latest /\ b.page = a.page /\ b.filter = a.filter /\ b.phase = phase
      /\ b.items = items /\ b.pages = pages
  BY <1>1
<1> QED  BY <1>1, <1>2 DEF LogAsk

(* The request for a log has the fields of one.                             *)
LEMMA NewLogAsk ==
    ASSUME NEW page \in Nat, NEW filter_
    PROVE  LogAsk([latest |-> TRUE, page |-> page, filter |-> filter_,
                   phase |-> "sent", items |-> <<>>, pages |-> 1])
BY DEF LogAsk

(* A change of the controls in the log outdates every request and starts    *)
(* the timer, so that nothing is left to be shown but what will be asked    *)
(* for (the effect on the log's controls).                                  *)
LEMMA ChangeOutdates ==
    ASSUME LogInv, NEW before \in SUBSET logAsks, Effect(before), inLog' = TRUE,
           logPage' \in Nat, logError' \in BOOLEAN
    PROVE  LogInv'
<1>1. due' = TRUE /\ logAsks' = {[a EXCEPT !.latest = FALSE] : a \in {b \in before : b.phase = "back"}}
  BY DEF Effect
<1>2. ASSUME NEW b \in logAsks' PROVE LogAsk(b) /\ ~b.latest
  <2>1. PICK a \in logAsks : b = [a EXCEPT !.latest = FALSE]
    BY <1>1
  <2>2. LogAsk(a)
    BY DEF LogInv
  <2> QED  BY <2>1, <2>2, Outdated
<1> QED  BY <1>1, <1>2 DEF LogInv, ShownLogIsAsked, LogAtRest

(* A change outside the log waits until the log is entered.                 *)
LEMMA ChangeOutside ==
    ASSUME LogInv, NEW before \in SUBSET logAsks, Effect(before), inLog' = FALSE,
           logPage' \in Nat, logError' \in BOOLEAN
    PROVE  LogInv'
<1>1. due' = FALSE /\ logAsks' = before
  BY DEF Effect
<1> QED  BY <1>1 DEF LogInv, ShownLogIsAsked, LogAtRest

(* One request that is replaced by more of its answer, or is over without   *)
(* having been the newest, changes nothing for the others.                  *)
LEMMA AskReplaced ==
    ASSUME LogInv, NEW a \in logAsks, NEW b, LogAsk(b), b.latest = a.latest, b.page = a.page,
           b.filter = a.filter, logAsks' = (logAsks \ {a}) \cup {b},
           UNCHANGED <<inLog, logPage, logFilter, due, logShown, logError>>
    PROVE  LogInv'
<1>1. \A c \in logAsks' : c = b \/ (c \in logAsks /\ c # a)
  OBVIOUS
<1>2. b \in logAsks' /\ \A c \in logAsks : c = a \/ c \in logAsks'
  OBVIOUS
<1>3. \A c \in logAsks' : LogAsk(c)
  BY <1>1 DEF LogInv
<1>4. \A c, d \in logAsks' : c.latest /\ d.latest => c = d
  BY <1>1 DEF LogInv
<1>5. due => \A c \in logAsks' : ~c.latest
  BY <1>1 DEF LogInv
<1>6. inLog => \A c \in logAsks' : c.latest => c.page = logPage /\ c.filter = logFilter
  BY <1>1 DEF LogInv
<1>7. (\E c \in logAsks : c.latest) => \E c \in logAsks' : c.latest
  BY <1>2
<1>8. ShownLogIsAsked'
  BY <1>7 DEF LogInv, ShownLogIsAsked, LogAtRest
<1> QED  BY <1>3, <1>4, <1>5, <1>6, <1>8 DEF LogInv

(* A request that is not the newest may be over without a trace.           *)
LEMMA AskDropped ==
    ASSUME LogInv, NEW a \in logAsks, ~a.latest, logAsks' = logAsks \ {a},
           UNCHANGED <<inLog, logPage, logFilter, due, logShown, logError>>
    PROVE  LogInv'
BY DEF LogInv, ShownLogIsAsked, LogAtRest

(* The server's steps on a request for the log (list, listSessionLogs): it  *)
(* is replaced by one that has more of its answer.                          *)
LEMMA ServedAs ==
    ASSUME NEW a \in logAsks, LogAsk(a), Serve(a)
    PROVE  \E b : /\ logAsks' = (logAsks \ {a}) \cup {b}
                  /\ LogAsk(b) /\ b.latest = a.latest /\ b.page = a.page /\ b.filter = a.filter
<1> DEFINE Fuller(b) ==
           \/ \E phase, items : b = [a EXCEPT !.phase = phase, !.items = items]
           \/ \E phase : \E pages \in Nat : b = [a EXCEPT !.phase = phase, !.pages = pages]
           \/ \E phase, items : \E pages \in Nat :
                b = [a EXCEPT !.phase = phase, !.items = items, !.pages = pages]
<1>1. \E b : logAsks' = (logAsks \ {a}) \cup {b} /\ Fuller(b)
  <2>1. CASE ReadItems(a)
    BY <2>1 DEF ReadItems, Step
  <2>2. CASE CountPages(a)
    <3>1. PICK pages \in Nat : logAsks' = (logAsks \ {a}) \cup {[a EXCEPT !.phase = "back", !.pages = pages]}
      BY <2>2, TotalType DEF CountPages, Step
    <3> QED  BY <3>1
  <2>3. CASE OldServer(a)
    <3>1. PICK items : \E pages \in Nat : logAsks' = (logAsks \ {a}) \cup
              {[a EXCEPT !.phase = "back", !.items = items, !.pages = pages]}
      BY <2>3, TotalType DEF OldServer, Step
    <3> QED  BY <3>1
  <2> QED  BY <2>1, <2>2, <2>3 DEF Serve
<1>2. PICK b : logAsks' = (logAsks \ {a}) \cup {b} /\ Fuller(b)
  BY <1>1
<1>3. LogAsk(b) /\ b.latest = a.latest /\ b.page = a.page /\ b.filter = a.filter
  BY <1>2, Served
<1> QED  BY <1>2, <1>3

(* Those steps keep the log's invariant.                                    *)
LEMMA LogServed ==
    ASSUME LogInv, NEW a \in logAsks, Serve(a)
    PROVE  LogInv'
<1>1. UNCHANGED <<inLog, logPage, logFilter, due, logShown, logError>>
  BY DEF Serve
<1>2. LogAsk(a)
  BY DEF LogInv
<1> QED  BY <1>1, <1>2, ServedAs, AskReplaced

(* The answer that is shown is the one the controls ask for, and their page *)
(* is corrected to one that there is; another answer is not shown; and a    *)
(* failure of the newest is an error (the request's then, catch, finally).  *)
LEMMA LogAnswered ==
    ASSUME LogInv, NEW a \in logAsks, LogArrives(a) \/ LogFails(a)
    PROVE  LogInv'
<1>a. LogAsk(a) /\ logPage \in Nat /\ inLog \in BOOLEAN
  BY DEF LogInv
<1>1. CASE ~a.latest
  BY <1>1, AskDropped DEF LogArrives, LogFails, Newest
<1>n. ASSUME a.latest PROVE \A b \in logAsks \ {a} : ~b.latest
  BY <1>n DEF LogInv
<1>2. CASE a.latest /\ LogFails(a)
  <2>1. logAsks' = logAsks \ {a} /\ logError' = TRUE
        /\ UNCHANGED <<inLog, logPage, logFilter, due, logShown>>
    BY <1>2 DEF LogFails, Newest
  <2> QED  BY <1>2, <1>n, <2>1 DEF LogInv, ShownLogIsAsked, LogAtRest
<1>3. CASE a.latest /\ LogArrives(a)
  <2>1. /\ logShown' = [page |-> a.page, filter |-> a.filter, items |-> a.items, pages |-> a.pages]
        /\ logPage' = Corrected(a) /\ inLog' = inLog /\ logError' = FALSE /\ logFilter' = logFilter
    BY <1>3 DEF LogArrives, Newest
  <2>2. logPage' \in Nat /\ (logPage' = logPage => logPage <= a.pages)
    BY <1>a, <2>1 DEF Corrected, LogAsk
  <2>3. CASE logPage' # logPage
    <3>1. Effect(logAsks \ {a})
      BY <1>3, <2>3 DEF LogArrives, Newest
    <3> QED  BY <1>a, <2>1, <2>2, <3>1, ChangeOutdates, ChangeOutside
  <2>4. CASE logPage' = logPage
    <3>1. logAsks' = logAsks \ {a} /\ due' = due
      BY <1>3, <2>4 DEF LogArrives, Newest
    <3>2. inLog => a.page = logPage /\ a.filter = logFilter
      BY <1>3 DEF LogInv
    <3>3. ShownLogIsAsked'
      BY <2>1, <2>2, <2>4, <3>2 DEF ShownLogIsAsked, LogAtRest
    <3> QED  BY <1>3, <1>n, <2>1, <2>4, <3>1, <3>3 DEF LogInv
  <2> QED  BY <2>3, <2>4
<1> QED  BY <1>1, <1>2, <1>3

(* Every step on the log keeps its invariant.                               *)
LEMMA LogSteps ==
    ASSUME LogInv, LogNext
    PROVE  LogInv'
<1>t. inLog \in BOOLEAN /\ logPage \in Nat /\ logError \in BOOLEAN
  BY DEF LogInv
<1>1. CASE EnterLog
  <2>1. CASE inLog /\ logPage = 1
    <3>1. UNCHANGED <<inLog, logPage, logFilter, due, logAsks, logShown, logError>>
      BY <1>1, <1>t, <2>1 DEF EnterLog
    <3> QED  BY <3>1 DEF LogInv, ShownLogIsAsked, LogAtRest
  <2>2. CASE ~(inLog /\ logPage = 1)
    BY <1>1, <1>t, <2>2, ChangeOutdates DEF EnterLog
  <2> QED  BY <2>1, <2>2
<1>2. CASE LeaveLog
  BY <1>2, <1>t, ChangeOutside DEF LeaveLog
<1>3. CASE AskLog
  <2> DEFINE ask == [latest |-> TRUE, page |-> logPage, filter |-> logFilter,
                     phase |-> "sent", items |-> <<>>, pages |-> 1]
  <2>1. LogAsk(ask) /\ ask.latest = TRUE /\ ask.page = logPage /\ ask.filter = logFilter
    BY <1>t, NewLogAsk
  <2>2. logAsks' = logAsks \cup {ask} /\ due' = FALSE /\ \A a \in logAsks : ~a.latest
    BY <1>3 DEF AskLog, LogInv
  <2>3. UNCHANGED <<inLog, logPage, logFilter, logShown, logError>>
    BY <1>3 DEF AskLog
  <2> HIDE DEF ask
  <2>4. ask \in logAsks' /\ \A a \in logAsks' : a = ask \/ (a \in logAsks /\ ~a.latest)
    BY <2>2
  <2>5. ShownLogIsAsked'
    BY <2>1, <2>4 DEF ShownLogIsAsked, LogAtRest
  <2> QED  BY <2>1, <2>2, <2>3, <2>4, <2>5 DEF LogInv
<1>4. ASSUME NEW f \in Filters, SetLogFilter(f) PROVE LogInv'
  <2>1. /\ logPage' \in Nat /\ inLog' = inLog /\ Effect(logAsks) /\ logError' = logError
    BY <1>4, <1>t DEF SetLogFilter
  <2> QED  BY <1>t, <2>1, ChangeOutdates, ChangeOutside
<1>5. ASSUME NEW p, TurnLogPage(p) PROVE LogInv'
  <2>1. /\ logPage' \in Nat /\ inLog' = inLog /\ Effect(logAsks) /\ logError' = logError
    BY <1>5, <1>t DEF TurnLogPage
  <2> QED  BY <1>t, <2>1, ChangeOutdates, ChangeOutside
<1>6. ASSUME NEW a \in logAsks, LogAnswer(a) PROVE LogInv'
  BY <1>6, LogServed, LogAnswered DEF LogAnswer
<1>7. CASE ReloadLog
  <2>1. logPage' \in Nat /\ inLog' = inLog /\ Effect(logAsks) /\ logError' = logError
    BY <1>7, <1>t DEF ReloadLog
  <2> QED  BY <1>t, <2>1, ChangeOutdates, ChangeOutside
<1> QED  BY <1>1, <1>2, <1>3, <1>4, <1>5, <1>6, <1>7 DEF LogNext

(* Nothing on the administrator's other page writes the log's but the way   *)
(* to it, which leaves an empty one.                                        *)
LEMMA LogViewWritten ==
    ASSUME [Next]_vars
    PROVE  OnLog \/ GoToDashboard \/ UNCHANGED logView
<1>1. ASSUME NEW a \in asks, AskStep(a) PROVE UNCHANGED logView
  BY <1>1 DEF AskStep, Read, Arrive, Fail, logVars
<1>2. ASSUME NEW f, NEW p, SetControls(f, p) PROVE UNCHANGED logView
  BY <1>2 DEF SetControls
<1>3. ASSUME NEW kind, NEW t, Submit(kind, t) \/ EditElsewhere(kind, t) PROVE UNCHANGED logView
  BY <1>3 DEF Submit, EditElsewhere, logVars
<1>4. CASE Execute \/ Answered \/ EditFails \/ GoToWork
  BY <1>4 DEF Execute, Answered, EditFails, GoToWork, logVars
<1>5. ASSUME NEW l \in Logs, Ends(l) PROVE UNCHANGED logView
  BY <1>5 DEF Ends, Finish
<1>6. CASE UNCHANGED vars
  BY <1>6 DEF vars, logVars
<1> QED  BY <1>1, <1>2, <1>3, <1>4, <1>5, <1>6 DEF Next

(* So does every step of the administrator's other page.                    *)
LEMMA NextLog ==
    ASSUME LogInv, [Next]_vars
    PROVE  LogInv'
<1>1. CASE UNCHANGED logView
  BY <1>1 DEF logView, LogInv, ShownLogIsAsked, LogAtRest
<1>2. CASE GoToDashboard
  BY <1>2 DEF GoToDashboard, LogInv, ShownLogIsAsked, LogAtRest
<1>3. CASE OnLog
  BY <1>3, LogSteps DEF OnLog
<1> QED  BY <1>1, <1>2, <1>3, LogViewWritten

(* The log is empty at the start.                                           *)
LEMMA LogStarts ==
    ASSUME Init
    PROVE  LogInv
<1>1. /\ inLog = FALSE /\ due = FALSE /\ logError = FALSE /\ logPage = 1 /\ logAsks = {}
  BY DEF Init, LogInit
<1> QED  BY <1>1 DEF LogInv, ShownLogIsAsked, LogAtRest

(* The log, at rest, shows what was read for the page and the filter that   *)
(* its controls show, and that page is one of those there are: of several   *)
(* answers the newest is shown, changes outdate the others, and the page is *)
(* corrected when there are fewer.                                          *)
THEOREM LogHolds == Spec => []ShownLogIsAsked
<1>1. Init => LogInv
  BY LogStarts
<1>2. LogInv /\ [Next]_vars => LogInv'
  BY NextLog
<1>3. LogInv => ShownLogIsAsked
  BY DEF LogInv
<1> QED  BY <1>1, <1>2, <1>3, PTL DEF Spec

(* While the log's controls are disabled, the timer of a change runs or the *)
(* newest request is under way, which is to enable them: they never wait    *)
(* for a request outdated by a change, refused or lost (loading, the        *)
(* request's finally).                                                      *)
LoadingAwaited == loading /\ inLog => due \/ \E a \in logAsks : a.latest

(* No step leaves the controls disabled with nothing to wait for.           *)
LEMMA AwaitedSteps ==
    ASSUME LogInv, LoadingAwaited, LogNext
    PROVE  LoadingAwaited'
<1>1. CASE EnterLog
  BY <1>1 DEF EnterLog, Effect, LoadingAwaited
<1>2. CASE LeaveLog
  BY <1>2 DEF LeaveLog, LoadingAwaited
<1>3. CASE AskLog
  <2> DEFINE ask == [latest |-> TRUE, page |-> logPage, filter |-> logFilter,
                     phase |-> "sent", items |-> <<>>, pages |-> 1]
  <2>1. ask \in logAsks' /\ ask.latest
    BY <1>3 DEF AskLog
  <2> QED  BY <2>1 DEF LoadingAwaited
<1>4. ASSUME NEW f, SetLogFilter(f) PROVE LoadingAwaited'
  BY <1>4 DEF SetLogFilter, Effect, LoadingAwaited
<1>5. ASSUME NEW p, TurnLogPage(p) PROVE LoadingAwaited'
  BY <1>5 DEF TurnLogPage, Effect, LoadingAwaited
<1>6. ASSUME NEW a \in logAsks, Serve(a) PROVE LoadingAwaited'
  <2>a. LogAsk(a)
    BY DEF LogInv
  <2>1. UNCHANGED <<loading, inLog, due>>
    BY <1>6 DEF Serve
  <2>2. PICK b : logAsks' = (logAsks \ {a}) \cup {b} /\ b.latest = a.latest
    BY <1>6, <2>a, ServedAs
  <2>3. \A c \in logAsks : c = a \/ c \in logAsks'
    BY <2>2
  <2> QED  BY <2>1, <2>2, <2>3 DEF LoadingAwaited
<1>7. ASSUME NEW a \in logAsks, LogArrives(a) \/ LogFails(a) PROVE LoadingAwaited'
  <2>1. CASE a.latest
    <3>1. loading' = FALSE
      BY <1>7, <2>1 DEF LogArrives, LogFails, Newest, Loaded
    <3> QED  BY <3>1 DEF LoadingAwaited
  <2>2. CASE ~a.latest
    <3>1. logAsks' = logAsks \ {a} /\ UNCHANGED <<loading, inLog, due>>
      BY <1>7, <2>2 DEF LogArrives, LogFails, Newest
    <3> QED  BY <2>2, <3>1 DEF LoadingAwaited
  <2> QED  BY <2>1, <2>2
<1>8. CASE ReloadLog
  BY <1>8 DEF ReloadLog, Effect, LoadingAwaited
<1> QED  BY <1>1, <1>2, <1>3, <1>4, <1>5, <1>6, <1>7, <1>8 DEF LogNext, LogAnswer

(* Nor does any step elsewhere: the safety half of LoadingEnds.             *)
THEOREM LoadingIsAwaited == Spec => []LoadingAwaited
<1>1. Init => LogInv /\ LoadingAwaited
  BY LogStarts DEF Init, LogInit, LoadingAwaited
<1>2. ASSUME LogInv, LoadingAwaited, [Next]_vars PROVE LoadingAwaited'
  <2>1. CASE OnLog
    BY <1>2, <2>1, AwaitedSteps DEF OnLog
  <2>2. CASE GoToDashboard
    BY <2>2 DEF GoToDashboard, LoadingAwaited
  <2>3. CASE UNCHANGED logView
    BY <1>2, <2>3 DEF logView, LoadingAwaited
  <2> QED  BY <1>2, <2>1, <2>2, <2>3, LogViewWritten
<1> QED  BY <1>1, <1>2, NextLog, PTL DEF Spec

-----------------------------------------------------------------------------
(* The dashboard.                                                          *)

\* A refresh: the rooms that are read for it are those of its hotel, of the nearest
\* page there was when they were counted.
ConsoleAsk(a) ==
    /\ a = [latest |-> a.latest, filter |-> a.filter, page |-> a.page, hotels |-> a.hotels, count |-> a.count,
            rooms |-> a.rooms]
    /\ a.latest \in BOOLEAN /\ a.page \in Nat
    /\ a.count # None => a.count.page <= a.page /\ a.count.page \in Nat /\ a.count.pages \in Nat
    /\ a.rooms # None => /\ a.rooms.filter = a.filter /\ a.rooms.page <= a.page
                         /\ a.rooms.page \in Nat /\ a.rooms.pages \in Nat

\* What an edit under way holds: the page of its closure, and a room to be added.
EditInv ==
    /\ edit = [kind |-> edit.kind, target |-> edit.target, stage |-> edit.stage,
               filter |-> edit.filter, page |-> edit.page]
    /\ edit.page \in Nat
    /\ edit.kind = "addRoom" => edit.target \in Rooms

StockInv == rooms \subseteq Rooms /\ EditInv

\* One refresh is the latest, and it asks for what was asked for last.
AsksInv ==
    /\ roomPage \in Nat /\ shownRooms.pages \in Nat /\ consoleError \in BOOLEAN
    /\ \A a \in asks : ConsoleAsk(a)
    /\ \A a, b \in asks : a.latest /\ b.latest => a = b
    /\ \A a \in asks : a.latest => a.filter = asked.filter /\ a.page = asked.page

ConsoleInv == StockInv /\ AsksInv /\ DashboardShowsLastAsked /\ ControlsFitTheLists

(* Rooms are added that there can be, and removed (AdminService).           *)
LEMMA ApplyRooms ==
    ASSUME rooms \subseteq Rooms, NEW e, Apply(e), e.kind = "addRoom" => e.target \in Rooms
    PROVE  rooms' \subseteq Rooms
<1>1. CASE Refused(e)
  BY <1>1 DEF Apply, stock
<1>2. CASE ~Refused(e) /\ e.kind = "addHotel"
  BY <1>2 DEF Apply
<1>3. CASE ~Refused(e) /\ e.kind = "addRoom"
  BY <1>3 DEF Apply
<1>4. CASE ~Refused(e) /\ e.kind = "removeHotel"
  BY <1>4 DEF Apply, RemoveRooms
<1>5. CASE ~Refused(e) /\ e.kind = "removeRoom"
  BY <1>5 DEF Apply, RemoveRooms
<1>6. CASE ~Refused(e) /\ e.kind \notin {"addHotel", "addRoom", "removeHotel", "removeRoom"}
  BY <1>6 DEF Apply, stock
<1> QED  BY <1>1, <1>2, <1>3, <1>4, <1>5, <1>6

(* The database has rooms only, and the edit under way keeps its page.      *)
LEMMA NextStock ==
    ASSUME StockInv, AsksInv, [Next]_vars
    PROVE  StockInv'
<1>e. EditInv /\ rooms \subseteq Rooms /\ roomPage \in Nat
  BY DEF StockInv, AsksInv
<1>n. NoEdit.page = 1 /\ NoEdit.kind = "data" /\ NoEdit =
        [kind |-> NoEdit.kind, target |-> NoEdit.target, stage |-> NoEdit.stage,
         filter |-> NoEdit.filter, page |-> NoEdit.page]
  BY DEF NoEdit
<1>1. CASE UNCHANGED <<rooms, edit>>
  BY <1>1 DEF StockInv, EditInv
<1>2. CASE edit' = NoEdit /\ UNCHANGED rooms
  BY <1>2, <1>e, <1>n DEF StockInv, EditInv
<1>3. ASSUME NEW kind, NEW t, Submit(kind, t) PROVE StockInv'
  <2>1. /\ edit' = [kind |-> kind, target |-> t, stage |-> "sent", filter |-> filter, page |-> roomPage]
        /\ rooms' = rooms
    BY <1>3 DEF Submit, stock
  <2>2. kind = "addRoom" => t \in Rooms
    BY <1>3 DEF Submit, Offered
  <2> QED  BY <1>e, <2>1, <2>2 DEF StockInv, EditInv
<1>4. ASSUME NEW kind, NEW t, EditElsewhere(kind, t) PROVE StockInv'
  <2> DEFINE e == [NoEdit EXCEPT !.kind = kind, !.target = t]
  <2>1. e.kind = kind /\ e.target = t
    BY DEF NoEdit
  <2>2. Apply(e) /\ edit' = edit /\ (kind = "addRoom" => t \in Rooms)
    BY <1>4 DEF EditElsewhere
  <2> HIDE DEF e
  <2>3. rooms' \subseteq Rooms
    BY <1>e, <2>1, <2>2, ApplyRooms
  <2> QED  BY <1>e, <2>2, <2>3 DEF StockInv, EditInv
<1>5. CASE Execute
  <2>1. PICK stage : edit' = [edit EXCEPT !.stage = stage]
    BY <1>5 DEF Execute
  <2>2. /\ edit' = [kind |-> edit.kind, target |-> edit.target, stage |-> stage,
                    filter |-> edit.filter, page |-> edit.page]
    BY <1>e, <2>1 DEF EditInv
  <2>3. rooms' \subseteq Rooms
    BY <1>5, <1>e, ApplyRooms DEF Execute, EditInv
  <2> QED  BY <1>e, <2>2, <2>3 DEF StockInv, EditInv
<1>6. CASE Answered \/ EditFails
  BY <1>2, <1>6 DEF Answered, EditFails, stock
<1>7. CASE OnLog \/ GoToDashboard \/ GoToWork \/ UNCHANGED vars \/ \E l \in Logs : Ends(l)
  BY <1>1, <1>7 DEF OnLog, GoToDashboard, GoToWork, Ends, vars, stock
<1>8. ASSUME NEW a \in asks, AskStep(a) PROVE StockInv'
  BY <1>1, <1>8 DEF AskStep, Read, Arrive, Fail, stock
<1>9. ASSUME NEW f, NEW p, SetControls(f, p) PROVE StockInv'
  BY <1>1, <1>9 DEF SetControls, stock
<1> QED  BY <1>3, <1>4, <1>5, <1>6, <1>7, <1>8, <1>9 DEF Next

\* What the dashboard promises, and what makes it so.
ScreenInv == AsksInv /\ DashboardShowsLastAsked /\ ControlsFitTheLists

(* An outdated refresh is a refresh that is not the latest.                 *)
LEMMA OutdatedRefresh ==
    ASSUME NEW a, ConsoleAsk(a), NEW b, b = [a EXCEPT !.latest = FALSE]
    PROVE  ConsoleAsk(b) /\ ~b.latest
<1>1. a = [latest |-> a.latest, filter |-> a.filter, page |-> a.page, hotels |-> a.hotels, count |-> a.count,
           rooms |-> a.rooms]
  BY DEF ConsoleAsk
<1>2. b = [latest |-> FALSE, filter |-> a.filter, page |-> a.page, hotels |-> a.hotels, count |-> a.count,
           rooms |-> a.rooms]
  BY <1>1
<1>3. /\ b.latest = FALSE /\ b.filter = a.filter /\ b.page = a.page /\ b.hotels = a.hotels
      /\ b.count = a.count /\ b.rooms = a.rooms
  BY <1>2
<1> QED  BY <1>2, <1>3 DEF ConsoleAsk

(* With a new refresh the dashboard waits for that one and no other.        *)
LEMMA RefreshWaits ==
    ASSUME NEW before, \A a \in before : ConsoleAsk(a), NEW f, NEW p \in Nat, Refresh(f, p, before),
           roomPage' \in Nat, shownRooms'.pages \in Nat, consoleError' \in BOOLEAN
    PROVE  ScreenInv'
<1> DEFINE ask == Ask(f, p)
<1>1. /\ ConsoleAsk(ask) /\ ask.latest = TRUE /\ ask.filter = f /\ ask.page = p
  BY DEF Ask, ConsoleAsk
<1>2. /\ asks' = {[a EXCEPT !.latest = FALSE] : a \in {b \in before : Complete(b)}} \cup {ask}
      /\ asked'.filter = f /\ asked'.page = p
  BY DEF Refresh
<1> HIDE DEF ask
<1>3. ASSUME NEW b \in asks' PROVE b = ask \/ (ConsoleAsk(b) /\ ~b.latest)
  <2>1. CASE b # ask
    <3>1. PICK a \in before : b = [a EXCEPT !.latest = FALSE]
      BY <1>2, <2>1
    <3> QED  BY <3>1, OutdatedRefresh
  <2> QED  BY <2>1
<1>4. ask \in asks'
  BY <1>2
<1>5. AsksInv'
  BY <1>1, <1>2, <1>3 DEF AsksInv
<1>6. ~ConsoleAtRest'
  BY <1>1, <1>4 DEF ConsoleAtRest
<1> QED  BY <1>5, <1>6 DEF ScreenInv, DashboardShowsLastAsked, ControlsFitTheLists

(* A refresh that has read more waits as before (listHotels, listRooms).    *)
LEMMA ReadWaits ==
    ASSUME StockInv, ScreenInv, NEW a \in asks, Read(a)
    PROVE  ScreenInv'
<1>a. ConsoleAsk(a)
  BY DEF ScreenInv, AsksInv
<1>1. PICK b : /\ asks' = (asks \ {a}) \cup {b} /\ ConsoleAsk(b)
               /\ b.latest = a.latest /\ b.filter = a.filter /\ b.page = a.page
  <2>1. CASE ReadHotels(a)
    <3>1. PICK b : asks' = (asks \ {a}) \cup {b} /\ b = [a EXCEPT !.hotels = hotels]
      BY <2>1 DEF ReadHotels
    <3>2. b = [latest |-> a.latest, filter |-> a.filter, page |-> a.page, hotels |-> hotels, count |-> a.count,
               rooms |-> a.rooms]
      BY <1>a, <3>1 DEF ConsoleAsk
    <3> QED  BY <1>a, <3>1, <3>2 DEF ConsoleAsk
  <2>2. CASE CountRooms(a)
    <3> DEFINE pages == PageCount(Cardinality(RoomsFound(a.filter)))
               p == Limited(a.page, pages)
    <3>1. pages \in Nat
      <4>1. IsFiniteSet(RoomsFound(a.filter))
        BY ListsAssumption, FS_Subset DEF RoomsFound, StockInv
      <4>2. Cardinality(RoomsFound(a.filter)) \in Nat
        BY <4>1, FS_CardinalityType
      <4> QED  BY <4>2, PageCountType
    <3>2. p \in Nat /\ p <= a.page
      BY <1>a, <3>1 DEF Limited, ConsoleAsk
    <3> DEFINE count == [page |-> p, pages |-> pages]
               b == [a EXCEPT !.count = count]
    <3>3. /\ asks' = (asks \ {a}) \cup {b} /\ b = [a EXCEPT !.count = count]
          /\ count.page = p /\ count.pages = pages
      BY <2>2 DEF CountRooms
    <3> HIDE DEF pages, p, count, b
    <3>4. b = [latest |-> a.latest, filter |-> a.filter, page |-> a.page, hotels |-> a.hotels, count |-> count,
               rooms |-> a.rooms]
      BY <1>a, <3>3 DEF ConsoleAsk
    <3>5. /\ b.latest = a.latest /\ b.filter = a.filter /\ b.page = a.page /\ b.hotels = a.hotels
          /\ b.count = count /\ b.rooms = a.rooms
      BY <3>4
    <3>6. ConsoleAsk(b)
      BY <1>a, <3>1, <3>2, <3>3, <3>4, <3>5 DEF ConsoleAsk
    <3> QED  BY <3>3, <3>5, <3>6
  <2>3. CASE ReadRooms(a)
    <3> DEFINE found == [filter |-> a.filter, items |-> PageOf(RoomsOf(a.filter), a.count.page),
                         page |-> a.count.page, pages |-> a.count.pages]
               b == [a EXCEPT !.rooms = found]
    <3>1. a.count.page <= a.page /\ a.count.page \in Nat /\ a.count.pages \in Nat
      BY <1>a, <2>3 DEF ReadRooms, ConsoleAsk
    <3>2. /\ asks' = (asks \ {a}) \cup {b} /\ b = [a EXCEPT !.rooms = found]
          /\ found.filter = a.filter /\ found.page = a.count.page /\ found.pages = a.count.pages
      BY <2>3 DEF ReadRooms
    <3> HIDE DEF found, b
    <3>3. b = [latest |-> a.latest, filter |-> a.filter, page |-> a.page, hotels |-> a.hotels, count |-> a.count,
               rooms |-> found]
      BY <1>a, <3>2 DEF ConsoleAsk
    <3>4. /\ b.latest = a.latest /\ b.filter = a.filter /\ b.page = a.page /\ b.hotels = a.hotels
          /\ b.count = a.count /\ b.rooms = found
      BY <3>3
    <3>5. ConsoleAsk(b)
      BY <1>a, <3>1, <3>2, <3>3, <3>4 DEF ConsoleAsk
    <3> QED  BY <3>2, <3>4, <3>5
  <2> QED  BY <2>1, <2>2, <2>3 DEF Read
<1>2. UNCHANGED <<route, filter, roomPage, shownHotels, shownRooms, consoleError, asked>>
  BY DEF Read
<1>3. \A c \in asks' : c = b \/ (c \in asks /\ c # a)
  BY <1>1
<1>4. b \in asks' /\ \A c \in asks : c = a \/ c \in asks'
  BY <1>1
<1>5. AsksInv'
  BY <1>1, <1>2, <1>3 DEF ScreenInv, AsksInv
<1>6. ConsoleAtRest' => ConsoleAtRest
  BY <1>1, <1>2, <1>4 DEF ConsoleAtRest
<1> QED  BY <1>2, <1>5, <1>6 DEF ScreenInv, DashboardShowsLastAsked, ControlsFitTheLists

(* The answer of the latest refresh is what the dashboard then shows, and   *)
(* sets its controls; when that changes them it asks again; and another     *)
(* answer changes nothing (refresh after its requests).                     *)
LEMMA ArriveShows ==
    ASSUME ScreenInv, NEW a \in asks, Arrive(a)
    PROVE  ScreenInv'
<1>a. ConsoleAsk(a) /\ a.rooms # None
  BY DEF ScreenInv, AsksInv, Arrive, Complete
<1>b. AsksInv /\ \A b \in asks \ {a} : ConsoleAsk(b)
  BY DEF ScreenInv, AsksInv
<1>1. CASE ~a.latest
  <2>1. /\ asks' = asks \ {a}
        /\ UNCHANGED <<route, filter, roomPage, shownHotels, shownRooms, consoleError, asked>>
    BY <1>1 DEF Arrive, Latest
  <2>2. AsksInv'
    BY <1>b, <2>1 DEF AsksInv
  <2>3. ConsoleAtRest' => ConsoleAtRest
    BY <1>1, <2>1 DEF ConsoleAtRest
  <2> QED  BY <2>1, <2>2, <2>3 DEF ScreenInv, DashboardShowsLastAsked, ControlsFitTheLists
<1>2. CASE a.latest
  <2>1. /\ shownHotels' = a.hotels /\ shownRooms' = a.rooms /\ roomPage' = a.rooms.page
        /\ filter' = NewFilter(a) /\ consoleError' = FALSE /\ ControlsEffect(asks \ {a})
    BY <1>2 DEF Arrive, Latest, AfterAnswer
  <2>2. roomPage' \in Nat /\ shownRooms'.pages \in Nat /\ consoleError' \in BOOLEAN
    BY <1>a, <2>1 DEF ConsoleAsk
  <2>3. CASE <<filter', roomPage'>> # <<filter, roomPage>>
    <3>1. Refresh(filter', roomPage', asks \ {a})
      BY <2>1, <2>3 DEF ControlsEffect
    <3> QED  BY <1>b, <2>2, <3>1, RefreshWaits
  <2>4. CASE <<filter', roomPage'>> = <<filter, roomPage>>
    <3>1. asks' = asks \ {a} /\ asked' = asked
      BY <2>1, <2>4 DEF ControlsEffect
    <3>2. AsksInv'
      BY <1>b, <2>2, <3>1 DEF AsksInv
    <3>3. /\ shownRooms'.filter = asked'.filter /\ shownRooms'.page <= asked'.page
          /\ roomPage' = shownRooms'.page
      BY <1>a, <1>b, <1>2, <2>1, <3>1 DEF ConsoleAsk, AsksInv
    <3>4. filter' \in shownHotels' \cup {None}
      BY <2>1 DEF NewFilter
    <3> QED  BY <3>2, <3>3, <3>4 DEF ScreenInv, DashboardShowsLastAsked, ControlsFitTheLists
  <2> QED  BY <2>3, <2>4
<1> QED  BY <1>1, <1>2

(* When the latest refresh fails, the dashboard says so.                    *)
LEMMA FailTells ==
    ASSUME ScreenInv, NEW a \in asks, Fail(a)
    PROVE  ScreenInv'
<1>1. /\ asks' = asks \ {a} /\ (consoleError' <=> consoleError \/ a.latest) /\ consoleError' \in BOOLEAN
      /\ UNCHANGED <<route, filter, roomPage, shownHotels, shownRooms, asked>>
  BY DEF Fail, Latest, ScreenInv, AsksInv, ConsoleAsk
<1>2. AsksInv'
  BY <1>1 DEF ScreenInv, AsksInv
<1>3. ConsoleAtRest' => ConsoleAtRest
  BY <1>1 DEF ConsoleAtRest
<1> QED  BY <1>1, <1>2, <1>3 DEF ScreenInv, DashboardShowsLastAsked, ControlsFitTheLists

(* Every step of the two pages keeps it.                                    *)
LEMMA NextScreen ==
    ASSUME ConsoleInv, [Next]_vars
    PROVE  ScreenInv'
<1>s. ScreenInv /\ AsksInv /\ StockInv
  BY DEF ConsoleInv, ScreenInv
<1>t. /\ roomPage \in Nat /\ shownRooms.pages \in Nat /\ consoleError \in BOOLEAN /\ edit.page \in Nat
      /\ \A a \in asks : ConsoleAsk(a)
  BY <1>s DEF AsksInv, StockInv, EditInv
<1>1. CASE UNCHANGED <<route, console>>
  BY <1>1, <1>s DEF console, ScreenInv, AsksInv, DashboardShowsLastAsked, ControlsFitTheLists, ConsoleAtRest
<1>2. ASSUME NEW a \in asks, AskStep(a) PROVE ScreenInv'
  BY <1>2, <1>s, ReadWaits, ArriveShows, FailTells DEF AskStep
<1>3. ASSUME NEW f, NEW p, SetControls(f, p) PROVE ScreenInv'
  <2>1. /\ filter' = f /\ roomPage' = p /\ ControlsEffect(asks)
        /\ UNCHANGED <<route, shownHotels, shownRooms, consoleError>>
    BY <1>3 DEF SetControls
  <2>2. p \in Nat
    BY <1>3, <1>t DEF SetControls
  <2>3. CASE <<filter', roomPage'>> # <<filter, roomPage>>
    <3>1. Refresh(filter', roomPage', asks)
      BY <2>1, <2>3 DEF ControlsEffect
    <3> QED  BY <1>t, <2>1, <2>2, <3>1, RefreshWaits
  <2>4. CASE <<filter', roomPage'>> = <<filter, roomPage>>
    <3>1. asks' = asks /\ asked' = asked
      BY <2>1, <2>4 DEF ControlsEffect
    <3> QED  BY <1>1, <2>1, <2>4, <3>1 DEF console
  <2> QED  BY <2>3, <2>4
<1>4. CASE Answered
  <2>1. CASE edit.stage = "done" /\ route = "admin"
    <3>1. UNCHANGED <<roomPage, shownHotels, shownRooms, consoleError>>
      BY <1>4, <2>1 DEF Answered
    <3>2. CASE filter' = filter
      <4>1. Refresh(edit.filter, edit.page, asks)
        BY <1>4, <2>1, <3>2 DEF Answered
      <4> QED  BY <1>t, <3>1, <4>1, RefreshWaits
    <3>3. CASE filter' # filter
      <4>1. Refresh(filter', roomPage, asks \cup {Ask(edit.filter, edit.page)})
        BY <1>4, <2>1, <3>3 DEF Answered
      <4>2. ConsoleAsk(Ask(edit.filter, edit.page))
        BY <1>t DEF Ask, ConsoleAsk
      <4> QED  BY <1>t, <3>1, <4>1, <4>2, RefreshWaits
    <3> QED  BY <3>2, <3>3
  <2>2. CASE ~(edit.stage = "done" /\ route = "admin")
    BY <1>1, <1>4, <2>2 DEF Answered
  <2> QED  BY <2>1, <2>2
<1>5. CASE GoToDashboard
  <2>1. /\ Refresh(None, 1, {}) /\ roomPage' = 1 /\ shownRooms' = NoRooms /\ consoleError' = FALSE
    BY <1>5 DEF GoToDashboard, Unmounted
  <2>2. /\ roomPage' \in Nat /\ shownRooms'.pages \in Nat /\ consoleError' \in BOOLEAN
        /\ \A a \in {} : ConsoleAsk(a)
    BY <2>1 DEF NoRooms
  <2> QED  BY <2>1, <2>2, RefreshWaits
<1>6. CASE GoToWork
  <2>1. /\ asks' = {} /\ route' = "agent" /\ roomPage' = 1 /\ shownRooms' = NoRooms /\ consoleError' = FALSE
    BY <1>6 DEF GoToWork, Unmounted
  <2>2. AsksInv'
    BY <2>1 DEF AsksInv, NoRooms
  <2> QED
    BY <2>1, <2>2 DEF ScreenInv, DashboardShowsLastAsked, ControlsFitTheLists, ConsoleAtRest
<1>7. CASE OnLog \/ Execute \/ EditFails
  BY <1>1, <1>7 DEF OnLog, Execute, EditFails
<1>8. ASSUME NEW kind, NEW t, Submit(kind, t) \/ EditElsewhere(kind, t) PROVE ScreenInv'
  BY <1>1, <1>8 DEF Submit, EditElsewhere
<1>9. ASSUME NEW l \in Logs, Ends(l) PROVE ScreenInv'
  BY <1>1, <1>9 DEF Ends
<1>10. CASE UNCHANGED vars
  BY <1>1, <1>10 DEF vars
<1> QED  BY <1>2, <1>3, <1>4, <1>5, <1>6, <1>7, <1>8, <1>9, <1>10 DEF Next

(* What makes the dashboard show what was asked for last is inductive.      *)
THEOREM ConsoleCorrect == Spec => []ConsoleInv
<1>1. Init => ConsoleInv
  <2> SUFFICES ASSUME Init PROVE ConsoleInv  OBVIOUS
  <2>1. /\ rooms = Rooms /\ edit = NoEdit /\ roomPage = 1 /\ asks = {} /\ route = "agent"
        /\ shownRooms = NoRooms /\ consoleError = FALSE
    BY DEF Init
  <2>2. StockInv
    BY <2>1 DEF StockInv, EditInv, NoEdit
  <2>3. AsksInv /\ DashboardShowsLastAsked /\ ControlsFitTheLists
    BY <2>1 DEF AsksInv, NoRooms, DashboardShowsLastAsked, ControlsFitTheLists, ConsoleAtRest
  <2> QED  BY <2>2, <2>3 DEF ConsoleInv
<1>2. ConsoleInv /\ [Next]_vars => ConsoleInv'
  BY NextStock, NextScreen DEF ConsoleInv, ScreenInv
<1> QED  BY <1>1, <1>2, PTL DEF Spec

(* The dashboard, at rest, shows the answer of its last refresh, in         *)
(* whichever order the answers of several came, and a page of it that is    *)
(* no later than the one asked for.                                         *)
THEOREM DashboardHolds == Spec => []DashboardShowsLastAsked
<1>1. ConsoleInv => DashboardShowsLastAsked
  BY DEF ConsoleInv
<1> QED  BY <1>1, ConsoleCorrect, PTL

(* At rest the hotel chosen is one of those shown, though an administrator  *)
(* elsewhere may have removed it while answers were on their way, and the   *)
(* room page is the one shown.                                              *)
THEOREM ControlsHold == Spec => []ControlsFitTheLists
<1>1. ConsoleInv => ControlsFitTheLists
  BY DEF ConsoleInv
<1> QED  BY <1>1, ConsoleCorrect, PTL

-----------------------------------------------------------------------------
(* The types.                                                              *)

PageNumbers(S) == 1 .. Cardinality(S) + 1

\* The requests of the log, and what it shows.
LogRequest == [latest : BOOLEAN, page : Nat \ {0}, filter : Filters, phase : {"sent", "read", "back"},
               items : Seq(Logs), pages : PageNumbers(Logs)]
LogList == [page : Nat \ {0}, filter : Filters, items : Seq(Logs), pages : PageNumbers(Logs)]

LogTypes ==
    /\ inLog \in BOOLEAN /\ due \in BOOLEAN /\ loading \in BOOLEAN /\ logError \in BOOLEAN
    /\ logPage \in PageNumbers(Logs) /\ logFilter \in Filters
    /\ logAsks \subseteq LogRequest /\ logShown \in LogList
    /\ changes \in 0 .. MaxChanges

DoneTypes == done \in Seq(Logs) /\ IsInjective(done)

\* The refreshes of the dashboard, and the rooms it shows.
RoomList == [filter : Filters, items : Seq(Rooms), page : Nat \ {0}, pages : PageNumbers(Rooms)]
ShownRoomList == {r \in RoomList : r.page <= r.pages}
RoomCount == {c \in [page : Nat \ {0}, pages : PageNumbers(Rooms)] : c.page <= c.pages}
RefreshRequest == [latest : BOOLEAN, filter : Filters, page : Nat \ {0},
                   hotels : (SUBSET Hotels) \cup {None}, count : RoomCount \cup {None},
                   rooms : ShownRoomList \cup {None}]

ConsoleTypes ==
    /\ filter \in Filters /\ roomPage \in PageNumbers(Rooms)
    /\ asks \subseteq RefreshRequest
    /\ shownHotels \subseteq Hotels /\ shownRooms \in ShownRoomList
    /\ consoleError \in BOOLEAN

\* An edit, which adds nothing that is not a hotel or a room.
EditTypes ==
    /\ edit \in [kind : Kinds, target : Targets, filter : Filters, page : PageNumbers(Rooms),
                 stage : {"none", "sent", "done", "refused"}]
    /\ edit.kind = "addHotel" => edit.target \in Hotels
    /\ edit.kind = "addRoom" => edit.target \in Rooms

StockTypes ==
    /\ hotels \subseteq Hotels /\ rooms \subseteq Rooms /\ route \in {"agent", "admin"}
    /\ edits \in [here : 0 .. MaxEdits, elsewhere : 0 .. MaxEdits]

TypeInv == LogTypes /\ DoneTypes /\ ConsoleTypes /\ EditTypes /\ StockTypes

(* The number of pages of a part of the rows is one of the page numbers.    *)
LEMMA PagesOfPart ==
    ASSUME NEW S, IsFiniteSet(S), NEW T \in SUBSET S
    PROVE  PageCount(Cardinality(T)) \in PageNumbers(S) /\ PageNumbers(S) \subseteq Nat \ {0} /\ 1 \in PageNumbers(S)
<1>1. Cardinality(T) \in Nat /\ Cardinality(S) \in Nat /\ Cardinality(T) <= Cardinality(S)
  BY FS_Subset, FS_CardinalityType
<1>2. PageCount(Cardinality(T)) \in 1 .. Cardinality(T) + 1
  BY <1>1, PageCountRight
<1> QED  BY <1>1, <1>2 DEF PageNumbers

(* The types are those of the invariant.                                    *)
LEMMA TypesAreTypes ==
    ASSUME TypeInv
    PROVE  TypeOK
<1>1. LogTypeOK
  <2>1. logShown.items \in Seq(Logs) /\ logShown.pages \in Nat \ {0}
    BY ListsAssumption, PagesOfPart DEF TypeInv, LogTypes, LogList
  <2>2. \A a \in logAsks : a.page \in Nat \ {0} /\ a.filter \in Filters
    BY DEF TypeInv, LogTypes, LogRequest
  <2> QED  BY <2>1, <2>2 DEF TypeInv, LogTypes, DoneTypes, LogTypeOK, PageNumbers
<1>2. \A a \in asks : a.filter \in Filters /\ a.page \in Nat \ {0}
  BY DEF TypeInv, ConsoleTypes, RefreshRequest
<1>3. shownRooms.items \in Seq(Rooms) /\ shownRooms.page \in 1 .. shownRooms.pages
  <2>1. /\ shownRooms.items \in Seq(Rooms) /\ shownRooms.page \in Nat \ {0}
        /\ shownRooms.pages \in PageNumbers(Rooms) /\ shownRooms.page <= shownRooms.pages
    BY DEF TypeInv, ConsoleTypes, ShownRoomList, RoomList
  <2>2. shownRooms.pages \in Nat
    BY <2>1, ListsAssumption, PagesOfPart
  <2> QED  BY <2>1, <2>2
<1>4. Range(shownRooms.items) \subseteq Rooms
  BY <1>3 DEF Range
<1> QED  BY <1>1, <1>2, <1>3, <1>4
         DEF TypeInv, ConsoleTypes, EditTypes, StockTypes, TypeOK, PageNumbers

(* What the server finds are rows of the log, however it is filtered.       *)
LEMMA MatchingType ==
    ASSUME DoneTypes, NEW f, NEW p \in Nat \ {0}
    PROVE  PageOf(Matching(f), p) \in Seq(Logs)
<1>1. Reverse(done) \in Seq(Logs)
  <2>1. \A i \in 1 .. Len(done) : done[Len(done) - i + 1] \in Logs
    BY DEF DoneTypes
  <2>2. Len(done) \in Nat
    BY DEF DoneTypes
  <2> QED  BY <2>1, <2>2 DEF Reverse
<1>2. Matching(f) \in Seq(Logs)
  BY <1>1, KeptRight DEF Matching
<1> QED  BY <1>2, PageOfRight

(* What a removal leaves of the log is a list without repetition.           *)
LEMMA RemovalKeepsDone ==
    ASSUME DoneTypes, NEW gone, RemoveRooms(gone)
    PROVE  DoneTypes'
<1> DEFINE S == {l \in Logs : LogRoom[l] \notin gone}
<1>1. done' = Kept(done, S)
  BY DEF RemoveRooms
<1> HIDE DEF S
<1>2. done' \in Seq(Logs)
  BY <1>1, KeptRight DEF DoneTypes
<1>3. PICK at \in [DOMAIN done' -> DOMAIN done] :
        /\ \A i, j \in DOMAIN at : i < j => at[i] < at[j]
        /\ \A i \in DOMAIN at : done'[i] = done[at[i]]
  BY <1>1, KeptRight DEF DoneTypes
<1>4. ASSUME NEW i \in DOMAIN done', NEW j \in DOMAIN done', done'[i] = done'[j] PROVE i = j
  <2>1. at[i] \in DOMAIN done /\ at[j] \in DOMAIN done /\ done[at[i]] = done[at[j]]
    BY <1>3, <1>4
  <2>2. at[i] = at[j]
    BY <2>1 DEF DoneTypes, IsInjective
  <2>3. DOMAIN done' = 1 .. Len(done') /\ DOMAIN done = 1 .. Len(done) /\ Len(done') \in Nat /\ Len(done) \in Nat
    BY <1>2 DEF DoneTypes
  <2>4. at[i] \in Nat /\ at[j] \in Nat /\ i \in Nat /\ j \in Nat
    BY <2>1, <2>3
  <2>5. ~(i < j) /\ ~(j < i)
    BY <1>3, <2>2, <2>4
  <2> QED  BY <2>4, <2>5
<1> QED  BY <1>2, <1>4 DEF DoneTypes, IsInjective

(* A consultation that ends is added once.                                  *)
LEMMA FinishKeepsDone ==
    ASSUME DoneTypes, NEW l \in Logs, Finish(l)
    PROVE  DoneTypes'
<1>1. done' = Append(done, l) /\ l \notin Range(done) /\ done \in Seq(Logs) /\ IsInjective(done)
  BY DEF Finish, DoneTypes
<1>2. /\ done' \in Seq(Logs) /\ Len(done) \in Nat /\ DOMAIN done = 1 .. Len(done)
      /\ DOMAIN done' = 1 .. Len(done) + 1 /\ done'[Len(done) + 1] = l
      /\ \A i \in 1 .. Len(done) : done'[i] = done[i]
  BY <1>1
<1>3. \A i \in 1 .. Len(done) : done[i] # l
  BY <1>1, <1>2 DEF Range
<1>4. ASSUME NEW i \in DOMAIN done', NEW j \in DOMAIN done', done'[i] = done'[j] PROVE i = j
  <2>1. CASE i \in 1 .. Len(done) /\ j \in 1 .. Len(done)
    BY <1>1, <1>2, <1>4, <2>1 DEF IsInjective
  <2>2. CASE i = Len(done) + 1 /\ j \in 1 .. Len(done)
    BY <1>2, <1>3, <1>4, <2>2
  <2>3. CASE j = Len(done) + 1 /\ i \in 1 .. Len(done)
    BY <1>2, <1>3, <1>4, <2>3
  <2>4. CASE i = Len(done) + 1 /\ j = Len(done) + 1
    BY <2>4
  <2> QED  BY <1>2, <2>1, <2>2, <2>3, <2>4
<1> QED  BY <1>2, <1>4 DEF DoneTypes, IsInjective

(* The requests of the log and the list it shows keep their types.          *)
LEMMA EffectTypes ==
    ASSUME LogTypes, NEW before \in SUBSET logAsks, Effect(before)
    PROVE  due' \in BOOLEAN /\ logAsks' \subseteq LogRequest
<1>1. CASE inLog'
  <2>1. logAsks' = {[a EXCEPT !.latest = FALSE] : a \in {b \in before : b.phase = "back"}}
    BY <1>1 DEF Effect
  <2>2. ASSUME NEW a \in before PROVE [a EXCEPT !.latest = FALSE] \in LogRequest
    <3>1. a \in LogRequest
      BY DEF LogTypes
    <3> QED  BY <3>1 DEF LogRequest
  <2> QED  BY <1>1, <2>1, <2>2 DEF Effect
<1>2. CASE ~inLog'
  BY <1>2 DEF Effect, LogTypes
<1> QED  BY <1>1, <1>2

(* What the server adds to a request is a page of rows, and a page number   *)
(* (list, listSessionLogs).                                                 *)
LEMMA ServeTypes ==
    ASSUME LogTypes, DoneTypes, NEW a \in logAsks, Serve(a)
    PROVE  LogTypes'
<1>1. a \in LogRequest
  BY DEF LogTypes
<1>2. \A f : PageOf(Matching(f), a.page) \in Seq(Logs)
  BY <1>1, MatchingType DEF LogRequest
<1>3. \A f : PageCount(Total(f)) \in PageNumbers(Logs)
  <2> TAKE f
  <2>1. {l \in Found(f) : l \in Range(done)} \in SUBSET Logs
    BY DEF Found
  <2> QED  BY <2>1, ListsAssumption, PagesOfPart DEF Total
<1>4. logAsks' \subseteq LogRequest
  <2>1. CASE ReadItems(a)
    <3>1. [a EXCEPT !.phase = "read", !.items = PageOf(Matching(a.filter), a.page)] \in LogRequest
      BY <1>1, <1>2 DEF LogRequest
    <3> QED  BY <2>1, <3>1 DEF ReadItems, Step, LogTypes
  <2>2. CASE CountPages(a)
    <3>1. [a EXCEPT !.phase = "back", !.pages = PageCount(Total(a.filter))] \in LogRequest
      BY <1>1, <1>3 DEF LogRequest
    <3> QED  BY <2>2, <3>1 DEF CountPages, Step, LogTypes
  <2>3. CASE OldServer(a)
    <3>1. [a EXCEPT !.phase = "back", !.items = PageOf(Matching(None), a.page), !.pages = PageCount(Total(None))]
             \in LogRequest
      BY <1>1, <1>2, <1>3 DEF LogRequest
    <3> QED  BY <2>3, <3>1 DEF OldServer, Step, LogTypes
  <2> QED  BY <2>1, <2>2, <2>3 DEF Serve
<1> QED  BY <1>4 DEF Serve, LogTypes

(* The page of the log stays among the page numbers, turned by its buttons  *)
(* or corrected by an answer.                                               *)
LEMMA LogStepTypes ==
    ASSUME LogTypes, DoneTypes, LogNext
    PROVE  LogTypes' /\ done' = done
<1>t. /\ PageNumbers(Logs) = 1 .. Cardinality(Logs) + 1 /\ Cardinality(Logs) \in Nat
      /\ 1 \in PageNumbers(Logs) /\ MaxChanges \in Nat /\ logAsks \in SUBSET logAsks
  BY ListsAssumption, FS_CardinalityType DEF PageNumbers
<1>c. Click => changes' \in 0 .. MaxChanges
  BY <1>t DEF Click, LogTypes
<1>1. CASE EnterLog
  <2>1. due' \in BOOLEAN /\ logAsks' \subseteq LogRequest
    <3>1. CASE inLog /\ logPage = 1
      BY <1>1, <3>1 DEF EnterLog, LogTypes
    <3>2. CASE ~(inLog /\ logPage = 1)
      BY <1>1, <1>t, <3>2, EffectTypes DEF EnterLog
    <3> QED  BY <3>1, <3>2
  <2>2. changes' \in 0 .. MaxChanges
    BY <1>1, <1>c DEF EnterLog, LogTypes
  <2>3. inLog' \in BOOLEAN /\ logPage' = 1 /\ UNCHANGED <<done, logFilter, logShown, loading, logError>>
    BY <1>1 DEF EnterLog
  <2> QED  BY <1>t, <2>1, <2>2, <2>3 DEF LogTypes
<1>2. CASE LeaveLog
  <2>1. due' \in BOOLEAN /\ logAsks' \subseteq LogRequest
    BY <1>2, <1>t, EffectTypes DEF LeaveLog
  <2> QED  BY <1>2, <1>c, <2>1 DEF LeaveLog, LogTypes
<1>3. CASE AskLog
  <2>1. [latest |-> TRUE, page |-> logPage, filter |-> logFilter,
         phase |-> "sent", items |-> <<>>, pages |-> 1] \in LogRequest
    BY <1>t DEF LogTypes, LogRequest
  <2> QED  BY <1>3, <2>1 DEF AskLog, LogTypes
<1>4. ASSUME NEW f \in Filters, SetLogFilter(f) PROVE LogTypes' /\ done' = done
  <2>1. due' \in BOOLEAN /\ logAsks' \subseteq LogRequest
    BY <1>4, <1>t, EffectTypes DEF SetLogFilter
  <2> QED  BY <1>4, <1>c, <1>t, <2>1 DEF SetLogFilter, LogTypes
<1>5. ASSUME NEW p, TurnLogPage(p) PROVE LogTypes' /\ done' = done
  <2>1. due' \in BOOLEAN /\ logAsks' \subseteq LogRequest
    BY <1>5, <1>t, EffectTypes DEF TurnLogPage
  <2>2. logPage' \in PageNumbers(Logs)
    <3>1. logShown.pages \in PageNumbers(Logs) /\ logPage \in PageNumbers(Logs)
      BY DEF LogTypes, LogList
    <3> QED  BY <1>5, <1>t, <3>1 DEF TurnLogPage
  <2> QED  BY <1>5, <1>c, <2>1, <2>2 DEF TurnLogPage, LogTypes
<1>6. ASSUME NEW a \in logAsks, LogArrives(a) PROVE LogTypes' /\ done' = done
  <2>a. a \in LogRequest /\ logAsks \ {a} \in SUBSET logAsks
    BY DEF LogTypes
  <2>1. CASE a.latest
    <3>1. logPage' \in PageNumbers(Logs) /\ logShown' \in LogList
      BY <1>6, <2>1, <2>a DEF LogArrives, Newest, Corrected, LogRequest, LogList, LogTypes
    <3>2. due' \in BOOLEAN /\ logAsks' \subseteq LogRequest
      <4>1. CASE logPage' # logPage
        BY <1>6, <2>1, <2>a, <4>1, EffectTypes DEF LogArrives, Newest
      <4>2. CASE logPage' = logPage
        BY <1>6, <2>1, <4>2 DEF LogArrives, Newest, LogTypes
      <4> QED  BY <4>1, <4>2
    <3> QED  BY <1>6, <2>1, <3>1, <3>2 DEF LogArrives, Newest, LogTypes
  <2>2. CASE ~a.latest
    BY <1>6, <2>2 DEF LogArrives, Newest, LogTypes
  <2> QED  BY <2>1, <2>2
<1>7. ASSUME NEW a \in logAsks, LogFails(a) PROVE LogTypes' /\ done' = done
  BY <1>7 DEF LogFails, Loaded, LogTypes
<1>8. ASSUME NEW a \in logAsks, Serve(a) PROVE LogTypes' /\ done' = done
  BY <1>8, ServeTypes DEF Serve
<1>9. CASE ReloadLog
  <2>1. due' \in BOOLEAN /\ logAsks' \subseteq LogRequest
    BY <1>9, <1>t, EffectTypes DEF ReloadLog
  <2> QED  BY <1>9, <1>c, <2>1 DEF ReloadLog, LogTypes
<1> QED  BY <1>1, <1>2, <1>3, <1>4, <1>5, <1>6, <1>7, <1>8, <1>9 DEF LogNext, LogAnswer

(* An edit adds hotels and rooms, removes them with their consultations, or *)
(* changes no list (AdminService).                                          *)
LEMMA ApplyTypes ==
    ASSUME DoneTypes, hotels \subseteq Hotels, rooms \subseteq Rooms, NEW e, Apply(e),
           e.kind = "addHotel" => e.target \in Hotels, e.kind = "addRoom" => e.target \in Rooms
    PROVE  DoneTypes' /\ hotels' \subseteq Hotels /\ rooms' \subseteq Rooms
<1>1. CASE Refused(e) \/ e.kind \notin {"addHotel", "addRoom", "removeHotel", "removeRoom"}
  BY <1>1 DEF Apply, stock, DoneTypes
<1>2. CASE ~Refused(e) /\ e.kind = "addHotel"
  BY <1>2 DEF Apply, DoneTypes
<1>3. CASE ~Refused(e) /\ e.kind = "addRoom"
  BY <1>3 DEF Apply, DoneTypes
<1>4. CASE ~Refused(e) /\ e.kind = "removeHotel"
  <2>1. PICK gone : RemoveRooms(gone) /\ hotels' \subseteq hotels
    BY <1>4 DEF Apply
  <2> QED  BY <2>1, RemovalKeepsDone DEF RemoveRooms
<1>5. CASE ~Refused(e) /\ e.kind = "removeRoom"
  <2>1. PICK gone : RemoveRooms(gone) /\ hotels' = hotels
    BY <1>5 DEF Apply
  <2> QED  BY <2>1, RemovalKeepsDone DEF RemoveRooms
<1> QED  BY <1>1, <1>2, <1>3, <1>4, <1>5

(* A refresh outdates the others and asks with a hotel and a page number.   *)
LEMMA RefreshTypes ==
    ASSUME NEW before \in SUBSET RefreshRequest, NEW f \in Filters, NEW p \in Nat \ {0}, Refresh(f, p, before)
    PROVE  asks' \subseteq RefreshRequest
<1>1. Ask(f, p) \in RefreshRequest
  <2>1. None \in (SUBSET Hotels) \cup {None} /\ None \in RoomCount \cup {None} /\ None \in ShownRoomList \cup {None}
    OBVIOUS
  <2> QED  BY ONLY <2>1, f \in Filters, p \in Nat \ {0} DEF Ask, RefreshRequest
<1>2. ASSUME NEW a \in before PROVE [a EXCEPT !.latest = FALSE] \in RefreshRequest
  BY DEF RefreshRequest
<1> QED  BY <1>1, <1>2 DEF Refresh

(* The server answers a refresh with hotels, and with a page of rooms that  *)
(* there is (listHotels, listRooms).                                        *)
LEMMA ReadTypes ==
    ASSUME ConsoleTypes, hotels \subseteq Hotels, rooms \subseteq Rooms, NEW a \in asks, Read(a)
    PROVE  ConsoleTypes'
<1>1. a \in RefreshRequest
  BY DEF ConsoleTypes
<1>2. asks' \subseteq RefreshRequest
  <2>1. CASE ReadHotels(a)
    <3>1. [a EXCEPT !.hotels = hotels] \in RefreshRequest
      BY <1>1 DEF RefreshRequest
    <3> QED  BY <2>1, <3>1 DEF ReadHotels, ConsoleTypes
  <2>2. CASE CountRooms(a)
    <3> DEFINE pages == PageCount(Cardinality(RoomsFound(a.filter)))
               p == Limited(a.page, pages)
               count == [page |-> p, pages |-> pages]
    <3>1. RoomsFound(a.filter) \in SUBSET Rooms
      BY DEF RoomsFound
    <3>2. pages \in PageNumbers(Rooms) /\ pages \in Nat \ {0}
      BY <3>1, ListsAssumption, PagesOfPart
    <3>3. p \in Nat \ {0} /\ p <= pages
      BY <1>1, <3>2 DEF Limited, RefreshRequest
    <3>4. asks' = (asks \ {a}) \cup {[a EXCEPT !.count = count]}
      BY <2>2 DEF CountRooms
    <3> HIDE DEF p, pages
    <3>5. count \in RoomCount
      BY <3>2, <3>3 DEF RoomCount
    <3> HIDE DEF count
    <3>6. [a EXCEPT !.count = count] \in RefreshRequest
      BY <1>1, <3>5 DEF RefreshRequest
    <3> QED  BY <3>4, <3>6 DEF ConsoleTypes
  <2>3. CASE ReadRooms(a)
    <3> DEFINE found == RoomsFound(a.filter)
               p == a.count.page
               list == [filter |-> a.filter, items |-> PageOf(RoomsOf(a.filter), p), page |-> p,
                        pages |-> a.count.pages]
    <3>1. found \in SUBSET Rooms
      BY DEF RoomsFound
    <3>2. IsFiniteSet(found) /\ found \in SUBSET Nat
      BY <3>1, ListsAssumption, ConsoleAssumption, FS_Subset
    <3>3. RoomsOf(a.filter) \in Seq(Rooms)
      <4>1. Ascending(found) \in [1 .. Cardinality(found) -> Rooms] /\ Cardinality(found) \in Nat
        BY <3>1, <3>2, AscendingRight
      <4> QED  BY <4>1 DEF RoomsOf
    <3>4. a.count \in RoomCount
      BY <1>1, <2>3 DEF ReadRooms, RefreshRequest
    <3>5. p \in Nat \ {0} /\ a.count.pages \in PageNumbers(Rooms) /\ p <= a.count.pages
      BY <3>4 DEF RoomCount
    <3>6. PageOf(RoomsOf(a.filter), p) \in Seq(Rooms)
      BY <3>3, <3>5, PageOfRight
    <3>7. asks' = (asks \ {a}) \cup {[a EXCEPT !.rooms = list]}
      BY <2>3 DEF ReadRooms
    <3> HIDE DEF p
    <3>8. list \in ShownRoomList
      BY <1>1, <3>5, <3>6 DEF ShownRoomList, RoomList, RefreshRequest
    <3> HIDE DEF list
    <3>9. [a EXCEPT !.rooms = list] \in RefreshRequest
      BY <1>1, <3>8 DEF RefreshRequest
    <3> QED  BY <3>7, <3>9 DEF ConsoleTypes
  <2> QED  BY <2>1, <2>2, <2>3 DEF Read
<1> QED  BY <1>2 DEF Read, ConsoleTypes

(* The empty log is a list of the log.                                      *)
LEMMA NoLogType == NoLog \in LogList /\ 1 \in PageNumbers(Logs)
<1>1. 1 \in PageNumbers(Logs)
  BY ListsAssumption, PagesOfPart
<1>2. <<>> \in Seq(Logs) /\ None \in Filters /\ 1 \in Nat \ {0}
  BY DEF Filters
<1> QED  BY ONLY <1>1, <1>2 DEF NoLog, LogList

(* The answer shown is of the types of the request, and so are the controls *)
(* it sets.                                                                 *)
LEMMA ArriveTypes ==
    ASSUME ConsoleTypes, NEW a \in asks, Arrive(a)
    PROVE  ConsoleTypes'
<1>1. a \in RefreshRequest /\ asks \ {a} \in SUBSET RefreshRequest
  BY DEF ConsoleTypes
<1>2. a.hotels \subseteq Hotels /\ a.rooms \in ShownRoomList
  BY <1>1 DEF Arrive, Complete, RefreshRequest
<1>3. a.rooms.page \in PageNumbers(Rooms) /\ a.rooms.page \in Nat \ {0}
  <2>1. a.rooms.page \in Nat \ {0} /\ a.rooms.pages \in PageNumbers(Rooms) /\ a.rooms.page <= a.rooms.pages
    BY <1>2 DEF ShownRoomList, RoomList
  <2>2. Cardinality(Rooms) \in Nat
    BY ListsAssumption, FS_CardinalityType
  <2> QED  BY <2>1, <2>2 DEF PageNumbers
<1>4. CASE a.latest
  <2>1. /\ shownHotels' = a.hotels /\ shownRooms' = a.rooms /\ roomPage' = a.rooms.page
        /\ filter' = NewFilter(a) /\ consoleError' = FALSE /\ ControlsEffect(asks \ {a})
    BY <1>4 DEF Arrive, Latest, AfterAnswer
  <2>2. filter' \in Filters
    BY <2>1 DEF NewFilter, ConsoleTypes, Filters
  <2>3. asks' \subseteq RefreshRequest
    <3>1. CASE <<filter', roomPage'>> # <<filter, roomPage>>
      <4>1. Refresh(filter', roomPage', asks \ {a})
        BY <2>1, <3>1 DEF ControlsEffect
      <4> QED  BY <1>1, <1>3, <2>1, <2>2, <4>1, RefreshTypes
    <3>2. CASE <<filter', roomPage'>> = <<filter, roomPage>>
      BY <1>1, <2>1, <3>2 DEF ControlsEffect
    <3> QED  BY <3>1, <3>2
  <2> QED  BY <1>2, <1>3, <2>1, <2>2, <2>3 DEF ConsoleTypes
<1>5. CASE ~a.latest
  BY <1>1, <1>5 DEF Arrive, Latest, ConsoleTypes
<1> QED  BY <1>4, <1>5

(* Every step of the two pages keeps the dashboard's types.                 *)
LEMMA ConsoleStepTypes ==
    ASSUME TypeInv, [Next]_vars
    PROVE  ConsoleTypes'
<1>t. /\ ConsoleTypes /\ hotels \subseteq Hotels /\ rooms \subseteq Rooms
      /\ asks \in SUBSET RefreshRequest /\ {} \in SUBSET RefreshRequest
  BY DEF TypeInv, StockTypes, ConsoleTypes
<1>p. /\ PageNumbers(Rooms) \subseteq Nat \ {0} /\ 1 \in PageNumbers(Rooms) /\ None \in Filters
      /\ PageNumbers(Rooms) = 1 .. Cardinality(Rooms) + 1 /\ Cardinality(Rooms) \in Nat
  BY ListsAssumption, PagesOfPart, FS_CardinalityType DEF PageNumbers, Filters
<1>s. NoRooms \in ShownRoomList
  BY <1>p DEF NoRooms, ShownRoomList, RoomList
<1>1. CASE UNCHANGED console
  BY <1>1, <1>t DEF console, ConsoleTypes
<1>2. ASSUME NEW a \in asks, AskStep(a) PROVE ConsoleTypes'
  <2>1. CASE Fail(a)
    <3>1. consoleError' \in BOOLEAN
      BY <2>1 DEF Fail
    <3> QED  BY <1>t, <2>1, <3>1 DEF Fail, ConsoleTypes
  <2> QED  BY <1>2, <1>t, <2>1, ReadTypes, ArriveTypes DEF AskStep
<1>3. ASSUME NEW f \in Filters, NEW p \in 1 .. shownRooms.pages, SetControls(f, p) PROVE ConsoleTypes'
  <2>1. p \in PageNumbers(Rooms) /\ p \in Nat \ {0}
    <3>1. shownRooms.pages \in PageNumbers(Rooms)
      BY <1>t DEF ConsoleTypes, ShownRoomList, RoomList
    <3> QED  BY <1>p, <3>1
  <2>2. filter' = f /\ roomPage' = p /\ ControlsEffect(asks) /\ UNCHANGED <<shownHotels, shownRooms, consoleError>>
    BY <1>3 DEF SetControls
  <2>3. asks' \subseteq RefreshRequest
    BY <1>t, <2>1, <2>2, RefreshTypes DEF ControlsEffect
  <2> QED  BY <1>t, <2>1, <2>2, <2>3 DEF ConsoleTypes
<1>4. CASE Answered
  <2>1. CASE edit.stage = "done" /\ route = "admin"
    <3>1. /\ filter' \in Filters /\ UNCHANGED <<roomPage, shownHotels, shownRooms, consoleError>>
      BY <1>4, <1>p, <1>t, <2>1 DEF Answered, ConsoleTypes
    <3>2. edit.filter \in Filters /\ edit.page \in Nat \ {0} /\ roomPage \in Nat \ {0}
      BY <1>p, <1>t DEF TypeInv, EditTypes, ConsoleTypes
    <3>3. CASE filter' = filter
      <4>1. Refresh(edit.filter, edit.page, asks)
        BY <1>4, <2>1, <3>3 DEF Answered
      <4> QED  BY <1>t, <3>1, <3>2, <4>1, RefreshTypes DEF ConsoleTypes
    <3>4. CASE filter' # filter
      <4>1. Refresh(filter', roomPage, asks \cup {Ask(edit.filter, edit.page)})
        BY <1>4, <2>1, <3>4 DEF Answered
      <4>2. Ask(edit.filter, edit.page) \in RefreshRequest
        <5>1. None \in (SUBSET Hotels) \cup {None} /\ None \in RoomCount \cup {None} /\ None \in ShownRoomList \cup {None}
          OBVIOUS
        <5> QED  BY ONLY <3>2, <5>1 DEF Ask, RefreshRequest
      <4> QED  BY <1>t, <3>1, <3>2, <4>1, <4>2, RefreshTypes DEF ConsoleTypes
    <3> QED  BY <3>3, <3>4
  <2>2. CASE ~(edit.stage = "done" /\ route = "admin")
    BY <1>1, <1>4, <2>2 DEF Answered
  <2> QED  BY <2>1, <2>2
<1>5. CASE GoToDashboard
  <2>1. Refresh(None, 1, {}) /\ filter' = None /\ roomPage' = 1 /\ shownHotels' = {} /\ shownRooms' = NoRooms
        /\ consoleError' = FALSE
    BY <1>5 DEF GoToDashboard, Unmounted
  <2>2. asks' \subseteq RefreshRequest
    BY <1>t, <1>p, <2>1, RefreshTypes
  <2> QED  BY <1>p, <1>s, <2>1, <2>2 DEF ConsoleTypes
<1>6. CASE GoToWork
  BY <1>6, <1>p, <1>s DEF GoToWork, Unmounted, ConsoleTypes
<1>7. CASE OnLog \/ Execute \/ EditFails \/ UNCHANGED vars \/ \E l \in Logs : Ends(l)
  BY <1>1, <1>7 DEF OnLog, Execute, EditFails, Ends, vars
<1>8. ASSUME NEW kind, NEW t, Submit(kind, t) \/ EditElsewhere(kind, t) PROVE ConsoleTypes'
  BY <1>1, <1>8 DEF Submit, EditElsewhere
<1> QED  BY <1>2, <1>3, <1>4, <1>5, <1>6, <1>7, <1>8 DEF Next

(* So they keep those of the log and of the finished consultations.         *)
LEMMA LogNextTypes ==
    ASSUME TypeInv, [Next]_vars
    PROVE  LogTypes' /\ DoneTypes'
<1>t. LogTypes /\ DoneTypes /\ hotels \subseteq Hotels /\ rooms \subseteq Rooms /\ EditTypes
  BY DEF TypeInv, StockTypes
<1>c. Click => changes' \in 0 .. MaxChanges
  BY ListsAssumption DEF Click, TypeInv, LogTypes
<1>1. CASE UNCHANGED <<logView, changes>> /\ DoneTypes'
  BY <1>1, <1>t DEF logView, LogTypes
<1>2. CASE OnLog
  BY <1>2, <1>t, LogStepTypes DEF OnLog, DoneTypes
<1>3. ASSUME NEW a \in asks, AskStep(a) PROVE LogTypes' /\ DoneTypes'
  BY <1>1, <1>3, <1>t DEF AskStep, Read, Arrive, Fail, logVars, DoneTypes
<1>4. ASSUME NEW f, NEW p, SetControls(f, p) PROVE LogTypes' /\ DoneTypes'
  BY <1>4, <1>c, <1>t DEF SetControls, logView, LogTypes, DoneTypes
<1>5. ASSUME NEW kind, NEW t, Submit(kind, t) PROVE LogTypes' /\ DoneTypes'
  BY <1>1, <1>5, <1>t DEF Submit, logVars, DoneTypes
<1>6. ASSUME NEW kind \in Kinds, NEW t \in Targets, EditElsewhere(kind, t) PROVE LogTypes' /\ DoneTypes'
  <2> DEFINE e == [NoEdit EXCEPT !.kind = kind, !.target = t]
  <2>1. e.kind = kind /\ e.target = t
    BY DEF NoEdit
  <2>2. /\ Apply(e) /\ (kind = "addRoom" => t \in Rooms) /\ (kind = "addHotel" => t \in Hotels)
        /\ UNCHANGED <<logView, changes>>
    BY <1>6 DEF EditElsewhere
  <2> HIDE DEF e
  <2>3. DoneTypes'
    BY <1>t, <2>1, <2>2, ApplyTypes
  <2> QED  BY <1>1, <2>2, <2>3
<1>7. CASE Execute
  <2>1. DoneTypes'
    BY <1>7, <1>t, ApplyTypes DEF Execute, EditTypes
  <2> QED  BY <1>1, <1>7, <2>1 DEF Execute
<1>8. CASE Answered \/ EditFails \/ UNCHANGED vars
  BY <1>1, <1>8, <1>t DEF Answered, EditFails, vars, logVars, DoneTypes
<1>9. CASE GoToWork
  BY <1>9, <1>c, <1>t DEF GoToWork, logView, LogTypes, DoneTypes
<1>10. CASE GoToDashboard
  <2>1. NoLog \in LogList /\ 1 \in PageNumbers(Logs) /\ None \in Filters
    BY NoLogType DEF Filters
  <2> QED  BY <1>10, <1>c, <1>t, <2>1 DEF GoToDashboard, LogTypes, DoneTypes
<1>11. ASSUME NEW l \in Logs, Ends(l) PROVE LogTypes' /\ DoneTypes'
  <2>1. Finish(l) /\ UNCHANGED <<logView, changes>>
    BY <1>11 DEF Ends, Finish
  <2> QED  BY <1>1, <1>t, <2>1, FinishKeepsDone
<1> QED  BY <1>2, <1>3, <1>4, <1>5, <1>6, <1>7, <1>8, <1>9, <1>10, <1>11 DEF Next

(* And those of the edit, the hotels and the rooms.                         *)
LEMMA StockNextTypes ==
    ASSUME TypeInv, [Next]_vars
    PROVE  EditTypes' /\ StockTypes'
<1>t. EditTypes /\ StockTypes /\ DoneTypes /\ ConsoleTypes
  BY DEF TypeInv
<1>n. /\ NoEdit \in [kind : Kinds, target : Targets, filter : Filters, page : PageNumbers(Rooms),
                     stage : {"none", "sent", "done", "refused"}]
      /\ NoEdit.kind = "data"
  <2>1. 1 \in PageNumbers(Rooms) /\ None \in Filters /\ None \in Targets /\ "data" \in Kinds
    BY ListsAssumption, PagesOfPart DEF Filters, Targets, Kinds
  <2> QED  BY <2>1 DEF NoEdit
<1>e. MaxEdits \in Nat /\ edits \in [here : 0 .. MaxEdits, elsewhere : 0 .. MaxEdits]
  BY <1>t, ConsoleAssumption DEF StockTypes
<1>1. CASE UNCHANGED <<stock, edit, edits>> /\ route' \in {"agent", "admin"}
  BY <1>1, <1>t DEF stock, EditTypes, StockTypes
<1>2. CASE edit' = NoEdit /\ UNCHANGED <<stock, route, edits>>
  BY <1>2, <1>n, <1>t DEF stock, EditTypes, StockTypes
<1>3. ASSUME NEW kind \in Kinds, NEW t \in Targets, Submit(kind, t) PROVE EditTypes' /\ StockTypes'
  <2>1. edit' = [kind |-> kind, target |-> t, stage |-> "sent", filter |-> filter, page |-> roomPage]
    BY <1>3 DEF Submit
  <2>2. (kind = "addRoom" => t \in Rooms) /\ (kind = "addHotel" => t \in Hotels)
    BY <1>3 DEF Submit, Offered
  <2>3. EditTypes'
    BY <1>t, <2>1, <2>2 DEF EditTypes, ConsoleTypes
  <2>4. edits' \in [here : 0 .. MaxEdits, elsewhere : 0 .. MaxEdits]
    BY <1>3, <1>e DEF Submit
  <2> QED  BY <1>3, <1>t, <2>3, <2>4 DEF Submit, stock, StockTypes
<1>4. ASSUME NEW kind \in Kinds, NEW t \in Targets, EditElsewhere(kind, t) PROVE EditTypes' /\ StockTypes'
  <2> DEFINE e == [NoEdit EXCEPT !.kind = kind, !.target = t]
  <2>1. e.kind = kind /\ e.target = t
    BY DEF NoEdit
  <2>2. /\ Apply(e) /\ (kind = "addRoom" => t \in Rooms) /\ (kind = "addHotel" => t \in Hotels)
        /\ edit' = edit /\ route' = route
    BY <1>4 DEF EditElsewhere
  <2> HIDE DEF e
  <2>3. hotels' \subseteq Hotels /\ rooms' \subseteq Rooms
    BY <1>t, <2>1, <2>2, ApplyTypes DEF StockTypes
  <2>4. edits' \in [here : 0 .. MaxEdits, elsewhere : 0 .. MaxEdits]
    BY <1>4, <1>e DEF EditElsewhere
  <2> QED  BY <1>t, <2>2, <2>3, <2>4 DEF EditTypes, StockTypes
<1>5. CASE Execute
  <2>1. PICK stage \in {"done", "refused"} : edit' = [edit EXCEPT !.stage = stage]
    BY <1>5 DEF Execute
  <2>2. EditTypes'
    BY <1>t, <2>1 DEF EditTypes
  <2>3. hotels' \subseteq Hotels /\ rooms' \subseteq Rooms
    BY <1>5, <1>t, ApplyTypes DEF Execute, StockTypes, EditTypes
  <2> QED  BY <1>5, <1>t, <2>2, <2>3 DEF Execute, StockTypes
<1>6. CASE Answered \/ EditFails
  BY <1>2, <1>6 DEF Answered, EditFails
<1>7. CASE OnLog \/ UNCHANGED vars \/ \E l \in Logs : Ends(l)
  BY <1>1, <1>7, <1>t DEF OnLog, Ends, vars, StockTypes
<1>8. CASE GoToDashboard \/ GoToWork
  BY <1>1, <1>8 DEF GoToDashboard, GoToWork
<1>9. ASSUME NEW a \in asks, AskStep(a) PROVE EditTypes' /\ StockTypes'
  BY <1>1, <1>9, <1>t DEF AskStep, Read, Arrive, Fail, StockTypes
<1>10. ASSUME NEW f, NEW p, SetControls(f, p) PROVE EditTypes' /\ StockTypes'
  BY <1>1, <1>10, <1>t DEF SetControls, StockTypes
<1> QED  BY <1>3, <1>4, <1>5, <1>6, <1>7, <1>8, <1>9, <1>10 DEF Next

(* Hotels, rooms, edits, requests and what the pages show keep their types, *)
(* the finished consultations are listed once each, and no page is on the   *)
(* screen or asked for that is beyond all there can be, for every set of    *)
(* hotels, rooms and consultations and every page size.                     *)
THEOREM ConsoleTypesHold == Spec => []TypeOK
<1>1. Init => TypeInv
  <2> SUFFICES ASSUME Init PROVE TypeInv  OBVIOUS
  <2>1. /\ 1 \in PageNumbers(Logs) /\ 1 \in PageNumbers(Rooms) /\ None \in Filters /\ None \in Targets
        /\ "data" \in Kinds /\ MaxChanges \in Nat /\ MaxEdits \in Nat
    BY ListsAssumption, ConsoleAssumption, PagesOfPart DEF Filters, Targets, Kinds
  <2>2. LogTypes
    <3>1. /\ inLog = FALSE /\ due = FALSE /\ loading = FALSE /\ logError = FALSE /\ logPage = 1
          /\ logFilter = None /\ logAsks = {} /\ logShown = NoLog /\ changes = 0
      BY DEF Init, LogInit
    <3>2. logAsks \subseteq LogRequest /\ changes \in 0 .. MaxChanges
      BY ONLY <2>1, <3>1
    <3>3. logPage \in PageNumbers(Logs) /\ logFilter \in Filters /\ logShown \in LogList
      BY ONLY <2>1, <3>1, NoLogType
    <3> QED  BY ONLY <3>1, <3>2, <3>3 DEF LogTypes
  <2>3. DoneTypes
    BY DEF Init, LogInit, DoneTypes, IsInjective
  <2>4. ConsoleTypes
    <3>1. NoRooms \in ShownRoomList
      BY <2>1 DEF NoRooms, ShownRoomList, RoomList
    <3> QED  BY <2>1, <3>1 DEF Init, ConsoleTypes
  <2>5. EditTypes /\ StockTypes
    BY <2>1 DEF Init, EditTypes, StockTypes, NoEdit
  <2> QED  BY <2>2, <2>3, <2>4, <2>5 DEF TypeInv
<1>2. TypeInv /\ [Next]_vars => TypeInv'
  <2> SUFFICES ASSUME TypeInv, [Next]_vars PROVE TypeInv'  OBVIOUS
  <2> QED  BY ConsoleStepTypes, LogNextTypes, StockNextTypes DEF TypeInv
<1>3. TypeInv => TypeOK
  BY TypesAreTypes
<1> QED  BY <1>1, <1>2, <1>3, PTL DEF Spec

(* The count of the log's rows is the number of rows that are found, each   *)
(* of them once (the two queries of list have one where).                   *)
LEMMA CountFits ==
    ASSUME DoneTypes, NEW f
    PROVE  /\ Matching(f) \in Seq(Logs) /\ Total(f) = Len(Matching(f)) /\ IsInjective(Matching(f))
           /\ Range(Matching(f)) = {l \in Found(f) : l \in Range(done)}
<1> DEFINE r == Reverse(done)
           found == {l \in Found(f) : l \in Range(done)}
           m == Matching(f)
<1>1. /\ done \in Seq(Logs) /\ Len(done) \in Nat /\ DOMAIN done = 1 .. Len(done)
      /\ \A i, j \in 1 .. Len(done) : done[i] = done[j] => i = j
  BY DEF DoneTypes, IsInjective
<1>2. /\ r \in Seq(Logs) /\ DOMAIN r = 1 .. Len(done)
      /\ \A i \in 1 .. Len(done) : r[i] = done[Len(done) - i + 1] /\ Len(done) - i + 1 \in 1 .. Len(done)
  BY <1>1 DEF Reverse
<1>3. \A i, j \in DOMAIN r : r[i] = r[j] => i = j
  BY <1>1, <1>2
<1>4. \A l : l \in Range(done) <=> \E i \in DOMAIN r : r[i] = l
  <2>1. \A i \in 1 .. Len(done) : r[Len(done) - i + 1] = done[i] /\ Len(done) - i + 1 \in 1 .. Len(done)
    BY <1>1, <1>2
  <2> HIDE DEF r
  <2>2. ASSUME NEW l, NEW i \in DOMAIN done, l = done[i]  PROVE \E j \in DOMAIN r : r[j] = l
    <3>1. Len(done) - i + 1 \in DOMAIN r /\ r[Len(done) - i + 1] = l
      BY <1>1, <1>2, <2>1, <2>2
    <3> QED  BY <3>1
  <2>3. ASSUME NEW l, NEW i \in DOMAIN r, r[i] = l  PROVE \E j \in DOMAIN done : done[j] = l
    <3>1. Len(done) - i + 1 \in DOMAIN done /\ done[Len(done) - i + 1] = l
      BY <1>1, <1>2, <2>3
    <3> QED  BY <3>1
  <2>4. \A l : l \in Range(done) <=> \E i \in DOMAIN done : done[i] = l
    BY DEF Range
  <2> QED  BY <2>2, <2>3, <2>4
<1> HIDE DEF r
<1>5. m = Kept(r, Found(f))
  BY DEF Matching, r
<1>6. m \in Seq(Logs)
  BY <1>2, <1>5, KeptRight
<1>7. PICK at \in [DOMAIN m -> DOMAIN r] :
        /\ \A i, j \in DOMAIN at : i < j => at[i] < at[j]
        /\ \A i \in DOMAIN at : m[i] = r[at[i]] /\ r[at[i]] \in Found(f)
        /\ \A k \in DOMAIN r : r[k] \in Found(f) => \E i \in DOMAIN at : at[i] = k
  <2>1. \E at \in [DOMAIN Kept(r, Found(f)) -> DOMAIN r] :
          /\ \A i, j \in DOMAIN at : i < j => at[i] < at[j]
          /\ \A i \in DOMAIN at : Kept(r, Found(f))[i] = r[at[i]] /\ r[at[i]] \in Found(f)
          /\ \A k \in DOMAIN r : r[k] \in Found(f) => \E i \in DOMAIN at : at[i] = k
    <3>1. r \in Seq(Logs)
      BY <1>2
    <3> QED  BY ONLY <3>1, KeptRight
  <2> QED  BY <1>5, <2>1
<1> HIDE DEF m
<1>8. DOMAIN m = 1 .. Len(m) /\ Len(m) \in Nat /\ DOMAIN at = DOMAIN m
  BY <1>6
<1>9. ASSUME NEW i \in DOMAIN m, NEW j \in DOMAIN m, m[i] = m[j] PROVE i = j
  <2>1. at[i] = at[j] /\ at[i] \in Nat
    BY <1>2, <1>3, <1>7, <1>8, <1>9
  <2>2. ~(i < j) /\ ~(j < i)
    BY <1>7, <1>8, <2>1
  <2> QED  BY <1>8, <2>2
<1>10. \A l : (\E i \in DOMAIN m : m[i] = l) <=> l \in found
  <2>1. ASSUME NEW i \in DOMAIN m PROVE m[i] \in found
    BY <1>4, <1>7, <1>8
  <2>2. ASSUME NEW l \in found PROVE \E i \in DOMAIN m : m[i] = l
    <3>1. PICK k \in DOMAIN r : r[k] = l
      BY <1>4
    <3>2. PICK i \in DOMAIN m : at[i] = k
      BY <1>7, <1>8, <3>1
    <3> QED  BY <1>7, <1>8, <3>1, <3>2
  <2> QED  BY <2>1, <2>2
<1>11. Range(m) = found /\ IsInjective(m)
  BY <1>9, <1>10 DEF Range, IsInjective
<1>12. IsFiniteSet(found)
  BY ListsAssumption, FS_Subset DEF Found
<1> HIDE DEF found
<1>13. m \in Injection(1 .. Len(m), found) /\ m \in Surjection(1 .. Len(m), found)
  <2>1. m \in [1 .. Len(m) -> found]
    BY <1>6, <1>8, <1>10
  <2> QED  BY <1>8, <1>10, <1>11, <2>1 DEF Injection, Surjection
<1>14. Cardinality(1 .. Len(m)) = Cardinality(found) /\ Cardinality(1 .. Len(m)) = Len(m)
  <2>1. IsFiniteSet(1 .. Len(m)) /\ Cardinality(1 .. Len(m)) = Len(m)
    <3>1. Len(m) \in Nat
      BY <1>8
    <3> DEFINE n == Len(m)
    <3> HIDE DEF n
    <3>2. \A k \in Nat : IsFiniteSet(1 .. k) /\ Cardinality(1 .. k) = k
      BY FS_Interval
    <3> QED  BY <3>1, <3>2
  <2>2. Cardinality(1 .. Len(m)) = Cardinality(found)
    BY <1>12, <1>13, FS_Injection
  <2> QED  BY <2>1, <2>2
<1> QED  BY <1>6, <1>11, <1>14 DEF Total, found, m

(* At any moment every finished consultation a filter finds is on one of    *)
(* the pages that the count names, and on no other: what list skips, takes  *)
(* and counts leaves none out and repeats none.                             *)
THEOREM PagesHaveAll ==
    Spec => [](\A f \in Filters : \A l \in {d \in Found(f) : d \in Range(done)} :
                  \E p \in 1 .. PageCount(Total(f)) :
                     /\ l \in Range(PageOf(Matching(f), p))
                     /\ \A r \in 1 .. PageCount(Total(f)) : l \in Range(PageOf(Matching(f), r)) => r = p)
<1> DEFINE All == \A f \in Filters : \A l \in {d \in Found(f) : d \in Range(done)} :
                  \E p \in 1 .. PageCount(Total(f)) :
                     /\ l \in Range(PageOf(Matching(f), p))
                     /\ \A r \in 1 .. PageCount(Total(f)) : l \in Range(PageOf(Matching(f), r)) => r = p
<1>1. TypeOK => All
  <2> SUFFICES ASSUME TypeOK, NEW f \in Filters, NEW l \in Found(f), l \in Range(done)
      PROVE  \E p \in 1 .. PageCount(Total(f)) :
                /\ l \in Range(PageOf(Matching(f), p))
                /\ \A r \in 1 .. PageCount(Total(f)) : l \in Range(PageOf(Matching(f), r)) => r = p
    OBVIOUS
  <2> DEFINE m == Matching(f)
  <2>1. /\ m \in Seq(Logs) /\ Total(f) = Len(m) /\ IsInjective(m) /\ l \in Range(m) /\ Len(m) \in Nat
        /\ DOMAIN m = 1 .. Len(m)
    BY CountFits DEF DoneTypes, TypeOK, LogTypeOK
  <2> HIDE DEF m
  <2>2. PICK k \in 1 .. Len(m) : m[k] = l
    BY <2>1 DEF Range
  <2>3. PICK p \in 1 .. PageCount(Len(m)) :
           /\ (p - 1) * PageSize < k /\ k <= p * PageSize
           /\ \A r \in 1 .. PageCount(Len(m)) : (r - 1) * PageSize < k /\ k <= r * PageSize => r = p
    BY <2>1, OnePage
  <2>4. \A r : DOMAIN PageOf(m, r) = 1 .. Len(PageOf(m, r)) \/ ~(PageOf(m, r) \in Seq(Logs))
    OBVIOUS
  <2>5. l \in Range(PageOf(m, p))
    <3>1. p \in Nat \ {0}
      OBVIOUS
    <3>2. /\ k - (p - 1) * PageSize \in 1 .. Len(PageOf(m, p)) /\ PageOf(m, p)[k - (p - 1) * PageSize] = m[k]
          /\ PageOf(m, p) \in Seq(Logs)
      BY <2>1, <2>3, <3>1, PageOfRight
    <3> QED  BY <2>2, <2>4, <3>2 DEF Range
  <2>6. ASSUME NEW r \in 1 .. PageCount(Len(m)), l \in Range(PageOf(m, r)) PROVE r = p
    <3>1. r \in Nat \ {0}
      OBVIOUS
    <3>2. PageOf(m, r) \in Seq(Logs)
      BY <2>1, <3>1, PageOfRight
    <3>3. PICK i \in 1 .. Len(PageOf(m, r)) : PageOf(m, r)[i] = l
      BY <2>4, <2>6, <3>2 DEF Range
    <3>4. (r - 1) * PageSize + i \in 1 .. Len(m) /\ (r - 1) * PageSize + i <= r * PageSize
          /\ m[(r - 1) * PageSize + i] = l
      BY <2>1, <3>1, <3>3, PageOfRight
    <3>5. (r - 1) * PageSize + i = k
      BY <2>1, <2>2, <3>4 DEF IsInjective
    <3>6. (r - 1) * PageSize \in Nat /\ i \in Nat /\ i >= 1
      <4>1. r - 1 \in Nat /\ PageSize \in Nat /\ \A a, b \in Nat : a * b \in Nat
        BY <3>1, ListsAssumption
      <4>2. Len(PageOf(m, r)) \in Nat
        BY <3>2
      <4> QED  BY <4>1, <4>2
    <3>7. (r - 1) * PageSize < k /\ k <= r * PageSize
      BY <3>4, <3>5, <3>6
    <3> QED  BY <2>3, <3>7
  <2> QED  BY <2>1, <2>5, <2>6 DEF m
<1> HIDE DEF All
<1>2. Spec => []All
  BY <1>1, ConsoleTypesHold, PTL
<1> QED  BY <1>2 DEF All
=============================================================================
