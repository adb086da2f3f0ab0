---------------------------- MODULE ReportsProofs ----------------------------
(***************************************************************************)
(* The reports, for any ledger and any requests beside a report: it lists  *)
(* each of its rows once and under its category, converts the past with    *)
(* the rates of its time, and its parts add up to the whole.  The lemmas   *)
(* about numbers are those of CommandsProofs.                              *)
(***************************************************************************)
EXTENDS CommandsProofs, Reports, FiniteSetTheorems

-----------------------------------------------------------------------------
(* A finite set in an order.                                               *)

Orders(R, S) ==
    /\ \A i \in S : <<i, i>> \notin R
    /\ \A i, j \in S : i = j \/ <<i, j>> \in R \/ <<j, i>> \in R
    /\ \A i, j, k \in S : <<i, j>> \in R /\ <<j, k>> \in R => <<i, k>> \in R

Rank(R, S, i) == Cardinality({j \in S : <<j, i>> \in R})

\* s holds each element of S, in the order R.
Lists(s, S, R) ==
    /\ s \in Seq(S)
    /\ \A k, m \in 1..Len(s) : k < m => <<s[k], s[m]>> \in R
    /\ \A i \in S : \E k \in 1..Len(s) : s[k] = i

\* An element has fewer before it than those behind it have.
LEMMA RanksGrow ==
  ASSUME NEW S, IsFiniteSet(S), NEW R, Orders(R, S)
  PROVE  /\ \A i \in S : Rank(R, S, i) \in 0..Cardinality(S) - 1
         /\ \A i, j \in S : <<i, j>> \in R => Rank(R, S, i) < Rank(R, S, j)
<1> DEFINE Before(i) == {j \in S : <<j, i>> \in R}
<1>1. \A i \in S : IsFiniteSet(Before(i)) /\ Cardinality(Before(i)) \in Nat
  BY FS_Subset, FS_CardinalityType
<1>2. \A i \in S : Cardinality(Before(i)) < Cardinality(S)
  <2> SUFFICES ASSUME NEW i \in S
               PROVE  Cardinality(Before(i)) < Cardinality(S)
    OBVIOUS
  <2>1. Before(i) \in SUBSET S /\ Before(i) # S
    BY DEF Orders
  <2>2. Cardinality(S) \in Nat
    BY FS_CardinalityType
  <2> HIDE DEF Before
  <2>3. Cardinality(Before(i)) <= Cardinality(S) /\ Cardinality(S) # Cardinality(Before(i))
    BY <2>1, FS_Subset
  <2>. QED  BY <1>1, <2>2, <2>3
<1>3. ASSUME NEW i \in S, NEW j \in S, <<i, j>> \in R
      PROVE  Cardinality(Before(i)) < Cardinality(Before(j))
  <2>1. Before(i) \in SUBSET Before(j)
    BY <1>3 DEF Orders
  <2>2. i \in Before(j) /\ i \notin Before(i)
    BY <1>3 DEF Orders
  <2> HIDE DEF Before
  <2>3. Cardinality(Before(i)) <= Cardinality(Before(j))
        /\ Cardinality(Before(j)) # Cardinality(Before(i))
    BY <1>1, <2>1, <2>2, FS_Subset
  <2>. QED  BY <1>1, <2>3
<1>4. Cardinality(S) \in Nat
  BY FS_CardinalityType
<1>5. \A i \in S : Rank(R, S, i) = Cardinality(Before(i))
  BY DEF Rank
<1> HIDE DEF Before
<1>. QED  BY <1>1, <1>2, <1>3, <1>4, <1>5

\* There is one element of each rank.
LEMMA RanksAreTaken ==
  ASSUME NEW S, IsFiniteSet(S), NEW R, Orders(R, S)
  PROVE  \A k \in 1..Cardinality(S) : \E i \in S : Rank(R, S, i) = k - 1
<1> DEFINE T == 0..Cardinality(S) - 1
           r == [i \in S |-> Rank(R, S, i)]
<1>1. Cardinality(S) \in Nat
  BY FS_CardinalityType
<1>2. IsFiniteSet(T) /\ Cardinality(T) = Cardinality(S)
  BY <1>1, FS_Interval
<1>3. r \in [S -> T]
  BY RanksGrow
<1>4. \A i, j \in S : r[i] = r[j] => i = j
  <2> SUFFICES ASSUME NEW i \in S, NEW j \in S, i # j
               PROVE  Rank(R, S, i) # Rank(R, S, j)
    OBVIOUS
  <2>1. <<i, j>> \in R \/ <<j, i>> \in R
    BY DEF Orders
  <2>2. Rank(R, S, i) < Rank(R, S, j) \/ Rank(R, S, j) < Rank(R, S, i)
    BY <2>1, RanksGrow
  <2>3. Rank(R, S, i) \in Int /\ Rank(R, S, j) \in Int
    BY <1>1, RanksGrow
  <2>. QED  BY <2>2, <2>3
<1>5. r \in Injection(S, T)
  BY <1>3, <1>4 DEF Injection, IsInjective
<1> HIDE DEF r, T
<1>6. r \in Surjection(S, T)
  BY <1>2, <1>5, FS_Injection
<1>7. \A t \in T : \E i \in S : r[i] = t
  BY <1>6 DEF Surjection
<1> USE DEF r, T
<1>. QED  BY <1>1, <1>7

\* The list of the ranks is in order and holds every element.
LEMMA ListInOrder ==
  ASSUME NEW S, IsFiniteSet(S), NEW R, Orders(R, S),
         NEW s \in [1..Cardinality(S) -> S],
         \A k \in 1..Cardinality(S) : Rank(R, S, s[k]) = k - 1
  PROVE  Lists(s, S, R)
<1>1. Cardinality(S) \in Nat
  BY FS_CardinalityType
<1>2. s \in Seq(S) /\ Len(s) = Cardinality(S)
  BY <1>1
<1>3. ASSUME NEW k \in 1..Cardinality(S), NEW m \in 1..Cardinality(S), k < m
      PROVE  <<s[k], s[m]>> \in R
  <2>1. Rank(R, S, s[k]) < Rank(R, S, s[m])
    BY <1>1, <1>3
  <2>2. ~(Rank(R, S, s[m]) < Rank(R, S, s[k])) /\ s[k] # s[m]
    BY <1>1, <1>3
  <2>3. s[k] \in S /\ s[m] \in S
    OBVIOUS
  <2>4. <<s[m], s[k]>> \notin R
    BY <2>2, <2>3, RanksGrow
  <2>. QED  BY <2>2, <2>3, <2>4 DEF Orders
<1>4. ASSUME NEW i \in S
      PROVE  \E k \in 1..Cardinality(S) : s[k] = i
  <2> DEFINE k == Rank(R, S, i) + 1
  <2>1. k \in 1..Cardinality(S) /\ k - 1 = Rank(R, S, i)
    BY <1>1, RanksGrow
  <2> HIDE DEF k
  <2>2. Rank(R, S, s[k]) = Rank(R, S, i) /\ s[k] \in S
    BY <2>1
  <2>3. s[k] = i
    <3>1. Rank(R, S, i) \in Int
      BY <1>1, RanksGrow
    <3>2. ~(Rank(R, S, s[k]) < Rank(R, S, i)) /\ ~(Rank(R, S, i) < Rank(R, S, s[k]))
      BY <2>2, <3>1
    <3>3. <<s[k], i>> \notin R /\ <<i, s[k]>> \notin R
      BY <2>2, <3>2, RanksGrow
    <3>. QED  BY <2>2, <3>3 DEF Orders
  <2>. QED  BY <2>1, <2>3
<1>. QED  BY <1>2, <1>3, <1>4 DEF Lists

\* A set that is not empty has a last element.
LEMMA LastOne ==
  ASSUME NEW S, IsFiniteSet(S), S # {}, NEW R, Orders(R, S)
  PROVE  \E i \in S : \A j \in S : j = i \/ <<j, i>> \in R
<1>1. Cardinality(S) \in Nat \ {0}
  BY FS_CardinalityType, FS_EmptySet
<1>2. PICK i \in S : Rank(R, S, i) = Cardinality(S) - 1
  BY <1>1, RanksAreTaken
<1>3. \A j \in S : ~(Rank(R, S, i) < Rank(R, S, j))
  BY <1>1, <1>2, RanksGrow
<1>4. \A j \in S : <<i, j>> \notin R
  BY <1>3, RanksGrow
<1>. QED  BY <1>4 DEF Orders

-----------------------------------------------------------------------------
(* Rows in the order of their times.                                       *)

\* The rows of a set are listed once each, in the order of time and id.
LEMMA AscendingOK ==
  ASSUME Stamped(rows), NEW S \in SUBSET Ids
  PROVE  /\ Ascending(S) \in Seq(S)
         /\ \A k, m \in 1..Len(Ascending(S)) :
               k < m => Precedes(Ascending(S)[k], Ascending(S)[m])
         /\ \A i \in S : \E k \in 1..Len(Ascending(S)) : Ascending(S)[k] = i
<1> DEFINE R == {p \in S \X S : Precedes(p[1], p[2])}
           when(k) == CHOOSE i \in S : Cardinality({j \in S : Precedes(j, i)}) = k - 1
           s == [k \in 1..Cardinality(S) |-> when(k)]
<1>1. Len(rows) \in Nat /\ S \subseteq Nat /\ \A i \in S : rows[i].time \in Int
  BY DEF Stamped, Ids
<1>2. IsFiniteSet(S)
  <2>1. S \in SUBSET (1..Len(rows)) /\ IsFiniteSet(1..Len(rows))
    BY <1>1, FS_Interval DEF Ids
  <2>. QED  BY ONLY <2>1, FS_Subset
<1>3. \A i, j \in S : <<i, j>> \in R <=> Precedes(i, j)
  OBVIOUS
<1>4. Orders(R, S)
  <2> HIDE DEF R
  <2>1. \A i \in S : <<i, i>> \notin R
    BY <1>1, <1>3 DEF Precedes
  <2>2. \A i, j \in S : i = j \/ Precedes(i, j) \/ Precedes(j, i)
    BY <1>1 DEF Precedes
  <2>3. \A i, j, k \in S : Precedes(i, j) /\ Precedes(j, k) => Precedes(i, k)
    BY <1>1 DEF Precedes
  <2>. QED  BY <1>3, <2>1, <2>2, <2>3 DEF Orders
<1>5. \A i \in S : Rank(R, S, i) = Cardinality({j \in S : Precedes(j, i)})
  <2>1. \A i \in S : {j \in S : <<j, i>> \in R} = {j \in S : Precedes(j, i)}
    OBVIOUS
  <2>. QED  BY <2>1 DEF Rank
<1>6. Cardinality(S) \in Nat
  BY <1>2, FS_CardinalityType
<1>7. \A k \in 1..Cardinality(S) :
         when(k) \in S /\ Cardinality({j \in S : Precedes(j, when(k))}) = k - 1
  <2> SUFFICES ASSUME NEW k \in 1..Cardinality(S)
               PROVE  when(k) \in S /\ Cardinality({j \in S : Precedes(j, when(k))}) = k - 1
    OBVIOUS
  <2>1. PICK i \in S : Rank(R, S, i) = k - 1
    BY <1>2, <1>4, RanksAreTaken
  <2>2. Cardinality({j \in S : Precedes(j, i)}) = k - 1
    BY <1>5, <2>1
  <2>. QED  BY <2>2
<1>8. s = Ascending(S)
  BY DEF Ascending, Listed
<1> HIDE DEF R, when
<1>9. \A k \in 1..Cardinality(S) : Rank(R, S, s[k]) = k - 1
  BY <1>5, <1>7
<1>13. s \in [1..Cardinality(S) -> S]
  BY <1>7
<1> HIDE DEF s
<1>10. Lists(s, S, R)
  BY ONLY <1>2, <1>4, <1>13, <1>9, ListInOrder, Zenon
<1>11. \A k \in 1..Len(s) : s[k] \in S
  BY <1>10 DEF Lists
<1>12. \A k, m \in 1..Len(s) : k < m => Precedes(s[k], s[m])
  BY <1>3, <1>10, <1>11 DEF Lists
<1>. QED  BY <1>8, <1>10, <1>12 DEF Lists

\* A page is cut from the rows below the cursor, the newest first.
LEMMA DescendingOK ==
  ASSUME Stamped(rows), NEW S \in SUBSET Ids
  PROVE  /\ Reverse(Ascending(S)) \in Seq(S)
         /\ \A k, m \in 1..Len(Reverse(Ascending(S))) :
               k < m => Precedes(Reverse(Ascending(S))[m], Reverse(Ascending(S))[k])
         /\ \A i \in S : \E k \in 1..Len(Reverse(Ascending(S))) :
               Reverse(Ascending(S))[k] = i
<1> DEFINE s == Ascending(S)
           d == Reverse(s)
           n == Len(s)
<1>1. /\ s \in Seq(S)
      /\ \A k, m \in 1..n : k < m => Precedes(s[k], s[m])
      /\ \A i \in S : \E k \in 1..n : s[k] = i
  BY AscendingOK
<1> HIDE DEF s
<1>2. n \in Nat /\ \A k \in 1..n : s[k] \in S
  BY <1>1
<1>3. d = [k \in 1..n |-> s[(n - k) + 1]]
  BY DEF Reverse
<1>4. d \in Seq(S) /\ Len(d) = n
  BY <1>2, <1>3
<1>5. \A k \in 1..n : d[k] = s[(n - k) + 1] /\ (n - k) + 1 \in 1..n
  BY <1>2, <1>3
<1>6. \A k, m \in 1..n : k < m => Precedes(d[m], d[k])
  <2> SUFFICES ASSUME NEW k \in 1..n, NEW m \in 1..n, k < m
               PROVE  Precedes(d[m], d[k])
    OBVIOUS
  <2>1. (n - m) + 1 < (n - k) + 1
    BY <1>2
  <2>2. Precedes(s[(n - m) + 1], s[(n - k) + 1])
    BY <1>1, <1>5, <2>1
  <2>. QED  BY <1>5, <2>2
<1>7. \A i \in S : \E k \in 1..n : d[k] = i
  <2> SUFFICES ASSUME NEW i \in S
               PROVE  \E k \in 1..n : d[k] = i
    OBVIOUS
  <2>1. PICK m \in 1..n : s[m] = i
    BY <1>1
  <2>2. (n - m) + 1 \in 1..n /\ (n - ((n - m) + 1)) + 1 = m
    BY <1>2
  <2>3. d[(n - m) + 1] = i
    BY <1>3, <2>1, <2>2
  <2>. QED  BY <2>2, <2>3
<1>. QED  BY <1>4, <1>6, <1>7 DEF s

-----------------------------------------------------------------------------
(* The state of a report.                                                  *)

IsReport ==
    report = [kind |-> report.kind, step |-> report.step, first |-> report.first,
              last |-> report.last, from |-> report.from, to |-> report.to,
              file |-> report.file, points |-> report.points, tree |-> report.tree,
              cache |-> report.cache, lines |-> report.lines, values |-> report.values,
              dimension |-> report.dimension, steady |-> report.steady, ever |-> report.ever]

ReportTypeOK ==
    /\ Stamped(rows) /\ Stamped(rates)
    /\ \A i \in Ids : DOMAIN rows[i] = Columns
    /\ IsReport
    /\ report.first \in Int /\ report.last \in Int
    /\ report.from \in Int /\ report.to \in Int
    /\ report.file \in Seq(Ids)

\* An amount as its column keeps it.
InColumn(a) == a \in Int /\ FitsAmount(a)

\* What a page lists was seen while the report ran, each row once.
Listing ==
    /\ Paged(report.kind) => Strictly(report.file)
    /\ \A k \in DOMAIN report.file : report.file[k] \in report.ever
    /\ report.step # "idle" => Within(report.from, report.to) \subseteq report.ever

\* The report has listed i.
Has(i) == \E k \in DOMAIN report.file : report.file[k] = i

\* A row that stays is listed already or below the cursor, and listed in the end.
Progress ==
    /\ report.steady \subseteq Within(report.from, report.to)
    /\ report.step = "rows" /\ Paged(report.kind) =>
         \A i \in report.steady :
            Has(i) \/ report.file = <<>> \/ Precedes(i, Last(report.file))
    /\ report.step \notin {"idle", "rows", "refused"} => \A i \in report.steady : Has(i)

PagesInv == ReportTypeOK /\ Listing /\ Progress

LEMMA PagesInit == ReportInit => PagesInv
<1> SUFFICES ASSUME ReportInit PROVE PagesInv
  OBVIOUS
<1>1. ReportTypeOK
  <2>1. Ids = DOMAIN rows
    BY TimeAssumption DEF ReportInit, Stamped, Ids
  <2>. QED  BY <2>1, TimeAssumption DEF ReportInit, Quiet, ReportTypeOK, IsReport
<1>2. Listing
  BY DEF ReportInit, Quiet, Listing, Strictly
<1>3. Progress
  BY DEF ReportInit, Quiet, Progress
<1>. QED  BY <1>1, <1>2, <1>3 DEF PagesInv

\* A row at the end of a log leaves the others as they are.
LEMMA AppendStamped ==
  ASSUME NEW log, Stamped(log), NEW x, x.time \in Int
  PROVE  /\ Stamped(Append(log, x))
         /\ Len(log) \in Nat /\ DOMAIN log = 1..Len(log)
         /\ Len(Append(log, x)) = Len(log) + 1
         /\ \A i \in 1..Len(log) : Append(log, x)[i] = log[i]
         /\ Append(log, x)[Len(log) + 1] = x
<1> DEFINE A == ToSet(log)
           B == A \cup {x}
           longer == Append(log, x)
<1>1. log \in Seq(A) /\ \A i \in DOMAIN log : log[i].time \in Int
  BY DEF Stamped
<1>2. Len(log) \in Nat /\ DOMAIN log = 1..Len(log) /\ \A i \in 1..Len(log) : log[i] \in A
  BY <1>1
<1> HIDE DEF A
<1>3. log \in Seq(B)
  BY <1>1, <1>2
<1>4. /\ longer \in Seq(B) /\ Len(longer) = Len(log) + 1
      /\ \A i \in 1..Len(log) : longer[i] = log[i]
      /\ longer[Len(log) + 1] = x
  BY <1>3
<1>5. DOMAIN longer = 1..Len(log) + 1
  BY <1>2, <1>4
<1> HIDE DEF longer
<1>6. longer \in Seq(ToSet(longer))
  BY <1>4, <1>5 DEF ToSet
<1>7. \A i \in DOMAIN longer : longer[i].time \in Int
  BY <1>1, <1>2, <1>4, <1>5
<1>. QED  BY <1>2, <1>4, <1>6, <1>7 DEF Stamped, longer

-----------------------------------------------------------------------------
(* The requests of others.                                                 *)

\* What another request may do to the rows: add some, delete some.  Those it
\* adds have an amount of the column, and no category or one that is there.
Evolves(removed, added) ==
    /\ Stamped(rows') /\ Len(rows) <= Len(rows')
    /\ \A i \in Ids :
         /\ rows'[i].time = rows[i].time /\ rows'[i].category = rows[i].category
         /\ rows'[i].amount = rows[i].amount
         /\ rows'[i].live => rows[i].live
         /\ rows[i].live /\ i \notin removed => rows'[i].live
    /\ \A i \in Ids' \ Ids : KnownCategory(rows'[i].category) /\ InColumn(rows'[i].amount)
    /\ \A i \in Ids' : DOMAIN rows'[i] = Columns
    /\ Ids' \ Ids \subseteq added
    /\ report' = Witnessed(removed, added) /\ categories' = categories

LEMMA WitnessedFields ==
  ASSUME IsReport, NEW removed, NEW added, report' = Witnessed(removed, added)
  PROVE  /\ IsReport'
         /\ report'.kind = report.kind /\ report'.step = report.step
         /\ report'.first = report.first /\ report'.last = report.last
         /\ report'.from = report.from /\ report'.to = report.to
         /\ report'.file = report.file /\ report'.points = report.points
         /\ report'.tree = report.tree /\ report'.cache = report.cache
         /\ report'.lines = report.lines /\ report'.values = report.values
         /\ report'.dimension = report.dimension
         /\ report'.steady = report.steady \ removed
         /\ report'.ever = report.ever \cup added
  BY DEF IsReport, Witnessed

LEMMA EvolvesOK ==
  ASSUME PagesInv, NEW removed, NEW added, Evolves(removed, added), Stamped(rates')
  PROVE  PagesInv'
<1>1. /\ IsReport'
      /\ report'.kind = report.kind /\ report'.step = report.step
      /\ report'.first = report.first /\ report'.last = report.last
      /\ report'.from = report.from /\ report'.to = report.to
      /\ report'.file = report.file
      /\ report'.steady = report.steady \ removed
      /\ report'.ever = report.ever \cup added
  BY WitnessedFields DEF PagesInv, ReportTypeOK, Evolves
<1>2. /\ Len(rows) \in Nat /\ Len(rows') \in Nat
      /\ Ids = 1..Len(rows) /\ Ids' = 1..Len(rows') /\ Ids \subseteq Ids'
      /\ \A i \in Ids : rows[i].time \in Int /\ rows'[i].time = rows[i].time
  BY DEF PagesInv, ReportTypeOK, Stamped, Evolves, Ids
<1>3. /\ report.file \in Seq(Ids)
      /\ DOMAIN report.file = 1..Len(report.file) /\ Len(report.file) \in Nat
      /\ \A k \in DOMAIN report.file : report.file[k] \in Ids
  BY DEF PagesInv, ReportTypeOK
<1>4. \A i, j \in Ids : Precedes(i, j)' <=> Precedes(i, j)
  BY <1>2 DEF Precedes
<1>5. Within(report.from, report.to)' = {i \in Ids' : rows'[i].live
                                            /\ rows'[i].time >= report.from
                                            /\ rows'[i].time < report.to}
  BY <1>1 DEF Within
<1>6. ReportTypeOK'
  BY <1>1, <1>2, <1>3 DEF PagesInv, ReportTypeOK, Evolves
<1>7. Listing'
  <2>1. Paged(report'.kind) => Strictly(report.file)'
    <3> SUFFICES ASSUME Paged(report.kind)
                 PROVE  Strictly(report.file)'
      BY <1>1
    <3>1. \A k \in 2..Len(report.file) : Precedes(report.file[k], report.file[k - 1])
      BY DEF PagesInv, Listing, Strictly
    <3>2. \A k \in 2..Len(report.file) :
             Precedes(report.file[k], report.file[k - 1])'
             <=> Precedes(report.file[k], report.file[k - 1])
      <4> SUFFICES ASSUME NEW k \in 2..Len(report.file)
                   PROVE  Precedes(report.file[k], report.file[k - 1])'
                          <=> Precedes(report.file[k], report.file[k - 1])
        BY <1>1
      <4>1. report.file[k] \in Ids /\ report.file[k - 1] \in Ids
        BY <1>3
      <4>. QED  BY <1>1, <1>2, <4>1 DEF Precedes
    <3>. QED  BY <1>1, <3>1, <3>2 DEF Strictly
  <2>2. \A k \in DOMAIN report'.file : report'.file[k] \in report'.ever
    BY <1>1 DEF PagesInv, Listing
  <2>3. report'.step # "idle" => Within(report.from, report.to)' \subseteq report'.ever
    <3> SUFFICES ASSUME report.step # "idle", NEW i \in Within(report.from, report.to)'
                 PROVE  i \in report'.ever
      BY <1>1
    <3>1. i \in Ids => i \in Within(report.from, report.to)
      BY <1>2, <1>5 DEF Within, Evolves
    <3>2. i \notin Ids => i \in added
      BY <1>5 DEF Evolves
    <3>. QED  BY <1>1, <3>1, <3>2 DEF PagesInv, Listing
  <2>. QED  BY <1>1, <2>1, <2>2, <2>3 DEF Listing
<1>8. Progress'
  <2>1. report'.steady \subseteq Within(report.from, report.to)'
    <3> SUFFICES ASSUME NEW i \in report.steady, i \notin removed
                 PROVE  i \in Within(report.from, report.to)'
      BY <1>1
    <3>1. i \in Within(report.from, report.to)
      BY DEF PagesInv, Progress
    <3>. QED  BY <1>2, <1>5, <3>1 DEF Within, Evolves
  <2>2. \A i : Has(i)' <=> Has(i)
    BY <1>1 DEF Has
  <2>3. report'.step = "rows" /\ Paged(report'.kind) =>
          \A i \in report'.steady :
             Has(i)' \/ report'.file = <<>> \/ Precedes(i, Last(report.file))'
    <3> SUFFICES ASSUME report.step = "rows", Paged(report.kind),
                        NEW i \in report.steady, ~Has(i), report.file # <<>>
                 PROVE  Precedes(i, Last(report.file))'
      BY <1>1, <2>2
    <3>1. Precedes(i, Last(report.file))
      BY DEF PagesInv, Progress
    <3>2. i \in Ids /\ Last(report.file) \in Ids
      <4>1. i \in Ids
        BY DEF PagesInv, Progress, Within
      <4>. QED  BY <1>3, <4>1 DEF Last
    <3>3. Last(report.file)' = Last(report.file)
      BY <1>1 DEF Last
    <3>. QED  BY <1>2, <3>1, <3>2, <3>3 DEF Precedes
  <2>4. report'.step \notin {"idle", "rows", "refused"} =>
          \A i \in report'.steady : Has(i)'
    BY <1>1, <2>2 DEF PagesInv, Progress
  <2>. QED  BY <1>1, <2>1, <2>3, <2>4 DEF Progress
<1>. QED  BY <1>6, <1>7, <1>8 DEF PagesInv

LEMMA PostedOK ==
  ASSUME NEW d, NEW group
  PROVE  /\ Posted(d, group).time = d.time /\ Posted(d, group).category = d.category
         /\ Posted(d, group).amount = d.amount /\ DOMAIN Posted(d, group) = Columns
  BY DEF Posted, Columns

LEMMA PostEvolves ==
  ASSUME PagesInv, Post
  PROVE  Evolves({}, {Len(rows) + 1}) /\ rates' = rates
<1>1. PICK d \in Drafts : /\ KnownCategory(d.category)
                          /\ rows' = Append(rows, Posted(d, None))
                          /\ report' = Witnessed({}, {Len(rows) + 1})
  BY DEF Post
<1>2. /\ Posted(d, None).time \in Int /\ DOMAIN Posted(d, None) = Columns
      /\ Posted(d, None).category = d.category /\ InColumn(Posted(d, None).amount)
  BY TimeAssumption, ColumnsAssumption, PostedOK DEF InColumn
<1>3. /\ Stamped(rows') /\ Len(rows) \in Nat /\ Len(rows') = Len(rows) + 1
      /\ \A i \in 1..Len(rows) : rows'[i] = rows[i]
      /\ rows'[Len(rows) + 1] = Posted(d, None)
  BY <1>1, <1>2, AppendStamped DEF PagesInv, ReportTypeOK
<1>4. \A i \in Ids' : DOMAIN rows'[i] = Columns
  <2>1. /\ \A i \in Ids' : i \in Ids \/ i = Len(rows) + 1
        /\ \A i \in Ids : rows'[i] = rows[i] /\ DOMAIN rows[i] = Columns
    BY <1>3 DEF PagesInv, ReportTypeOK, Ids
  <2>. QED  BY <1>2, <1>3, <2>1
<1>5. \A i \in Ids' \ Ids : KnownCategory(rows'[i].category) /\ InColumn(rows'[i].amount)
  <2>1. \A i \in Ids' \ Ids : i = Len(rows) + 1
    BY <1>3 DEF Ids
  <2>. QED  BY <1>1, <1>2, <1>3, <2>1
<1>. QED  BY <1>1, <1>3, <1>4, <1>5 DEF Evolves, Ids, Post

\* Deleting rows leaves their times.
LEMMA RemovedOK ==
  ASSUME Stamped(rows), \A i \in Ids : DOMAIN rows[i] = Columns, NEW ids
  PROVE  /\ Stamped(Removed(ids)) /\ Len(Removed(ids)) = Len(rows)
         /\ Len(rows) \in Nat
         /\ \A i \in Ids : /\ DOMAIN Removed(ids)[i] = Columns
                           /\ Removed(ids)[i].time = rows[i].time
                           /\ Removed(ids)[i].category = rows[i].category
                           /\ Removed(ids)[i].amount = rows[i].amount
                           /\ Removed(ids)[i].live => rows[i].live
                           /\ i \notin ids => Removed(ids)[i] = rows[i]
<1> DEFINE r == Removed(ids)
<1>1. /\ rows \in Seq(ToSet(rows)) /\ Len(rows) \in Nat
      /\ Ids = DOMAIN rows /\ Ids = 1..Len(rows)
  BY DEF Stamped, Ids
<1>2. /\ r = [i \in Ids |-> r[i]]
      /\ \A i \in Ids : r[i] = IF i \in ids THEN [rows[i] EXCEPT !.live = FALSE] ELSE rows[i]
  BY DEF Removed
<1> HIDE DEF r
<1>3. DOMAIN r = 1..Len(rows)
  BY <1>1, <1>2
<1>4. r \in Seq(ToSet(r)) /\ Len(r) = Len(rows)
  <2>1. \A i \in 1..Len(rows) : r[i] \in ToSet(r)
    BY <1>3 DEF ToSet
  <2>. QED  BY <1>1, <1>2, <2>1
<1>5. \A i \in Ids : rows[i].time \in Int
  BY <1>1 DEF Stamped
<1>6. \A i \in Ids : /\ DOMAIN r[i] = Columns
                     /\ r[i].time = rows[i].time /\ r[i].category = rows[i].category
                     /\ r[i].amount = rows[i].amount
                     /\ r[i].live => rows[i].live
                     /\ i \notin ids => r[i] = rows[i]
  BY <1>2 DEF Columns
<1>7. Stamped(r)
  BY <1>1, <1>3, <1>4, <1>5, <1>6 DEF Stamped
<1>. QED  BY <1>1, <1>4, <1>6, <1>7 DEF r

LEMMA DeleteEvolves ==
  ASSUME PagesInv, Delete
  PROVE  \E ids : Evolves(ids, {}) /\ rates' = rates
<1>1. PICK i \in Ids : /\ rows' = Removed(MemberIds(i))
                       /\ report' = Witnessed(MemberIds(i), {})
  BY DEF Delete
<1> DEFINE ids == MemberIds(i)
<1> HIDE DEF ids
<1>2. rows' = Removed(ids) /\ report' = Witnessed(ids, {})
  BY <1>1 DEF ids
<1>3. /\ Stamped(rows') /\ Len(rows') = Len(rows) /\ Len(rows) \in Nat
      /\ \A j \in Ids : /\ DOMAIN rows'[j] = Columns
                        /\ rows'[j].time = rows[j].time
                        /\ rows'[j].category = rows[j].category
                        /\ rows'[j].amount = rows[j].amount
                        /\ rows'[j].live => rows[j].live
                        /\ j \notin ids => rows'[j] = rows[j]
  BY <1>2, RemovedOK DEF PagesInv, ReportTypeOK
<1>4. Evolves(ids, {})
  BY <1>2, <1>3 DEF Evolves, Ids, Delete
<1>. QED  BY <1>4 DEF Delete

LEMMA CorrectEvolves ==
  ASSUME PagesInv, Correct
  PROVE  \E ids, new : Evolves(ids, new) /\ rates' = rates
<1>1. PICK i \in Ids, d \in Drafts :
         /\ KnownCategory(d.category)
         /\ rows' = Append(Removed({i}), Posted(d, None))
         /\ report' = Witnessed({i}, {Len(rows) + 1})
  BY DEF Correct
<1> DEFINE kept == Removed({i})
<1>2. /\ Stamped(kept) /\ Len(kept) = Len(rows) /\ Len(rows) \in Nat
      /\ \A j \in Ids : /\ DOMAIN kept[j] = Columns
                        /\ kept[j].time = rows[j].time
                        /\ kept[j].category = rows[j].category
                        /\ kept[j].amount = rows[j].amount
                        /\ kept[j].live => rows[j].live
                        /\ j \notin {i} => kept[j] = rows[j]
  BY RemovedOK DEF PagesInv, ReportTypeOK
<1> HIDE DEF kept
<1>3. /\ Posted(d, None).time \in Int /\ DOMAIN Posted(d, None) = Columns
      /\ Posted(d, None).category = d.category /\ InColumn(Posted(d, None).amount)
  BY TimeAssumption, ColumnsAssumption, PostedOK DEF InColumn
<1>4. rows' = Append(kept, Posted(d, None))
  BY <1>1 DEF kept
<1>5. /\ Stamped(rows') /\ Len(rows') = Len(kept) + 1
      /\ \A j \in 1..Len(kept) : rows'[j] = kept[j]
      /\ rows'[Len(kept) + 1] = Posted(d, None)
  BY <1>2, <1>3, <1>4, AppendStamped
<1>6. /\ Ids = 1..Len(rows) /\ Ids' = 1..Len(rows') /\ Len(rows') = Len(rows) + 1
      /\ Ids' \ Ids \subseteq {Len(rows) + 1}
      /\ \A j \in Ids' : j \in Ids \/ j = Len(rows) + 1
  BY <1>2, <1>5 DEF Ids
<1>7. \A j \in Ids : rows'[j] = kept[j]
  BY <1>2, <1>5, <1>6
<1>8. \A j \in Ids' : DOMAIN rows'[j] = Columns
  BY <1>2, <1>3, <1>5, <1>6, <1>7
<1>10. report' = Witnessed({i}, {Len(rows) + 1}) /\ Stamped(rows')
  BY <1>1, <1>5
<1>11. /\ Len(rows) <= Len(rows')
       /\ \A j \in Ids : /\ rows'[j].time = rows[j].time
                         /\ rows'[j].category = rows[j].category
                         /\ rows'[j].amount = rows[j].amount
                         /\ rows'[j].live => rows[j].live
                         /\ rows[j].live /\ j \notin {i} => rows'[j].live
  BY <1>2, <1>6, <1>7
<1>12. \A j \in Ids' \ Ids : KnownCategory(rows'[j].category) /\ InColumn(rows'[j].amount)
  <2>1. \A j \in Ids' \ Ids : rows'[j] = Posted(d, None)
    BY <1>2, <1>5, <1>6
  <2>. QED  BY <1>1, <1>3, <2>1
<1>9. Evolves({i}, {Len(rows) + 1})
  BY <1>6, <1>8, <1>10, <1>11, <1>12 DEF Evolves, Correct
<1>. QED  BY <1>9 DEF Correct

\* The rows of a transfer have amounts of the column.
LEMMA LegsKept ==
  ASSUME NEW f, Accepting(f)
  PROVE  \A k \in DOMAIN Saved(f).rows : InColumn(Stored(Saved(f).rows[k].amount))
<1>1. PICK booked, o, i : RowsAre(f, booked, o, i)
  BY RowsOK
<1>2. /\ FitsAmount(Outgoing(f).value) /\ FitsAmount(Incoming(f).value) /\ FitsAmount(f.fee)
  BY FiguresOK DEF Accepting
<1>3. /\ o \in Nat /\ i \in Nat /\ f.fee \in Nat
      /\ FitsAmount(o) /\ FitsAmount(i)
      /\ booked = Saved(f).rows
  BY <1>1, <1>2 DEF RowsAre
<1>4. InColumn(-o) /\ InColumn(i) /\ InColumn(-f.fee)
  BY <1>2, <1>3, StoredOK DEF InColumn
<1>5. \A r \in ToSet(booked) : InColumn(Stored(r.amount))
  BY <1>1, <1>4 DEF RowsAre
<1>. QED  BY <1>3, <1>5 DEF ToSet

\* The legs of a transfer and its fee come last, all of one time.
LEMMA MoveEvolves ==
  ASSUME PagesInv, Move
  PROVE  \E new : Evolves({}, new) /\ rates' = rates
<1>1. PICK m \in Moves :
         LET saved == Saved(m.form)
             leg(r) == Posted([type |-> r.type, account |-> r.account, category |-> None,
                               amount |-> Stored(r.amount), time |-> m.time], Len(rows) + 1)
             legs == [k \in DOMAIN saved.rows |-> leg(saved.rows[k])]
         IN  /\ Accepted(m.form)
             /\ rows' = rows \o legs
             /\ report' = Witnessed({}, DOMAIN (rows \o legs) \ Ids)
  BY DEF Move
<1> DEFINE drafts == Saved(m.form).rows
           leg(r) == Posted([type |-> r.type, account |-> r.account, category |-> None,
                             amount |-> Stored(r.amount), time |-> m.time], Len(rows) + 1)
           legs == [k \in DOMAIN drafts |-> leg(drafts[k])]
<1>2. rows' = rows \o legs /\ report' = Witnessed({}, DOMAIN rows' \ Ids)
  BY <1>1
<1>16. \A k \in DOMAIN drafts : InColumn(Stored(drafts[k].amount))
  <2>1. Accepting(m.form)
    BY <1>1, ColumnsAssumption DEF Accepting, Accepted
  <2>. QED  BY <2>1, LegsKept
<1>3. Len(drafts) \in Nat /\ DOMAIN drafts = 1..Len(drafts)
  BY DEF Saved
<1>4. \A k \in DOMAIN drafts : /\ legs[k].time = m.time /\ legs[k].category = None
                              /\ legs[k].amount = Stored(drafts[k].amount)
                              /\ DOMAIN legs[k] = Columns
  BY PostedOK
<1>5. m.time \in Int
  BY TimeAssumption
<1>6. DOMAIN legs = 1..Len(drafts)
  BY <1>3
<1> HIDE DEF leg, drafts, legs
<1>7. legs \in Seq(ToSet(legs)) /\ Len(legs) = Len(drafts)
  <2>1. legs = [k \in 1..Len(drafts) |-> legs[k]]
    BY <1>6 DEF legs
  <2>2. \A k \in 1..Len(drafts) : legs[k] \in ToSet(legs)
    BY <1>6 DEF ToSet
  <2>. QED  BY <1>3, <2>1, <2>2
<1>8. /\ rows \in Seq(ToSet(rows)) /\ Len(rows) \in Nat /\ Ids = 1..Len(rows)
      /\ DOMAIN rows = Ids
      /\ \A i \in Ids : rows[i].time \in Int /\ DOMAIN rows[i] = Columns
  BY DEF PagesInv, ReportTypeOK, Stamped, Ids
<1>9. /\ Len(rows') = Len(rows) + Len(drafts) /\ DOMAIN rows' = 1..Len(rows')
      /\ \A i \in Ids : rows'[i] = rows[i]
      /\ \A i \in DOMAIN rows' \ Ids : \E k \in DOMAIN legs : rows'[i] = legs[k]
      /\ rows' \in Seq(ToSet(rows'))
  <2> DEFINE B == ToSet(rows) \cup ToSet(legs)
  <2>1. rows \in Seq(B) /\ legs \in Seq(B)
    <3>1. \A i \in 1..Len(rows) : rows[i] \in B
      BY <1>8 DEF ToSet
    <3>2. \A i \in 1..Len(legs) : legs[i] \in B
      BY <1>6, <1>7 DEF ToSet
    <3> HIDE DEF B
    <3>. QED  BY <1>3, <1>6, <1>7, <1>8, <3>1, <3>2
  <2> HIDE DEF B
  <2>2. /\ rows' \in Seq(B) /\ Len(rows') = Len(rows) + Len(drafts)
        /\ DOMAIN rows' = 1..Len(rows')
        /\ \A i \in 1..Len(rows') :
             rows'[i] = IF i <= Len(rows) THEN rows[i] ELSE legs[i - Len(rows)]
    <3>1. /\ rows \o legs \in Seq(B) /\ Len(rows \o legs) = Len(rows) + Len(legs)
          /\ \A i \in 1..Len(rows) + Len(legs) :
               (rows \o legs)[i] = IF i <= Len(rows) THEN rows[i] ELSE legs[i - Len(rows)]
      BY ONLY <2>1, ConcatProperties
    <3>. QED  BY <1>2, <1>7, <3>1
  <2>3. \A i \in DOMAIN rows' \ Ids : i - Len(rows) \in DOMAIN legs
    BY <1>3, <1>6, <1>8, <2>2
  <2>4. \A i \in 1..Len(rows') : rows'[i] \in ToSet(rows')
    BY <2>2 DEF ToSet
  <2>5. rows' \in Seq(ToSet(rows'))
    BY <2>2, <2>4
  <2>. QED  BY <1>3, <1>8, <2>2, <2>3, <2>5
<1>10. \A k \in DOMAIN legs : legs[k].time \in Int /\ DOMAIN legs[k] = Columns
  BY <1>3, <1>4, <1>5, <1>6
<1>11. \A i \in DOMAIN rows' : rows'[i].time \in Int /\ DOMAIN rows'[i] = Columns
  BY <1>8, <1>9, <1>10
<1>12. Stamped(rows')
  BY <1>9, <1>11 DEF Stamped
<1>13. Ids' = DOMAIN rows' /\ Len(rows) <= Len(rows')
  BY <1>3, <1>8, <1>9 DEF Ids
<1>15. \A i \in Ids' \ Ids : KnownCategory(rows'[i].category) /\ InColumn(rows'[i].amount)
  <2>1. \A k \in DOMAIN legs : legs[k].category = None /\ InColumn(legs[k].amount)
    BY <1>3, <1>4, <1>6, <1>16
  <2>. QED  BY <1>9, <1>13, <2>1 DEF KnownCategory
<1>14. Evolves({}, DOMAIN rows' \ Ids)
  BY <1>2, <1>9, <1>11, <1>12, <1>13, <1>15 DEF Evolves, Move
<1>. QED  BY <1>14 DEF Move

-----------------------------------------------------------------------------
(* The steps of the report.                                                *)

\* A step after the rows keeps what was listed.
Keeps ==
    /\ IsReport'
    /\ report'.kind = report.kind /\ report'.first = report.first
    /\ report'.last = report.last /\ report'.from = report.from
    /\ report'.to = report.to /\ report'.file = report.file
    /\ report'.steady = report.steady /\ report'.ever = report.ever

LEMMA KeepsOK ==
  ASSUME PagesInv, Keeps, rows' = rows, Stamped(rates'),
         \/ report'.step = report.step
         \/ /\ report.step \notin {"idle", "rows", "refused"}
            /\ report'.step \notin {"idle", "rows"}
  PROVE  PagesInv'
<1>1. Ids' = Ids /\ Within(report.from, report.to)' = Within(report.from, report.to)
  BY DEF Keeps, Ids, Within
<1>2. ReportTypeOK'
  BY <1>1 DEF PagesInv, ReportTypeOK, Keeps
<1>3. Listing'
  <2>1. Strictly(report.file)' <=> Strictly(report.file)
    BY DEF Keeps, Strictly, Precedes
  <2>. QED  BY <1>1, <2>1 DEF PagesInv, Listing, Keeps
<1>4. Progress'
  <2>1. \A i : Has(i)' <=> Has(i)
    BY DEF Keeps, Has
  <2>2. \A i : Precedes(i, Last(report.file))' <=> Precedes(i, Last(report.file))
    BY DEF Keeps, Precedes, Last
  <2>. QED  BY <1>1, <2>1, <2>2 DEF PagesInv, Progress, Keeps
<1>. QED  BY <1>2, <1>3, <1>4 DEF PagesInv

LEMMA StartOK ==
  ASSUME PagesInv, NEW kind, NEW first \in 0..Today, NEW last \in 0..Today,
         Start(kind, first, last)
  PROVE  PagesInv'
<1> DEFINE range == Asked(kind, first, last)
           w == Within(range.from, range.to)
<1>1. /\ report' = [kind |-> kind, step |-> "rows", first |-> first, last |-> last,
                    from |-> range.from, to |-> range.to, file |-> <<>>,
                    points |-> <<>>, tree |-> <<>>, cache |-> <<>>,
                    lines |-> <<>>, values |-> <<>>, dimension |-> None,
                    steady |-> w, ever |-> w]
      /\ rows' = rows /\ rates' = rates
  BY DEF Start, Quiet
<1>2. range.from \in Int /\ range.to \in Int
  BY ReportAssumption DEF Asked, MonthStart, Least, Today
<1> HIDE DEF range
<1>3. Within(report.from, report.to)' = w /\ Ids' = Ids
  BY <1>1 DEF Within, Ids
<1>4. ReportTypeOK'
  <2>1. first \in Int /\ last \in Int
    BY ReportAssumption DEF Today
  <2> HIDE DEF w
  <2>. QED  BY <1>1, <1>2, <1>3, <2>1 DEF PagesInv, ReportTypeOK, IsReport
<1> HIDE DEF w
<1>5. Listing'
  BY <1>1, <1>3 DEF Listing, Strictly
<1>6. Progress'
  BY <1>1, <1>3 DEF Progress
<1>. QED  BY <1>4, <1>5, <1>6 DEF PagesInv

LEMMA ReadRangeOK ==
  ASSUME PagesInv, ReadRange
  PROVE  PagesInv'
<1> DEFINE w == Within(report.from, report.to)
           s == Ascending(w)
<1>1. /\ s \in Seq(w)
      /\ \A i \in w : \E k \in 1..Len(s) : s[k] = i
  BY AscendingOK DEF PagesInv, ReportTypeOK, Within
<1>2. w \subseteq Ids
  BY DEF Within
<1>3. /\ report' = [report EXCEPT !.file = s, !.step = "values"]
      /\ rows' = rows /\ rates' = rates /\ ~Paged(report.kind) /\ report.step = "rows"
  BY DEF ReadRange
<1> HIDE DEF s
<1>4. /\ IsReport' /\ report'.file = s /\ report'.step = "values"
      /\ report'.kind = report.kind /\ report'.first = report.first
      /\ report'.last = report.last /\ report'.from = report.from
      /\ report'.to = report.to /\ report'.steady = report.steady
      /\ report'.ever = report.ever
  BY <1>3 DEF PagesInv, ReportTypeOK, IsReport
<1>5. Within(report.from, report.to)' = w /\ Ids' = Ids
  BY <1>3, <1>4 DEF Within, Ids
<1> HIDE DEF w
<1>6. s \in Seq(Ids) /\ DOMAIN s = 1..Len(s) /\ \A k \in DOMAIN s : s[k] \in w
  BY <1>1, <1>2
<1>7. ReportTypeOK'
  BY <1>3, <1>4, <1>5, <1>6 DEF PagesInv, ReportTypeOK
<1>8. w \subseteq report.ever /\ report.steady \subseteq w
  BY <1>3 DEF PagesInv, Listing, Progress, w
<1>9. Listing'
  BY <1>3, <1>4, <1>5, <1>6, <1>8 DEF Listing
<1>10. Progress'
  BY <1>1, <1>3, <1>4, <1>5, <1>6, <1>8 DEF Progress, Has
<1>. QED  BY <1>7, <1>9, <1>10 DEF PagesInv

\* A page goes on where the list stands: it is in order, each of its rows is
\* new, and what is below the cursor and stays is in it or below its last row.
LEMMA ReadPageOK ==
  ASSUME PagesInv, ReadPage
  PROVE  PagesInv'
<1> DEFINE d == Reverse(Ascending(Below))
           n == Least(PageSize, Len(d))
           page == SubSeq(d, 1, n)
           more == Len(d) > PageSize
           file == report.file \o page
           next == IF more THEN "rows" ELSE AfterRows(report.kind)
           old == report.file
           w == Within(report.from, report.to)
<1>1. /\ report.step = "rows" /\ Paged(report.kind) /\ rows' = rows /\ rates' = rates
      /\ \/ report' = [report EXCEPT !.step = "refused"]
         \/ report' = [report EXCEPT !.file = file, !.step = next]
  BY DEF ReadPage
<1>2. CASE report' = [report EXCEPT !.step = "refused"]
  <2>1. /\ IsReport' /\ report'.step = "refused"
        /\ report'.kind = report.kind /\ report'.first = report.first
        /\ report'.last = report.last /\ report'.from = report.from
        /\ report'.to = report.to /\ report'.file = report.file
        /\ report'.steady = report.steady /\ report'.ever = report.ever
    BY <1>2 DEF PagesInv, ReportTypeOK, IsReport
  <2>2. Ids' = Ids /\ Within(report.from, report.to)' = w
    BY <1>1, <2>1 DEF Ids, Within
  <2>3. ReportTypeOK'
    BY <1>1, <2>1, <2>2 DEF PagesInv, ReportTypeOK
  <2>4. Strictly(report.file)' <=> Strictly(report.file)
    BY <1>1, <2>1 DEF Strictly, Precedes
  <2>5. Listing'
    BY <1>1, <2>1, <2>2, <2>4 DEF PagesInv, Listing
  <2>6. Progress'
    BY <2>1, <2>2 DEF PagesInv, Progress
  <2>. QED  BY <2>3, <2>5, <2>6 DEF PagesInv
<1>3. CASE report' = [report EXCEPT !.file = file, !.step = next]
  <2>1. /\ old \in Seq(Ids) /\ Len(old) \in Nat /\ DOMAIN old = 1..Len(old)
        /\ \A k \in 1..Len(old) : old[k] \in Ids
        /\ Strictly(old) /\ \A k \in 1..Len(old) : old[k] \in report.ever
    BY <1>1 DEF PagesInv, ReportTypeOK, Listing
  <2>2. /\ Below \subseteq w /\ w \subseteq Ids /\ w \subseteq report.ever
        /\ report.steady \subseteq w
        /\ \A i \in Below : old # <<>> => Precedes(i, Last(old))
    BY <1>1 DEF PagesInv, Listing, Progress, Below, Within
  <2>3. /\ d \in Seq(Below)
        /\ \A k, m \in 1..Len(d) : k < m => Precedes(d[m], d[k])
        /\ \A i \in Below : \E k \in 1..Len(d) : d[k] = i
    BY <2>2, DescendingOK DEF PagesInv, ReportTypeOK
  <2> HIDE DEF d, w
  <2>4. Len(d) \in Nat /\ \A k \in 1..Len(d) : d[k] \in Below
    BY <2>3
  <2>5. n \in 0..Len(d) /\ (more => n = PageSize /\ n > 0 /\ n < Len(d)) /\ (~more => n = Len(d))
    BY <2>4, ReportAssumption DEF Least
  <2> HIDE DEF n, more
  <2>6. page \in Seq(Below) /\ Len(page) = n /\ \A k \in 1..n : page[k] = d[k]
    BY <2>3, <2>4, <2>5
  <2> HIDE DEF page
  <2>7. /\ file \in Seq(Ids) /\ Len(file) = Len(old) + n
        /\ \A k \in 1..Len(old) + n :
              file[k] = IF k <= Len(old) THEN old[k] ELSE d[k - Len(old)]
    <3>1. old \in Seq(Ids) /\ page \in Seq(Ids)
      BY <2>1, <2>2, <2>4, <2>5, <2>6
    <3>2. /\ old \o page \in Seq(Ids) /\ Len(old \o page) = Len(old) + Len(page)
          /\ \A k \in 1..Len(old) + Len(page) :
                (old \o page)[k] = IF k <= Len(old) THEN old[k] ELSE page[k - Len(old)]
      BY ONLY <3>1, ConcatProperties
    <3>3. \A k \in 1..Len(old) + n : k <= Len(old) \/ k - Len(old) \in 1..n
      BY <2>1, <2>4, <2>5
    <3>. QED  BY <2>6, <3>2, <3>3
  <2> HIDE DEF file
  <2>8. DOMAIN file = 1..Len(old) + n /\ n \in Nat /\ Len(old) + n \in Nat
    BY <2>1, <2>4, <2>5, <2>7
  <2>9. \A k \in 1..n : file[Len(old) + k] = d[k] /\ d[k] \in Below /\ Len(old) + k \in DOMAIN file
    <3> SUFFICES ASSUME NEW k \in 1..n
                 PROVE  /\ file[Len(old) + k] = d[k] /\ d[k] \in Below
                        /\ Len(old) + k \in DOMAIN file
      OBVIOUS
    <3>1. /\ k \in 1..Len(d) /\ Len(old) + k \in 1..Len(old) + n
          /\ ~(Len(old) + k <= Len(old)) /\ (Len(old) + k) - Len(old) = k
      BY <2>1, <2>4, <2>5, <2>8
    <3>2. file[Len(old) + k] = d[(Len(old) + k) - Len(old)]
      BY ONLY <2>7, <3>1
    <3>. QED  BY <2>4, <2>8, <3>1, <3>2
  <2>10. \A k \in 1..Len(old) : file[k] = old[k] /\ k \in DOMAIN file
    BY <2>1, <2>7, <2>8
  <2>11. /\ IsReport' /\ report'.step = next
         /\ report'.kind = report.kind /\ report'.first = report.first
         /\ report'.last = report.last /\ report'.from = report.from
         /\ report'.to = report.to /\ report'.file = file
         /\ report'.steady = report.steady /\ report'.ever = report.ever
    BY <1>3 DEF PagesInv, ReportTypeOK, IsReport
  <2>12. Ids' = Ids /\ Within(report.from, report.to)' = w
    BY <1>1, <2>11 DEF Ids, Within, w
  <2>13. ReportTypeOK'
    BY <1>1, <2>7, <2>11, <2>12 DEF PagesInv, ReportTypeOK
  <2>14. Strictly(file)
    <3> SUFFICES ASSUME NEW k \in 2..Len(old) + n
                 PROVE  Precedes(file[k], file[k - 1])
      BY <2>7 DEF Strictly
    <3>1. CASE k <= Len(old)
      <4>1. Precedes(old[k], old[k - 1])
        BY <2>1, <3>1 DEF Strictly
      <4>2. k \in 1..Len(old) /\ k - 1 \in 1..Len(old)
        BY <2>1, <3>1
      <4>. QED  BY <2>10, <4>1, <4>2
    <3>2. CASE k = Len(old) + 1
      <4>1. Len(old) > 0 /\ old # <<>> /\ n > 0 /\ 1 \in 1..n /\ Len(old) \in 1..Len(old)
        BY <2>1, <2>8, <3>2
      <4>2. file[k] = d[1] /\ d[1] \in Below
        BY <2>9, <3>2, <4>1
      <4>3. file[k - 1] = Last(old)
        BY <2>1, <2>10, <3>2, <4>1 DEF Last
      <4>. QED  BY <2>2, <4>1, <4>2, <4>3
    <3>3. CASE k > Len(old) + 1
      <4> DEFINE m == k - Len(old)
      <4>1. m \in 1..n /\ m - 1 \in 1..n /\ k = Len(old) + m /\ k - 1 = Len(old) + (m - 1)
        BY <2>1, <2>8, <3>3
      <4> HIDE DEF m
      <4>2. file[k] = d[m] /\ file[k - 1] = d[m - 1]
        BY <2>9, <4>1
      <4>3. Precedes(d[m], d[m - 1])
        <5>1. m - 1 < m /\ m \in 1..Len(d) /\ m - 1 \in 1..Len(d)
          BY <2>4, <2>5, <4>1
        <5>. QED  BY ONLY <2>3, <5>1
      <4>. QED  BY <4>2, <4>3
    <3>. QED  BY <2>1, <3>1, <3>2, <3>3
  <2>15. Strictly(report.file)'
    BY <1>1, <2>11, <2>14 DEF Strictly, Precedes
  <2>16. \A k \in DOMAIN file : file[k] \in report.ever
    <3> SUFFICES ASSUME NEW k \in DOMAIN file
                 PROVE  file[k] \in report.ever
      OBVIOUS
    <3>1. k \in 1..Len(old) \/ (k - Len(old) \in 1..n /\ k = Len(old) + (k - Len(old)))
      BY <2>1, <2>8
    <3>. QED  BY <2>1, <2>2, <2>9, <2>10, <3>1
  <2>17. Listing'
    BY <2>2, <2>11, <2>12, <2>15, <2>16 DEF Listing
  <2>18. \A i \in report.steady :
            Has(i)' \/ (more /\ file # <<>> /\ Precedes(i, Last(file)))
    <3> SUFFICES ASSUME NEW i \in report.steady
                 PROVE  Has(i)' \/ (more /\ file # <<>> /\ Precedes(i, Last(file)))
      OBVIOUS
    <3>1. Has(i) => Has(i)'
      <4>1. \A k \in DOMAIN old : k \in DOMAIN file /\ file[k] = old[k]
        BY <2>1, <2>10
      <4>. QED  BY <2>11, <4>1 DEF Has
    <3>2. ~Has(i) => i \in Below
      BY <1>1, <2>2 DEF PagesInv, Progress, Below, w, Within
    <3>3. ASSUME i \in Below
          PROVE  Has(i)' \/ (more /\ file # <<>> /\ Precedes(i, Last(file)))
      <4>1. PICK k \in 1..Len(d) : d[k] = i
        BY <2>3, <3>3
      <4>2. CASE k <= n
        <5>1. k \in 1..n
          BY <2>4, <2>8, <4>2
        <5>2. Len(old) + k \in DOMAIN file /\ file[Len(old) + k] = i
          BY <2>9, <4>1, <5>1
        <5>. QED  BY <2>11, <5>2 DEF Has
      <4>3. CASE k > n
        <5>1. more /\ n \in 1..n /\ n \in 1..Len(d) /\ Len(old) + n > 0
          BY <2>1, <2>4, <2>5, <2>8, <4>3
        <5>2. file # <<>> /\ Last(file) = file[Len(old) + n]
          BY <2>7, <5>1 DEF Last
        <5>3. Last(file) = d[n]
          BY <2>9, <5>1, <5>2
        <5>4. Precedes(i, d[n])
          BY <2>3, <4>1, <4>3, <5>1
        <5>. QED  BY <5>1, <5>2, <5>3, <5>4
      <4>. QED  BY <2>4, <2>8, <4>2, <4>3
    <3>. QED  BY <3>1, <3>2, <3>3
  <2>19. Progress'
    <3>1. report'.steady \subseteq Within(report.from, report.to)'
      BY <2>2, <2>11, <2>12
    <3>2. \A i : Precedes(i, Last(report.file))' <=> Precedes(i, Last(file))
      BY <1>1, <2>11 DEF Precedes, Last
    <3>3. report'.step # "rows" => ~more
      BY <2>11
    <3>. QED  BY <2>11, <2>18, <3>1, <3>2, <3>3 DEF Progress
  <2>. QED  BY <2>13, <2>17, <2>19 DEF PagesInv
<1>. QED  BY <1>1, <1>2, <1>3

LEMMA PagesNext ==
  ASSUME PagesInv, [ReportNext]_reportVars
  PROVE  PagesInv'
<1>1. CASE Post
  BY <1>1, PostEvolves, EvolvesOK DEF PagesInv, ReportTypeOK
<1>2. CASE Move
  BY <1>2, MoveEvolves, EvolvesOK DEF PagesInv, ReportTypeOK
<1>3. CASE Correct
  BY <1>3, CorrectEvolves, EvolvesOK DEF PagesInv, ReportTypeOK
<1>4. CASE Delete
  BY <1>4, DeleteEvolves, EvolvesOK DEF PagesInv, ReportTypeOK
<1>5. CASE CreateCategory
  BY <1>5, KeepsOK DEF PagesInv, ReportTypeOK, CreateCategory, Keeps, IsReport
<1>6. CASE Quote
  <2>1. Stamped(rates')
    <3>1. PICK q \in Quotes : rates' = Append(rates, q)
      BY <1>6 DEF Quote
    <3>2. q.time \in Int
      BY TimeAssumption
    <3>. QED  BY <3>1, <3>2, AppendStamped DEF PagesInv, ReportTypeOK
  <2>2. rows' = rows /\ report' = report
    BY <1>6 DEF Quote
  <2>3. Keeps
    BY <2>2 DEF Keeps, PagesInv, ReportTypeOK, IsReport
  <2>. QED  BY <2>1, <2>2, <2>3, KeepsOK
<1>7. CASE \E kind \in {"export", "analysis", "dashboard", "trend"},
              first, last \in 0..Today : Start(kind, first, last)
  BY <1>7, StartOK
<1>8. CASE ReadPage
  BY <1>8, ReadPageOK
<1>9. CASE ReadRange
  BY <1>9, ReadRangeOK
<1>10. CASE ReadCategories
  <2>1. Keeps /\ rows' = rows /\ rates' = rates /\ report.step = "categories"
        /\ report'.step \in {"values", "sums"}
    BY <1>10 DEF ReadCategories, Keeps, PagesInv, ReportTypeOK, IsReport
  <2>. QED  BY <2>1, KeepsOK DEF PagesInv, ReportTypeOK
<1>11. CASE ReadBalance
  <2>1. PICK next : /\ report' = [report EXCEPT !.points = @ \o next]
                    /\ rows' = rows /\ rates' = rates
    BY <1>11 DEF ReadBalance
  <2>2. Keeps /\ report'.step = report.step
    BY <2>1 DEF Keeps, PagesInv, ReportTypeOK, IsReport
  <2>. QED  BY <2>1, <2>2, KeepsOK DEF PagesInv, ReportTypeOK
<1>12. CASE LoadHistory
  <2>1. PICK more : /\ report' = [report EXCEPT !.cache = more]
                    /\ rows' = rows /\ rates' = rates
    BY <1>12 DEF LoadHistory
  <2>2. Keeps /\ report'.step = report.step
    BY <2>1 DEF Keeps, PagesInv, ReportTypeOK, IsReport
  <2>. QED  BY <2>1, <2>2, KeepsOK DEF PagesInv, ReportTypeOK
<1>13. CASE FinishValues
  <2>1. Keeps /\ rows' = rows /\ rates' = rates /\ report.step = "values"
        /\ report'.step \in {"categories", "sums"}
    BY <1>13 DEF FinishValues, Converting, Keeps, PagesInv, ReportTypeOK, IsReport
  <2>. QED  BY <2>1, KeepsOK DEF PagesInv, ReportTypeOK
<1>17. CASE Sum
  <2>1. Keeps /\ rows' = rows /\ rates' = rates /\ report.step = "sums"
        /\ report'.step \in {"done", "refused"}
    BY <1>17 DEF Sum, Keeps, PagesInv, ReportTypeOK, IsReport
  <2>. QED  BY <2>1, KeepsOK DEF PagesInv, ReportTypeOK
<1>14. CASE GiveUp
  <2>1. Keeps /\ rows' = rows /\ rates' = rates /\ report.step = "values"
        /\ report'.step = "refused"
    BY <1>14 DEF GiveUp, Keeps, PagesInv, ReportTypeOK, IsReport
  <2>. QED  BY <2>1, KeepsOK DEF PagesInv, ReportTypeOK
<1>15. CASE Answer
  <2>1. rows' = rows /\ rates' = rates /\ report' = Quiet /\ Ids' = Ids
    BY <1>15 DEF Answer, Ids
  <2>2. ReportTypeOK'
    BY <2>1 DEF PagesInv, ReportTypeOK, IsReport, Quiet
  <2>3. Listing'
    BY <2>1 DEF Listing, Quiet, Strictly
  <2>4. Progress'
    BY <2>1 DEF Progress, Quiet
  <2>. QED  BY <2>2, <2>3, <2>4 DEF PagesInv
<1>16. CASE UNCHANGED reportVars
  BY <1>16, KeepsOK DEF reportVars, Keeps, PagesInv, ReportTypeOK, IsReport
<1>. QED  BY <1>1, <1>2, <1>3, <1>4, <1>5, <1>6, <1>7, <1>8, <1>9, <1>10, <1>11, <1>12,
             <1>13, <1>14, <1>15, <1>16, <1>17 DEF ReportNext, Write, Read

LEMMA PagesAlways == ReportSpec => []PagesInv
<1>1. ReportInit => PagesInv
  BY PagesInit
<1>2. PagesInv /\ [ReportNext]_reportVars => PagesInv'
  BY PagesNext
<1>. QED  BY <1>1, <1>2, PTL DEF ReportSpec

\* However other requests change the ledger between its pages, a report lists no
\* row twice or out of order, none that was not there, and all that stayed.
THEOREM PagesAreSound == ReportSpec => []PagesSound
<1>1. PagesInv => PagesSound
  <2> SUFFICES ASSUME PagesInv PROVE PagesSound
    OBVIOUS
  <2>1. ToSet(report.file) = {report.file[k] : k \in DOMAIN report.file}
    BY DEF ToSet
  <2>2. ToSet(report.file) \subseteq report.ever
    BY <2>1 DEF PagesInv, Listing
  <2>3. report.step \notin {"idle", "rows", "refused"} =>
          report.steady \subseteq ToSet(report.file)
    BY <2>1 DEF PagesInv, Progress, Has
  <2>. QED  BY <2>2, <2>3 DEF PagesInv, Listing, PagesSound
<1>. QED  BY <1>1, PagesAlways, PTL

-----------------------------------------------------------------------------
(* The roots of the categories.                                            *)

\* A root function of the tree answers as its recursion says.
Roots(tree, root) ==
    root = [c \in DOMAIN tree |-> IF tree[c] = None THEN c ELSE root[tree[c]]]

\* The category and those above it are in every set that parents do not leave.
Closed(tree, S) == \A c \in S : tree[c] \in DOMAIN tree => tree[c] \in S
Line(tree, c) ==
    {a \in DOMAIN tree : \A S \in SUBSET DOMAIN tree : c \in S /\ Closed(tree, S) => a \in S}
TopOf(tree, c) == CHOOSE a \in Line(tree, c) : tree[a] = None

LEMMA LineOK ==
  ASSUME NEW tree, None \notin DOMAIN tree,
         \A c \in DOMAIN tree : tree[c] \in DOMAIN tree \cup {None},
         NEW c \in DOMAIN tree
  PROVE  IF tree[c] = None THEN Line(tree, c) = {c}
         ELSE Line(tree, c) = {c} \cup Line(tree, tree[c])
<1> DEFINE D == DOMAIN tree
           p == tree[c]
<1>1. c \in Line(tree, c)
  BY DEF Line
<1>2. CASE p = None
  <2>1. {c} \in SUBSET D /\ Closed(tree, {c})
    BY <1>2 DEF Closed
  <2>. QED  BY <1>1, <1>2, <2>1 DEF Line
<1>3. CASE p # None
  <2>1. p \in D
    BY <1>3
  <2>2. Line(tree, p) \subseteq Line(tree, c)
    BY <2>1 DEF Line, Closed
  <2>3. ASSUME NEW a \in Line(tree, c), a # c
        PROVE  a \in Line(tree, p)
    <3> SUFFICES ASSUME NEW S \in SUBSET D, p \in S, Closed(tree, S)
                 PROVE  a \in S
      BY <2>3 DEF Line
    <3>1. S \cup {c} \in SUBSET D /\ Closed(tree, S \cup {c})
      BY DEF Closed
    <3>2. a \in S \cup {c}
      BY <3>1 DEF Line
    <3>. QED  BY <2>3, <3>2
  <2>. QED  BY <1>1, <1>3, <2>2, <2>3
<1>. QED  BY <1>2, <1>3

LEMMA RootsExist ==
  ASSUME NEW tree, None \notin DOMAIN tree,
         \A c \in DOMAIN tree : tree[c] \in DOMAIN tree \cup {None}
  PROVE  \E root : Roots(tree, root)
<1> DEFINE root == [c \in DOMAIN tree |-> TopOf(tree, c)]
<1>1. ASSUME NEW c \in DOMAIN tree
      PROVE  TopOf(tree, c) = IF tree[c] = None THEN c ELSE root[tree[c]]
  <2>1. CASE tree[c] = None
    <3>1. Line(tree, c) = {c}
      BY <2>1, LineOK
    <3>. QED  BY <2>1, <3>1 DEF TopOf
  <2>2. CASE tree[c] # None
    <3>1. Line(tree, c) = {c} \cup Line(tree, tree[c]) /\ tree[c] \in DOMAIN tree
      BY <2>2, LineOK
    <3>2. {a \in Line(tree, c) : tree[a] = None} = {a \in Line(tree, tree[c]) : tree[a] = None}
      BY <2>2, <3>1
    <3>3. \A d : TopOf(tree, d) = CHOOSE a : a \in {b \in Line(tree, d) : tree[b] = None}
      BY DEF TopOf
    <3>4. TopOf(tree, c) = TopOf(tree, tree[c])
      BY <3>2, <3>3
    <3>. QED  BY <2>2, <3>1, <3>4
  <2>. QED  BY <2>1, <2>2
<1>2. root = [c \in DOMAIN tree |-> IF tree[c] = None THEN c ELSE root[tree[c]]]
  BY <1>1
<1>. QED  BY <1>2 DEF Roots

LEMMA RootInIs ==
  ASSUME NEW tree, NEW c \in DOMAIN tree, NEW r, Roots(tree, r)
  PROVE  \E root : Roots(tree, root) /\ RootIn(tree, c) = root[c]
<1> DEFINE root == CHOOSE root : Roots(tree, root)
<1>1. Roots(tree, root)
  OBVIOUS
<1>2. RootIn(tree, c) = root[c]
  BY DEF RootIn, Roots
<1>. QED  BY <1>1, <1>2

\* Every category of a forest has a root.
LEMMA RootOK ==
  ASSUME NEW tree, Forest(tree), NEW c \in DOMAIN tree
  PROVE  RootIn(tree, c) \in DOMAIN tree
<1>1. PICK root : Roots(tree, root) /\ RootIn(tree, c) = root[c]
  BY RootsExist, RootInIs DEF Forest
<1> DEFINE lost == {x \in DOMAIN tree : root[x] \notin DOMAIN tree}
<1>2. ASSUME lost # {} PROVE FALSE
  <2>1. PICK x \in lost : tree[x] \notin lost
    BY <1>2 DEF Forest
  <2>2. root[x] = IF tree[x] = None THEN x ELSE root[tree[x]]
    BY <1>1 DEF Roots
  <2>3. tree[x] # None => tree[x] \in DOMAIN tree
    BY DEF Forest
  <2>. QED  BY <2>1, <2>2, <2>3
<1>. QED  BY <1>1, <1>2

LEMMA ForestGrows ==
  ASSUME NEW tree, Forest(tree), NEW c, c \notin DOMAIN tree, c # None,
         NEW p \in DOMAIN tree \cup {None}, NEW more,
         more = [x \in DOMAIN tree \cup {c} |-> IF x = c THEN p ELSE tree[x]]
  PROVE  Forest(more)
<1>1. /\ DOMAIN more = DOMAIN tree \cup {c} /\ more[c] = p
      /\ \A x \in DOMAIN tree : more[x] = tree[x]
  OBVIOUS
<1>2. /\ None \notin DOMAIN more
      /\ \A x \in DOMAIN more : more[x] \in DOMAIN more \cup {None}
  BY <1>1 DEF Forest
<1>3. ASSUME NEW S \in SUBSET DOMAIN more, S # {}
      PROVE  \E x \in S : more[x] \notin S
  <2>1. CASE S \ {c} # {}
    <3>1. S \ {c} \in SUBSET DOMAIN tree
      BY <1>1
    <3>2. PICK x \in S \ {c} : tree[x] \notin S \ {c}
      BY <2>1, <3>1 DEF Forest
    <3>3. more[x] = tree[x] /\ tree[x] # c
      BY <1>1, <3>1, <3>2 DEF Forest
    <3>. QED  BY <3>2, <3>3
  <2>2. CASE S \ {c} = {}
    <3>1. S = {c} /\ more[c] # c
      BY <1>1, <1>3, <2>2
    <3>. QED  BY <3>1
  <2>. QED  BY <2>1, <2>2
<1>. QED  BY <1>2, <1>3 DEF Forest

\* The categories are a forest, and each row is filed under one of them.
Filed ==
    /\ Forest(categories)
    /\ \A i \in Ids : KnownCategory(rows[i].category)

\* The report has read the categories.
TreeRead ==
    \/ report.kind = "analysis" /\ report.step \in {"values", "sums", "done"}
    \/ report.kind = "dashboard" /\ report.step \in {"sums", "done"}

\* What the report lists is filed in the tree that it read afterwards.
TreeOK ==
    TreeRead =>
        /\ Forest(report.tree)
        /\ \A k \in DOMAIN report.file :
             rows[report.file[k]].category \in DOMAIN report.tree \cup {None}

CategoryInv == Filed /\ TreeOK

LEMMA CategoryWrites ==
  ASSUME PagesInv, CategoryInv, NEW removed, NEW added, Evolves(removed, added)
  PROVE  CategoryInv'
<1>1. /\ report'.kind = report.kind /\ report'.step = report.step
      /\ report'.file = report.file /\ report'.tree = report.tree
  BY WitnessedFields DEF PagesInv, ReportTypeOK, Evolves
<1>2. Filed'
  BY DEF CategoryInv, Filed, Evolves, KnownCategory
<1>3. \A k \in DOMAIN report.file : report.file[k] \in Ids
  BY DEF PagesInv, ReportTypeOK
<1>4. TreeOK'
  BY <1>1, <1>3 DEF CategoryInv, TreeOK, TreeRead, Evolves
<1>. QED  BY <1>2, <1>4 DEF CategoryInv

\* A step of the report that does not end its reading of the tree.
LEMMA CategoryReads ==
  ASSUME CategoryInv, rows' = rows, categories' = categories,
         \/ ~TreeRead'
         \/ TreeRead /\ report'.file = report.file /\ report'.tree = report.tree
  PROVE  CategoryInv'
<1>1. Filed'
  BY DEF CategoryInv, Filed, KnownCategory, Ids
<1>. QED  BY <1>1 DEF CategoryInv, TreeOK

LEMMA CategoryNext ==
  ASSUME PagesInv, CategoryInv, [ReportNext]_reportVars
  PROVE  CategoryInv'
<1>0. IsReport /\ \A k \in DOMAIN report.file : report.file[k] \in Ids
  BY DEF PagesInv, ReportTypeOK
<1>1. CASE Post \/ Move \/ Correct \/ Delete
  BY <1>1, PostEvolves, MoveEvolves, CorrectEvolves, DeleteEvolves, CategoryWrites
<1>2. CASE CreateCategory
  <2>1. PICK c \in Categories \ DOMAIN categories, p \in DOMAIN categories \cup {None} :
          categories' = [x \in DOMAIN categories \cup {c} |->
                            IF x = c THEN p ELSE categories[x]]
    BY <1>2 DEF CreateCategory
  <2>2. rows' = rows /\ report' = report
    BY <1>2 DEF CreateCategory
  <2>3. Forest(categories')
    BY <2>1, CategoryAssumption, ForestGrows DEF CategoryInv, Filed
  <2>4. Filed'
    BY <2>1, <2>2, <2>3 DEF CategoryInv, Filed, KnownCategory, Ids
  <2>. QED  BY <2>2, <2>4 DEF CategoryInv, TreeOK, TreeRead
<1>3. CASE Quote
  BY <1>3, CategoryReads DEF Quote, TreeRead
<1>4. CASE \E kind \in {"export", "analysis", "dashboard", "trend"},
              first, last \in 0..Today : Start(kind, first, last)
  <2>1. rows' = rows /\ categories' = categories /\ report'.step = "rows"
    BY <1>4 DEF Start, Quiet
  <2>. QED  BY <2>1, CategoryReads DEF TreeRead
<1>5. CASE ReadPage
  <2>1. /\ rows' = rows /\ categories' = categories
        /\ report'.kind = report.kind
        /\ report'.step \in {"refused", "rows", AfterRows(report.kind)}
    BY <1>0, <1>5 DEF ReadPage, IsReport
  <2>2. Paged(report.kind)
    BY <1>5 DEF ReadPage
  <2>. QED  BY <2>1, <2>2, CategoryReads DEF TreeRead, AfterRows, Paged
<1>6. CASE ReadRange
  <2>1. /\ rows' = rows /\ categories' = categories
        /\ report'.kind = report.kind /\ report'.step = "values" /\ ~Paged(report.kind)
    BY <1>0, <1>6 DEF ReadRange, IsReport
  <2>. QED  BY <2>1, CategoryReads DEF TreeRead, Paged
<1>7. CASE ReadCategories
  <2>1. /\ rows' = rows /\ categories' = categories
        /\ report'.file = report.file /\ report'.tree = categories
    BY <1>0, <1>7 DEF ReadCategories, IsReport
  <2>2. Filed' /\ Ids' = Ids
    BY <2>1 DEF CategoryInv, Filed, KnownCategory, Ids
  <2>3. TreeOK'
    BY <1>0, <2>1 DEF CategoryInv, Filed, TreeOK, KnownCategory
  <2>. QED  BY <2>2, <2>3 DEF CategoryInv
<1>8. CASE ReadBalance
  <2>1. PICK next : /\ report' = [report EXCEPT !.points = @ \o next]
                    /\ rows' = rows /\ categories' = categories
    BY <1>8 DEF ReadBalance
  <2>. QED  BY <1>0, <2>1, CategoryReads DEF IsReport, TreeRead
<1>9. CASE LoadHistory
  <2>1. PICK more : /\ report' = [report EXCEPT !.cache = more]
                    /\ rows' = rows /\ categories' = categories
    BY <1>9 DEF LoadHistory
  <2>. QED  BY <1>0, <2>1, CategoryReads DEF IsReport, TreeRead
<1>10. CASE FinishValues
  <2>1. /\ rows' = rows /\ categories' = categories /\ report.step = "values"
        /\ report'.kind = report.kind
        /\ report'.file = report.file /\ report'.tree = report.tree
        /\ report'.step = IF report.kind = "dashboard" THEN "categories" ELSE "sums"
    BY <1>0, <1>10 DEF FinishValues, Converting, IsReport
  <2>. QED  BY <2>1, CategoryReads DEF TreeRead
<1>13. CASE Sum
  <2>1. /\ rows' = rows /\ categories' = categories /\ report.step = "sums"
        /\ report'.kind = report.kind
        /\ report'.file = report.file /\ report'.tree = report.tree
        /\ report'.step \in {"done", "refused"}
    BY <1>0, <1>13 DEF Sum, IsReport
  <2>. QED  BY <2>1, CategoryReads DEF TreeRead
<1>11. CASE GiveUp \/ Answer
  <2>1. /\ rows' = rows /\ categories' = categories
        /\ report'.step \in {"refused", "idle"}
    BY <1>0, <1>11 DEF GiveUp, Answer, IsReport, Quiet
  <2>. QED  BY <2>1, CategoryReads DEF TreeRead
<1>12. CASE UNCHANGED reportVars
  BY <1>12, CategoryReads DEF reportVars, TreeRead
<1>. QED  BY <1>1, <1>2, <1>3, <1>4, <1>5, <1>6, <1>7, <1>8, <1>9, <1>10, <1>11, <1>12,
             <1>13 DEF ReportNext, Write, Read

\* A report leaves no row with a category uncategorized, although it reads rows
\* and categories apart: rows are filed under what is there, and read first.
THEOREM RowsAreCategorized == ReportSpec => []RowsCategorized
<1>1. ReportInit => CategoryInv
  <2> SUFFICES ASSUME ReportInit PROVE CategoryInv
    OBVIOUS
  <2>1. rows = OldRows /\ categories = OldTree /\ Ids = DOMAIN rows
    BY TimeAssumption DEF ReportInit, Stamped, Ids
  <2>2. ~TreeRead
    BY DEF ReportInit, Quiet, TreeRead
  <2>. QED  BY <2>1, <2>2, CategoryAssumption DEF CategoryInv, Filed, TreeOK, KnownCategory
<1>2. PagesInv /\ CategoryInv /\ [ReportNext]_reportVars => CategoryInv'
  BY CategoryNext
<1>3. CategoryInv => RowsCategorized
  <2> SUFFICES ASSUME CategoryInv, report.step = "done",
                      report.kind \in {"analysis", "dashboard"},
                      NEW i \in Countable, rows[i].category # None
               PROVE  RootIn(report.tree, rows[i].category) # None
    BY DEF RowsCategorized
  <2>1. PICK k \in DOMAIN report.file : report.file[k] = i
    BY DEF Countable, ToSet
  <2>2. Forest(report.tree) /\ rows[i].category \in DOMAIN report.tree
    BY <2>1 DEF CategoryInv, TreeOK, TreeRead
  <2>3. RootIn(report.tree, rows[i].category) \in DOMAIN report.tree
    BY <2>2, RootOK
  <2>. QED  BY <2>2, <2>3 DEF Forest
<1>. QED  BY <1>1, <1>2, <1>3, PagesAlways, PTL DEF ReportSpec

(* What a report is made of is right in both: its rows and their categories *)
(* (report_query_service.h, CategoryForest::build).                        *)
THEOREM RowsAreSound == ReportSpec => []RowsSound
  BY PagesAreSound, RowsAreCategorized, PTL DEF RowsSound

-----------------------------------------------------------------------------
(* The rate in force.                                                      *)

\* i is the newest of ids: of two of one time, the larger id.
Latest(log, i, ids) ==
    /\ i \in ids
    /\ \A j \in ids : \/ log[j].time < log[i].time
                      \/ log[j].time = log[i].time /\ j <= i

LEMMA LatestExists ==
  ASSUME NEW log, Stamped(log), NEW ids \in SUBSET DOMAIN log, ids # {}
  PROVE  \E i \in ids : Latest(log, i, ids)
<1> DEFINE R == {p \in ids \X ids : \/ log[p[1]].time < log[p[2]].time
                                    \/ log[p[1]].time = log[p[2]].time /\ p[1] < p[2]}
<1>1. /\ Len(log) \in Nat /\ DOMAIN log = 1..Len(log)
      /\ \A i \in ids : i \in Nat /\ log[i].time \in Int
  BY DEF Stamped
<1>2. IsFiniteSet(ids)
  <2>1. ids \in SUBSET (1..Len(log)) /\ IsFiniteSet(1..Len(log))
    BY <1>1, FS_Interval
  <2>. QED  BY ONLY <2>1, FS_Subset
<1>3. \A i, j \in ids : <<i, j>> \in R <=> \/ log[i].time < log[j].time
                                           \/ log[i].time = log[j].time /\ i < j
  OBVIOUS
<1> HIDE DEF R
<1>4. Orders(R, ids)
  <2>1. \A i \in ids : <<i, i>> \notin R
    BY <1>1, <1>3
  <2>2. ASSUME NEW i \in ids, NEW j \in ids
        PROVE  i = j \/ <<i, j>> \in R \/ <<j, i>> \in R
    <3>1. i \in Nat /\ j \in Nat /\ log[i].time \in Int /\ log[j].time \in Int
      BY <1>1
    <3>2. /\ <<i, j>> \in R <=> \/ log[i].time < log[j].time
                                \/ log[i].time = log[j].time /\ i < j
          /\ <<j, i>> \in R <=> \/ log[j].time < log[i].time
                                \/ log[j].time = log[i].time /\ j < i
      BY <1>3
    <3>. QED  BY <3>1, <3>2
  <2>3. ASSUME NEW i \in ids, NEW j \in ids, NEW k \in ids,
               <<i, j>> \in R, <<j, k>> \in R
        PROVE  <<i, k>> \in R
    <3>1. /\ i \in Nat /\ j \in Nat /\ k \in Nat
          /\ log[i].time \in Int /\ log[j].time \in Int /\ log[k].time \in Int
      BY <1>1
    <3>2. /\ \/ log[i].time < log[j].time
             \/ log[i].time = log[j].time /\ i < j
          /\ \/ log[j].time < log[k].time
             \/ log[j].time = log[k].time /\ j < k
      BY <1>3, <2>3
    <3>3. \/ log[i].time < log[k].time
          \/ log[i].time = log[k].time /\ i < k
      BY <3>1, <3>2
    <3>. QED  BY <1>3, <3>3
  <2>. QED  BY <2>1, <2>2, <2>3 DEF Orders
<1>5. PICK i \in ids : \A j \in ids : j = i \/ <<j, i>> \in R
  BY <1>2, <1>4, LastOne
<1>6. Latest(log, i, ids)
  <2> SUFFICES ASSUME NEW j \in ids, j # i
               PROVE  \/ log[j].time < log[i].time
                      \/ log[j].time = log[i].time /\ j <= i
    BY <1>1 DEF Latest
  <2>1. <<j, i>> \in R
    BY <1>5
  <2>2. \/ log[j].time < log[i].time
        \/ log[j].time = log[i].time /\ j < i
    BY <1>3, <2>1
  <2>. QED  BY <1>1, <2>2
<1>. QED  BY <1>6

LEMMA LatestUnique ==
  ASSUME NEW log, Stamped(log), NEW ids \in SUBSET DOMAIN log,
         NEW i, NEW j, Latest(log, i, ids), Latest(log, j, ids)
  PROVE  i = j
<1>1. i \in Nat /\ j \in Nat /\ log[i].time \in Int /\ log[j].time \in Int
  BY DEF Stamped, Latest
<1>. QED  BY <1>1 DEF Latest

LEMMA NewestOK ==
  ASSUME Stamped(rates), NEW ids \in SUBSET DOMAIN rates
  PROVE  /\ ids = {} => Newest(ids) = None
         /\ ids # {} => Latest(rates, Newest(ids), ids)
         /\ \A i : Latest(rates, i, ids) => i = Newest(ids)
<1>1. ids = {} => Newest(ids) = None
  BY DEF Newest
<1>2. ASSUME ids # {}
      PROVE  Latest(rates, Newest(ids), ids)
  <2>1. PICK i \in ids : Latest(rates, i, ids)
    BY <1>2, LatestExists
  <2>. QED  BY <1>2, <2>1 DEF Newest, Latest
<1>3. \A i : Latest(rates, i, ids) => i = Newest(ids)
  <2> SUFFICES ASSUME NEW i, Latest(rates, i, ids)
               PROVE  i = Newest(ids)
    OBVIOUS
  <2>1. ids # {}
    BY DEF Latest
  <2>. QED  BY <1>2, <2>1, LatestUnique
<1>. QED  BY <1>1, <1>2, <1>3

\* Rates stored later do not change which of the earlier ones is the newest.
LEMMA NewestKept ==
  ASSUME Stamped(rates), Stamped(rates'), Len(rates) <= Len(rates'),
         \A i \in 1..Len(rates) : rates'[i] = rates[i],
         NEW ids \in SUBSET DOMAIN rates
  PROVE  Newest(ids)' = Newest(ids)
<1>1. /\ DOMAIN rates = 1..Len(rates) /\ DOMAIN rates' = 1..Len(rates')
      /\ Len(rates) \in Nat /\ Len(rates') \in Nat
  BY DEF Stamped
<1>2. CASE ids = {}
  BY <1>2 DEF Newest
<1>3. CASE ids # {}
  <2>1. \A i : Latest(rates', i, ids) <=> Latest(rates, i, ids)
    BY <1>1 DEF Latest
  <2>2. PICK i \in ids : Latest(rates', i, ids)
    BY <1>1, <1>3, LatestExists
  <2>3. Latest(rates', Newest(ids)', ids)
    BY <1>3, <2>2 DEF Newest, Latest
  <2>4. Latest(rates, Newest(ids)', ids)
    BY <2>1, <2>3
  <2>. QED  BY <2>4, NewestOK
<1>. QED  BY <1>2, <1>3

\* Rates of different times are listed once each, in the order of time.
LEMMA OlderOK ==
  ASSUME Stamped(rates), NEW S \in SUBSET DOMAIN rates,
         \A i, j \in S : rates[i].time = rates[j].time => i = j
  PROVE  /\ Listed(S, Older) \in Seq(S)
         /\ \A k, m \in 1..Len(Listed(S, Older)) :
               k < m => rates[Listed(S, Older)[k]].time < rates[Listed(S, Older)[m]].time
         /\ \A i \in S : \E k \in 1..Len(Listed(S, Older)) : Listed(S, Older)[k] = i
<1> DEFINE R == {p \in S \X S : Older(p[1], p[2])}
           when(k) == CHOOSE i \in S : Cardinality({j \in S : Older(j, i)}) = k - 1
           s == [k \in 1..Cardinality(S) |-> when(k)]
<1>1. /\ Len(rates) \in Nat /\ DOMAIN rates = 1..Len(rates)
      /\ \A i \in S : rates[i].time \in Int
  BY DEF Stamped
<1>2. IsFiniteSet(S)
  <2>1. S \in SUBSET (1..Len(rates)) /\ IsFiniteSet(1..Len(rates))
    BY <1>1, FS_Interval
  <2>. QED  BY ONLY <2>1, FS_Subset
<1>3. \A i, j \in S : <<i, j>> \in R <=> rates[i].time < rates[j].time
  BY DEF Older
<1>4. Orders(R, S)
  <2> HIDE DEF R
  <2>. QED  BY <1>1, <1>3 DEF Orders
<1>5. \A i \in S : Rank(R, S, i) = Cardinality({j \in S : Older(j, i)})
  <2>1. \A i \in S : {j \in S : <<j, i>> \in R} = {j \in S : Older(j, i)}
    OBVIOUS
  <2>. QED  BY <2>1 DEF Rank
<1>14. \A k \in 1..Cardinality(S) : \E i \in S : Rank(R, S, i) = k - 1
  <2> HIDE DEF R
  <2>. QED  BY ONLY <1>2, <1>4, RanksAreTaken, Zenon
<1>6. Cardinality(S) \in Nat
  BY <1>2, FS_CardinalityType
<1>7. \A k \in 1..Cardinality(S) :
         when(k) \in S /\ Cardinality({j \in S : Older(j, when(k))}) = k - 1
  <2> SUFFICES ASSUME NEW k \in 1..Cardinality(S)
               PROVE  when(k) \in S /\ Cardinality({j \in S : Older(j, when(k))}) = k - 1
    OBVIOUS
  <2>1. PICK i \in S : Rank(R, S, i) = k - 1
    BY <1>14
  <2>2. Cardinality({j \in S : Older(j, i)}) = k - 1
    BY <1>5, <2>1
  <2>. QED  BY <2>2
<1>8. s = Listed(S, Older)
  BY DEF Listed
<1> HIDE DEF R, when
<1>9. \A k \in 1..Cardinality(S) : Rank(R, S, s[k]) = k - 1
  BY <1>5, <1>7
<1>10. s \in [1..Cardinality(S) -> S]
  BY <1>7
<1> HIDE DEF s
<1>11. Lists(s, S, R)
  BY ONLY <1>2, <1>4, <1>9, <1>10, ListInOrder, Zenon
<1>12. \A k \in 1..Len(s) : s[k] \in S
  BY <1>11 DEF Lists
<1>13. \A k, m \in 1..Len(s) : k < m => rates[s[k]].time < rates[s[m]].time
  BY <1>3, <1>11, <1>12 DEF Lists
<1>. QED  BY <1>8, <1>11, <1>13 DEF Lists

LEMMA MaxOK ==
  ASSUME NEW S \in SUBSET Int, NEW m \in S, \A x \in S : x <= m
  PROVE  Max(S) = m
<1>1. \A y \in S : m >= y
  OBVIOUS
<1>2. Max(S) \in S /\ \A y \in S : Max(S) >= y
  BY <1>1 DEF Max
<1>3. Max(S) \in Int /\ Max(S) <= m /\ Max(S) >= m
  BY <1>2
<1>. QED  BY <1>3

LEMMA MinOK ==
  ASSUME NEW S \in SUBSET Int, NEW m \in S, \A x \in S : m <= x
  PROVE  Min(S) = m
<1>2. Min(S) \in S /\ \A y \in S : Min(S) <= y
  BY DEF Min
<1>3. Min(S) \in Int /\ Min(S) <= m /\ Min(S) >= m
  BY <1>2
<1>. QED  BY <1>3

\* The ends of a finite set of times.
LEMMA EndsOK ==
  ASSUME NEW S \in SUBSET Int, IsFiniteSet(S), S # {}
  PROVE  /\ Min(S) \in S /\ Max(S) \in S
         /\ \A x \in S : Min(S) <= x /\ x <= Max(S)
<1> DEFINE U == {p \in S \X S : p[1] < p[2]}
           D == {p \in S \X S : p[2] < p[1]}
<1>1. \A i, j \in S : (<<i, j>> \in U <=> i < j) /\ (<<i, j>> \in D <=> j < i)
  OBVIOUS
<1> HIDE DEF U, D
<1>2. Orders(U, S) /\ Orders(D, S)
  BY <1>1 DEF Orders
<1>3. PICK m \in S : \A j \in S : j = m \/ <<j, m>> \in U
  BY ONLY S # {}, IsFiniteSet(S), <1>2, LastOne
<1>4. PICK l \in S : \A j \in S : j = l \/ <<j, l>> \in D
  BY ONLY S # {}, IsFiniteSet(S), <1>2, LastOne
<1>5. \A x \in S : x <= m /\ l <= x
  <2> SUFFICES ASSUME NEW x \in S
               PROVE  x <= m /\ l <= x
    OBVIOUS
  <2>1. x = m \/ x < m
    BY <1>1, <1>3
  <2>2. x = l \/ l < x
    BY <1>1, <1>4
  <2>. QED  BY <2>1, <2>2
<1>6. Max(S) = m
  BY <1>5, MaxOK
<1>7. Min(S) = l
  BY <1>5, MinOK
<1>. QED  BY <1>5, <1>6, <1>7

\* The last rate of a history that is not after a time.
LastUpTo(h, when) ==
    LET upTo == {k \in DOMAIN h : rates[h[k]].time <= when}
    IN  IF upTo = {} THEN None ELSE h[Max(upTo)]

LEMMA FindIsLast ==
  \A pair, when : Find(pair, when) = LastUpTo(report.cache[pair].history, when)
  BY DEF Find, LastUpTo

\* A history answers each time of its window as all the rates do: the rate in
\* force is its anchor or the last of its own time.
LEMMA HistoryFound ==
  ASSUME Stamped(rates), NEW pair, NEW from \in Int, NEW to \in Int,
         NEW when \in Int, from <= when, when <= to
  PROVE  /\ History(pair, from, to) \in Seq(1..Len(rates))
         /\ LastUpTo(History(pair, from, to), when) = Historical(pair, when, Len(rates))
<1> DEFINE all == Quoted(pair, Len(rates))
           before == {j \in all : rates[j].time <= from}
           twins(i) == {j \in all : rates[j].time = rates[i].time}
           anchor == {i \in all : i = Newest(before)}
           inside == {i \in all : /\ rates[i].time > from /\ rates[i].time <= to
                                  /\ i = Newest(twins(i))}
           S == anchor \cup inside
           h == Listed(S, Older)
           Q == {i \in all : rates[i].time <= when}
           n == Newest(Q)
           upTo == {k \in DOMAIN h : rates[h[k]].time <= when}
<1>1. /\ Len(rates) \in Nat /\ DOMAIN rates = 1..Len(rates)
      /\ all \subseteq DOMAIN rates /\ \A i \in all : i \in Nat /\ rates[i].time \in Int
  BY DEF Stamped, Quoted
<1>2. before \subseteq DOMAIN rates /\ Q \subseteq DOMAIN rates
      /\ \A i : twins(i) \subseteq DOMAIN rates
  BY <1>1
<1>3. h = History(pair, from, to) /\ n = Historical(pair, when, Len(rates))
  BY DEF History, Historical
<1> HIDE DEF all
<1>4. S \subseteq all
  OBVIOUS
<1>5. \A i \in anchor : rates[i].time <= from
  <2> SUFFICES ASSUME NEW i \in anchor
               PROVE  rates[i].time <= from
    OBVIOUS
  <2>1. i = Newest(before) /\ i \in Nat
    BY <1>1
  <2>2. before # {}
    BY <1>2, <2>1, NewestOK, ReportAssumption
  <2>3. Latest(rates, i, before)
    BY <1>2, <2>1, <2>2, NewestOK
  <2>. QED  BY <2>3 DEF Latest
<1>6. \A i, j \in S : rates[i].time = rates[j].time => i = j
  <2> SUFFICES ASSUME NEW i \in S, NEW j \in S, rates[i].time = rates[j].time
               PROVE  i = j
    OBVIOUS
  <2>1. i \in anchor <=> j \in anchor
    BY <1>1, <1>4, <1>5
  <2>2. CASE i \in anchor /\ j \in anchor
    BY <2>2
  <2>3. CASE i \in inside /\ j \in inside
    <3>1. twins(i) = twins(j)
      OBVIOUS
    <3>. QED  BY <2>3, <3>1
  <2>. QED  BY <2>1, <2>2, <2>3
<1>7. S \in SUBSET DOMAIN rates
  BY <1>1, <1>4
<1> HIDE DEF S
<1>8. /\ h \in Seq(S)
      /\ \A k, m \in 1..Len(h) : k < m => rates[h[k]].time < rates[h[m]].time
      /\ \A i \in S : \E k \in 1..Len(h) : h[k] = i
  BY <1>6, <1>7, OlderOK
<1> HIDE DEF h
<1>9. Len(h) \in Nat /\ DOMAIN h = 1..Len(h) /\ \A k \in DOMAIN h : h[k] \in all
  BY <1>4, <1>8
<1>10. h \in Seq(1..Len(rates))
  BY <1>1, <1>7, <1>8, <1>9
<1>11. (IF upTo = {} THEN None ELSE h[Max(upTo)]) = n
  <2>1. CASE Q = {}
    <3>1. upTo = {}
      BY <1>9, <2>1
    <3>. QED  BY <1>2, <2>1, <3>1, NewestOK
  <2>2. CASE Q # {}
    <3>1. Latest(rates, n, Q)
      BY <1>2, <2>2, NewestOK
    <3>2. n \in all /\ rates[n].time <= when
      BY <3>1 DEF Latest
    <3> HIDE DEF n, before, twins
    <3>3. n \in S
      <4>1. CASE rates[n].time > from
        <5>1. Latest(rates, n, twins(n))
          BY <1>1, <3>1, <3>2 DEF Latest, twins
        <5>2. n = Newest(twins(n))
          BY <1>2, <5>1, NewestOK
        <5>. QED  BY <1>1, <3>2, <4>1, <5>2 DEF S
      <4>2. CASE rates[n].time <= from
        <5>1. Latest(rates, n, before)
          BY <1>1, <3>1, <3>2, <4>2 DEF Latest, before
        <5>2. n = Newest(before)
          BY <1>2, <5>1, NewestOK
        <5>. QED  BY <3>2, <5>2 DEF S
      <4>. QED  BY <1>1, <3>2, <4>1, <4>2
    <3>4. PICK k \in 1..Len(h) : h[k] = n
      BY <1>8, <3>3
    <3>5. k \in upTo
      BY <1>9, <3>2, <3>4
    <3>6. \A m \in upTo : m <= k
      <4> SUFFICES ASSUME NEW m \in upTo
                   PROVE  m <= k
        OBVIOUS
      <4>1. h[m] \in Q /\ m \in 1..Len(h)
        BY <1>9
      <4>2. rates[h[m]].time <= rates[n].time
        BY <1>1, <1>9, <3>1, <3>2, <4>1 DEF Latest
      <4>3. rates[n].time \in Int /\ rates[h[m]].time \in Int
        BY <1>1, <1>9, <3>2, <4>1
      <4>4. k < m => rates[n].time < rates[h[m]].time
        BY <1>8, <3>4, <4>1
      <4>. QED  BY <1>9, <4>1, <4>2, <4>3, <4>4
    <3>7. upTo \subseteq Nat
      BY <1>9
    <3> HIDE DEF upTo
    <3>8. Max(upTo) = k
      BY <3>5, <3>6, <3>7, MaxOK
    <3>. QED  BY <3>4, <3>5, <3>8
  <2>. QED  BY <2>1, <2>2
<1>12. LastUpTo(h, when) = n
  BY <1>11 DEF LastUpTo
<1>. QED  BY <1>3, <1>10, <1>12

\* The rows of a report lie in its months.
Timed ==
    \A k \in DOMAIN report.file :
        /\ rows[report.file[k]].time >= report.from
        /\ rows[report.file[k]].time < report.to

\* Balances are valued at times of the window.
Valued ==
    /\ report.points \in Seq(ToSet(report.points))
    /\ \A k \in DOMAIN report.points :
         /\ report.points[k].at \in Int
         /\ IF report.kind = "analysis"
            THEN report.from <= report.points[k].at /\ report.points[k].at <= Now
            ELSE report.kind = "dashboard" /\ report.points[k].at = Now

Begun ==
    /\ report.step \in {"idle", "rows"} => report.points = <<>> /\ report.cache = <<>>
    /\ report.kind = "analysis" =>
         /\ report.first \in Nat /\ report.from = MonthStart(report.first)
         /\ report.from <= Now /\ report.to <= Most(Now, MonthStart(report.last + 1))

\* The history of a pair answers all times of the window.
Answers(pair) ==
    /\ report.cache[pair].known \in 0..Len(rates)
    /\ report.cache[pair].history \in Seq(1..report.cache[pair].known)
    /\ \A when \in Int : RateWindow.from <= when /\ when <= RateWindow.to =>
         Find(pair, when) = Historical(pair, when, report.cache[pair].known)

CacheOK == \A pair \in DOMAIN report.cache : Answers(pair)

ForceInv == Timed /\ Valued /\ Begun /\ CacheOK

Times == {rows[i].time : i \in ToSet(report.file)}
         \cup (IF report.kind = "dashboard" THEN {Now} ELSE {})

LEMMA TimesOK ==
  ASSUME PagesInv
  PROVE  Times \in SUBSET Int /\ IsFiniteSet(Times)
<1> DEFINE F == ToSet(report.file)
           T == {rows[i].time : i \in F}
           f == [i \in F |-> rows[i].time]
<1>1. /\ F \subseteq 1..Len(rows) /\ Len(rows) \in Nat
      /\ \A i \in F : rows[i].time \in Int
  <2>1. \A k \in DOMAIN report.file : report.file[k] \in 1..Len(rows)
    BY DEF PagesInv, ReportTypeOK, Ids
  <2>2. Len(rows) \in Nat /\ \A i \in 1..Len(rows) : rows[i].time \in Int
    BY DEF PagesInv, ReportTypeOK, Stamped
  <2>. QED  BY <2>1, <2>2 DEF ToSet
<1>2. IsFiniteSet(F)
  <2>1. IsFiniteSet(1..Len(rows)) /\ F \in SUBSET (1..Len(rows))
    BY <1>1, FS_Interval
  <2> HIDE DEF F
  <2>. QED  BY ONLY <2>1, FS_Subset
<1>3. f \in Surjection(F, T)
  BY DEF Surjection
<1>4. T \subseteq Int
  BY <1>1
<1>5. Times = T \/ Times = T \cup {Now}
  BY DEF Times
<1> HIDE DEF F, T, f
<1>6. IsFiniteSet(T)
  BY <1>2, <1>3, FS_Surjection
<1>7. IsFiniteSet(T \cup {Now})
  BY <1>6, FS_AddElement
<1>8. IsFiniteSet(Times)
  BY <1>5, <1>6, <1>7
<1>9. \A x \in Times : x \in T \/ x = Now
  BY <1>5
<1>10. Times \subseteq Int
  <2>1. Now \in Int
    BY ReportAssumption
  <2>2. \A x \in T : x \in Int
    BY <1>4
  <2>3. \A x \in Times : x \in Int
    BY <1>9, <2>1, <2>2
  <2>. QED  BY <2>3
<1>. QED  BY <1>8, <1>10

\* The times that a report converts at.
LEMMA DueOK ==
  ASSUME PagesInv, ForceInv, NEW k \in Due
  PROVE  /\ Conversion(k).at \in Int
         /\ IF report.kind = "analysis"
            THEN report.from <= Conversion(k).at
                 /\ Conversion(k).at <= Most(Now, MonthStart(report.last + 1))
            ELSE Conversion(k).at \in Times
<1> DEFINE n == Len(report.points)
<1>1. n \in Nat /\ DOMAIN report.points = 1..n
  BY DEF ForceInv, Valued
<1>2. /\ report.from \in Int /\ report.last \in Int /\ report.to \in Int
      /\ MonthLength \in Int /\ Now \in Int
  BY ReportAssumption DEF PagesInv, ReportTypeOK
<1>3. MonthStart(report.last + 1) \in Int
  BY <1>2 DEF MonthStart
<1>4. CASE k \in DOMAIN report.points
  <2>1. k <= n
    BY <1>1, <1>4
  <2>2. Conversion(k).at = report.points[k].at
    BY <2>1 DEF Conversion
  <2>. QED  BY <1>2, <1>3, <1>4, <2>2 DEF ForceInv, Valued, Most, Times
<1>5. CASE k \notin DOMAIN report.points
  <2>1. PICK m \in DOMAIN report.file : k = n + m
    BY <1>5 DEF Due
  <2>2. /\ DOMAIN report.file = 1..Len(report.file) /\ report.file[m] \in Ids
        /\ rows[report.file[m]].time \in Int /\ m \in Nat /\ m > 0
    <3>1. DOMAIN report.file = 1..Len(report.file) /\ \A j \in DOMAIN report.file : report.file[j] \in Ids
      BY DEF PagesInv, ReportTypeOK
    <3>2. \A j \in Ids : rows[j].time \in Int
      BY DEF PagesInv, ReportTypeOK, Stamped, Ids
    <3>. QED  BY <2>1, <3>1, <3>2
  <2>3. ~(k <= n) /\ k - n = m
    BY <1>1, <2>1, <2>2
  <2>4. Conversion(k).at = rows[report.file[m]].time
    BY <2>3 DEF Conversion
  <2>5. rows[report.file[m]].time \in {rows[i].time : i \in ToSet(report.file)}
    BY <2>1 DEF ToSet
  <2>6. Conversion(k).at \in Times
    BY <2>4, <2>5 DEF Times
  <2>7. report.from <= Conversion(k).at /\ Conversion(k).at < report.to
    BY <2>1, <2>4 DEF ForceInv, Timed
  <2>8. report.kind = "analysis" => report.to <= Most(Now, MonthStart(report.last + 1))
    BY DEF ForceInv, Begun
  <2>9. Most(Now, MonthStart(report.last + 1)) \in Int /\ Conversion(k).at \in Int
    BY <1>2, <1>3, <2>2, <2>4 DEF Most
  <2>. QED  BY <1>2, <2>6, <2>7, <2>8, <2>9
<1>. QED  BY <1>4, <1>5

LEMMA DueInWindow ==
  ASSUME PagesInv, ForceInv, NEW k \in Due
  PROVE  /\ Conversion(k).at \in Int
         /\ RateWindow.from <= Conversion(k).at /\ Conversion(k).at <= RateWindow.to
         /\ RateWindow.from \in Int /\ RateWindow.to \in Int
<1> DEFINE when == Conversion(k).at
<1>1. /\ when \in Int
      /\ report.kind = "analysis" =>
           report.from <= when /\ when <= Most(Now, MonthStart(report.last + 1))
      /\ report.kind # "analysis" => when \in Times
  BY DueOK
<1> HIDE DEF when
<1>2. CASE report.kind = "analysis"
  <2>1. RateWindow.from = report.from
        /\ RateWindow.to = Most(Now, MonthStart(report.last + 1))
    BY <1>2 DEF RateWindow
  <2>2. Most(Now, MonthStart(report.last + 1)) \in Int /\ report.from \in Int
    BY ReportAssumption DEF PagesInv, ReportTypeOK, Most, MonthStart
  <2>. QED  BY <1>1, <1>2, <2>1, <2>2 DEF when
<1>3. CASE report.kind # "analysis"
  <2>1. RateWindow.from = Min(Times) /\ RateWindow.to = Max(Times)
    BY <1>3 DEF RateWindow, Times
  <2>2. /\ Min(Times) \in Times /\ Max(Times) \in Times /\ Times \subseteq Int
        /\ \A x \in Times : Min(Times) <= x /\ x <= Max(Times)
    BY <1>1, <1>3, TimesOK, EndsOK
  <2>. QED  BY <1>1, <1>3, <2>1, <2>2 DEF when
<1>. QED  BY <1>2, <1>3

\* Rates are only added, rows keep their times.
Grows ==
    /\ \A i \in Ids : rows'[i].time = rows[i].time
    /\ Len(rates) <= Len(rates') /\ \A i \in 1..Len(rates) : rates'[i] = rates[i]

SameReport ==
    /\ report'.kind = report.kind /\ report'.first = report.first
    /\ report'.last = report.last /\ report'.from = report.from
    /\ report'.to = report.to /\ report'.file = report.file

LEMMA WindowKept ==
  ASSUME PagesInv, Grows, SameReport
  PROVE  RateWindow' = RateWindow /\ (Timed => Timed')
<1>1. \A k \in DOMAIN report.file : report.file[k] \in Ids
  BY DEF PagesInv, ReportTypeOK
<1>2. \A k \in DOMAIN report.file : rows'[report.file[k]].time = rows[report.file[k]].time
  BY <1>1 DEF Grows
<1>3. {rows'[i].time : i \in ToSet(report.file)} = {rows[i].time : i \in ToSet(report.file)}
  <2>1. \A i \in ToSet(report.file) : rows'[i].time = rows[i].time
    BY <1>2 DEF ToSet
  <2>. QED  BY <2>1
<1>4. ToSet(report.file)' = ToSet(report.file)
  BY DEF SameReport, ToSet
<1>5. RateWindow' = RateWindow
  BY <1>3, <1>4 DEF RateWindow, SameReport
<1>6. Timed => Timed'
  BY <1>2 DEF Timed, SameReport
<1>. QED  BY <1>5, <1>6

\* A history that was loaded answers as before, whatever is stored since.
LEMMA AnswersKept ==
  ASSUME PagesInv, PagesInv', Grows, SameReport, NEW pair, Answers(pair),
         report'.cache[pair] = report.cache[pair]
  PROVE  Answers(pair)'
<1> DEFINE known == report.cache[pair].known
           h == report.cache[pair].history
<1>1. /\ Len(rates) \in Nat /\ Len(rates') \in Nat /\ DOMAIN rates = 1..Len(rates)
      /\ Stamped(rates) /\ Stamped(rates')
  BY DEF PagesInv, ReportTypeOK, Stamped
<1>2. known \in 0..Len(rates) /\ h \in Seq(1..known)
  BY DEF Answers
<1>3. \A k \in DOMAIN h : h[k] \in 1..Len(rates)
  BY <1>1, <1>2
<1>4. \A k \in DOMAIN h : rates'[h[k]] = rates[h[k]]
  BY <1>3 DEF Grows
<1>5. \A when : Find(pair, when)' = Find(pair, when)
  <2> SUFFICES ASSUME NEW when PROVE Find(pair, when)' = Find(pair, when)
    OBVIOUS
  <2>1. {k \in DOMAIN h : rates'[h[k]].time <= when} = {k \in DOMAIN h : rates[h[k]].time <= when}
    BY <1>4
  <2>. QED  BY <2>1 DEF Find
<1>8. \A S \in SUBSET DOMAIN rates : Newest(S)' = Newest(S)
  BY <1>1, NewestKept DEF Grows
<1>9. PICK n : n = known
  OBVIOUS
<1>10. \A when : Historical(pair, when, n)' = Historical(pair, when, n)
  <2> SUFFICES ASSUME NEW when PROVE Historical(pair, when, n)' = Historical(pair, when, n)
    OBVIOUS
  <2>1. PICK S : S = {i \in 1..n : /\ <<rates[i].base, rates[i].target>> = pair
                                  /\ rates[i].time <= when}
    OBVIOUS
  <2>2. S \in SUBSET DOMAIN rates
    BY <1>1, <1>2, <1>9, <2>1
  <2>3. S = {i \in 1..n : /\ <<rates'[i].base, rates'[i].target>> = pair
                          /\ rates'[i].time <= when}
    BY <1>1, <1>2, <1>9, <2>1 DEF Grows
  <2>4. S = {i \in Quoted(pair, n) : rates[i].time <= when}
    BY <2>1 DEF Quoted
  <2>5. S = {i \in Quoted(pair, n)' : rates'[i].time <= when}
    BY <2>3 DEF Quoted
  <2>6. Historical(pair, when, n) = Newest(S)
    BY <2>4 DEF Historical
  <2>7. Historical(pair, when, n)' = Newest(S)'
    BY <2>5 DEF Historical
  <2>. QED  BY <1>8, <2>2, <2>6, <2>7
<1>6. \A when : Historical(pair, when, known)' = Historical(pair, when, known)
  <2>1. report'.cache[pair].known = n
    BY <1>9
  <2>. QED  BY <1>9, <1>10, <2>1
<1>7. RateWindow' = RateWindow
  BY WindowKept
<1>11. \A when \in Int : RateWindow'.from <= when /\ when <= RateWindow'.to =>
          Find(pair, when)' = Historical(pair, when, known)'
  BY <1>5, <1>6, <1>7 DEF Answers
<1>12. known' \in 0..Len(rates') /\ h' \in Seq(1..known')
  BY <1>1, <1>2 DEF Grows
<1>. QED  BY <1>11, <1>12 DEF Answers

\* A step that reads at most a balance or a history.
LEMMA ReadsOK ==
  ASSUME PagesInv, PagesInv', ForceInv, Grows, SameReport,
         report'.step \in {"idle", "rows"} =>
            /\ report.step \in {"idle", "rows"}
            /\ report'.points = report.points /\ report'.cache = report.cache,
         report'.points = report.points \/ Valued',
         report'.cache = report.cache \/ CacheOK'
  PROVE  ForceInv'
<1>1. Timed'
  BY WindowKept DEF ForceInv
<1>2. Valued'
  BY DEF ForceInv, Valued, SameReport
<1>3. Begun'
  BY DEF ForceInv, Begun, SameReport, Most, MonthStart
<1>4. CacheOK'
  <2>1. CASE report'.cache = report.cache
    <3>1. \A pair \in DOMAIN report.cache : Answers(pair)'
      BY <2>1, AnswersKept DEF ForceInv, CacheOK
    <3>. QED  BY <2>1, <3>1 DEF CacheOK
  <2>. QED  BY <2>1
<1>. QED  BY <1>1, <1>2, <1>3, <1>4 DEF ForceInv

\* Nothing was read of the balances and the rates yet.
LEMMA FreshOK ==
  ASSUME report.points = <<>>, report.cache = <<>>
  PROVE  Valued /\ CacheOK
  BY DEF Valued, CacheOK

LEMMA ForceStart ==
  ASSUME PagesInv, NEW kind, NEW first \in 0..Today, NEW last \in 0..Today,
         Start(kind, first, last)
  PROVE  ForceInv'
<1> DEFINE range == Asked(kind, first, last)
<1>1. /\ report' = [Quiet EXCEPT !.kind = kind, !.step = "rows",
                                 !.first = first, !.last = last,
                                 !.from = range.from, !.to = range.to,
                                 !.steady = Within(range.from, range.to),
                                 !.ever = Within(range.from, range.to)]
      /\ first <= last /\ (kind = "analysis" => MonthStart(last) <= Now)
  BY DEF Start
<1>2. /\ report'.kind = kind /\ report'.first = first /\ report'.last = last
      /\ report'.from = range.from /\ report'.to = range.to
      /\ report'.file = <<>> /\ report'.points = <<>> /\ report'.cache = <<>>
  BY <1>1 DEF Quiet
<1>3. Timed'
  BY <1>2 DEF Timed
<1>4. Valued' /\ CacheOK'
  BY <1>2 DEF Valued, CacheOK
<1>5. Begun'
  <2>1. first \in Nat /\ last \in Nat /\ MonthLength \in Nat /\ Now \in Nat
    BY ReportAssumption DEF Today
  <2>2. range.from = MonthStart(first)
    BY DEF Asked
  <2>3. ASSUME kind = "analysis"
        PROVE  /\ MonthStart(first) <= Now
               /\ range.to <= Most(Now, MonthStart(last + 1))
    <3>1. MonthStart(first) <= MonthStart(last) /\ MonthStart(first) \in Int
          /\ MonthStart(last) \in Int /\ MonthStart(last + 1) \in Int
      BY <1>1, <2>1 DEF MonthStart
    <3>2. range.to = Least(MonthStart(last + 1), Now)
      BY <2>3 DEF Asked
    <3>. QED  BY <1>1, <2>1, <2>3, <3>1, <3>2 DEF Least, Most
  <2> HIDE DEF range
  <2>. QED  BY <1>2, <2>1, <2>2, <2>3 DEF Begun, MonthStart, Most
<1>. QED  BY <1>3, <1>4, <1>5 DEF ForceInv

\* The rows that are read lie in the months asked for.
LEMMA ForceRows ==
  ASSUME PagesInv, ForceInv, ReadPage \/ ReadRange
  PROVE  ForceInv'
<1> DEFINE In(i) == rows[i].time >= report.from /\ rows[i].time < report.to
<1>1. /\ rows' = rows /\ rates' = rates /\ report.step = "rows"
      /\ report.points = <<>> /\ report.cache = <<>>
      /\ \A i \in Within(report.from, report.to) : In(i)
      /\ \A k \in DOMAIN report.file : In(report.file[k])
  BY DEF ReadPage, ReadRange, ForceInv, Begun, Timed, Within
<1>2. /\ report'.kind = report.kind /\ report'.first = report.first
      /\ report'.last = report.last /\ report'.from = report.from
      /\ report'.to = report.to
      /\ report'.points = report.points /\ report'.cache = report.cache
      /\ \A k \in DOMAIN report'.file : In(report'.file[k])
  <2>1. CASE ReadRange
    <3> DEFINE s == Ascending(Within(report.from, report.to))
    <3>1. s \in Seq(Within(report.from, report.to))
      BY AscendingOK DEF PagesInv, ReportTypeOK, Within
    <3>2. report' = [report EXCEPT !.file = s, !.step = "values"]
      BY <2>1 DEF ReadRange
    <3> HIDE DEF s
    <3>3. \A k \in DOMAIN s : In(s[k])
      BY <1>1, <3>1
    <3>. QED  BY <1>1, <3>2, <3>3 DEF PagesInv, ReportTypeOK, IsReport
  <2>2. CASE ReadPage
    <3> DEFINE d == Reverse(Ascending(Below))
               n == Least(PageSize, Len(d))
               page == SubSeq(d, 1, n)
    <3>1. PICK next : \/ report' = [report EXCEPT !.step = "refused"]
                      \/ report' = [report EXCEPT !.file = report.file \o page, !.step = next]
      BY <2>2 DEF ReadPage
    <3>2. d \in Seq(Below) /\ Below \subseteq Ids
      BY DescendingOK DEF PagesInv, ReportTypeOK, Below, Within
    <3> HIDE DEF d
    <3>3. n \in 0..Len(d) /\ Len(d) \in Nat /\ \A k \in 1..Len(d) : d[k] \in Below
      BY <3>2, ReportAssumption DEF Least
    <3> HIDE DEF n
    <3>4. page \in Seq(Below)
      BY <3>2, <3>3
    <3> HIDE DEF page
    <3>5. report.file \in Seq(Ids) /\ page \in Seq(Ids)
      BY <3>2, <3>4 DEF PagesInv, ReportTypeOK
    <3>6. /\ report.file \o page \in Seq(Ids)
          /\ Len(report.file \o page) = Len(report.file) + Len(page)
          /\ \A k \in 1..Len(report.file) + Len(page) :
               (report.file \o page)[k] = IF k <= Len(report.file) THEN report.file[k]
                                          ELSE page[k - Len(report.file)]
      BY ONLY <3>5, ConcatProperties
    <3>7. \A i \in Below : In(i)
      BY <1>1 DEF Below
    <3>8. \A k \in DOMAIN (report.file \o page) : In((report.file \o page)[k])
      <4> SUFFICES ASSUME NEW k \in DOMAIN (report.file \o page)
                   PROVE  In((report.file \o page)[k])
        OBVIOUS
      <4>1. /\ k \in 1..Len(report.file) + Len(page)
            /\ k \in 1..Len(report.file) \/ k - Len(report.file) \in 1..Len(page)
        BY <3>5, <3>6
      <4>2. CASE k \in 1..Len(report.file)
        BY <1>1, <3>5, <3>6, <4>1, <4>2
      <4>3. CASE k \notin 1..Len(report.file)
        <5>1. ~(k <= Len(report.file)) /\ k - Len(report.file) \in 1..Len(page)
          BY <3>5, <4>1, <4>3
        <5>2. page[k - Len(report.file)] \in Below
          BY <3>4, <5>1
        <5>. QED  BY <3>6, <3>7, <4>1, <5>1, <5>2
      <4>. QED  BY <4>2, <4>3
    <3>. QED  BY <1>1, <3>1, <3>8 DEF PagesInv, ReportTypeOK, IsReport
  <2>. QED  BY <2>1, <2>2
<1>3. Timed'
  BY <1>1, <1>2 DEF Timed
<1>4. Valued' /\ CacheOK'
  BY <1>1, <1>2 DEF Valued, CacheOK
<1>5. Begun'
  BY <1>1, <1>2 DEF ForceInv, Begun, Most, MonthStart
<1>. QED  BY <1>3, <1>4, <1>5 DEF ForceInv

\* A month is valued after it began, and not after the time of the report.
LEMMA ValuedAtOK ==
  ASSUME report.first \in Nat, MonthStart(report.first) <= Now, NEW k \in Nat, k >= 1
  PROVE  /\ ValuedAt(k) \in Int
         /\ MonthStart(report.first) <= ValuedAt(k) /\ ValuedAt(k) <= Now
<1> DEFINE end == MonthStart(report.first + k)
<1>1. Now \in Nat /\ MonthLength \in Nat /\ MonthLength > 0
  BY ReportAssumption
<1>2. k * MonthLength >= MonthLength
  BY <1>1
<1>3. end = report.first * MonthLength + k * MonthLength
  BY <1>1 DEF MonthStart
<1>4. /\ end \in Int /\ MonthStart(report.first) \in Int
      /\ end - 1 >= MonthStart(report.first)
  BY <1>1, <1>2, <1>3 DEF MonthStart
<1>5. ValuedAt(k) = IF Least(end, Now) = Now THEN Now ELSE Least(end, Now) - 1
  BY DEF ValuedAt
<1> HIDE DEF end
<1>. QED  BY <1>1, <1>4, <1>5 DEF Least

LEMMA ListedOK ==
  ASSUME NEW n \in Nat, NEW s, s = [k \in 1..n |-> s[k]]
  PROVE  s \in Seq(ToSet(s)) /\ Len(s) = n /\ DOMAIN s = 1..n
<1>1. DOMAIN s = 1..n
  OBVIOUS
<1>2. \A k \in 1..n : s[k] \in ToSet(s)
  BY <1>1 DEF ToSet
<1>. QED  BY <1>1, <1>2

\* A balance is valued within the window of the rates.
LEMMA ForceBalance ==
  ASSUME PagesInv, PagesInv', ForceInv, ReadBalance
  PROVE  ForceInv'
<1> DEFINE read == Len(report.points)
           n == Cardinality(Accounts)
           month == read \div n + 1
           balance(k, until, when) == [account |-> AccountOrder[k], at |-> when,
                                     amount |-> BalanceAt(AccountOrder[k], until)]
           next == IF report.kind = "analysis"
                   THEN [k \in 1..n |-> balance(k, ValuedAt(month), ValuedAt(month))]
                   ELSE <<balance(read + 1, Forever, Now)>>
           Suits(p) == /\ p.at \in Int
                      /\ IF report.kind = "analysis"
                         THEN report.from <= p.at /\ p.at <= Now
                         ELSE report.kind = "dashboard" /\ p.at = Now
<1>1. /\ report' = [report EXCEPT !.points = @ \o next]
      /\ rows' = rows /\ rates' = rates /\ report.step = "values"
      /\ read < Points(report.kind)
  BY DEF ReadBalance, Converting
<1>2. n \in Nat /\ read \in Nat /\ Now \in Nat
  BY ReportAssumption, FS_CardinalityType DEF ForceInv, Valued
<1>3. next \in Seq(ToSet(next)) /\ \A k \in 1..Len(next) : Suits(next[k])
  <2>1. CASE report.kind = "analysis"
    <3> DEFINE when == ValuedAt(month)
               point(k) == balance(k, when, when)
    <3>1. report.last \in Int /\ report.first \in Int
      BY DEF PagesInv, ReportTypeOK
    <3>2. n # 0
      BY <1>1, <1>2, <2>1, <3>1 DEF Points
    <3>3. month \in Nat /\ month >= 1
      BY <1>2, <3>2
    <3> HIDE DEF month
    <3>4. when \in Int /\ report.from <= when /\ when <= Now
      BY <2>1, <3>3, ValuedAtOK DEF ForceInv, Begun
    <3>5. \A k : point(k).at = when
      OBVIOUS
    <3>6. next = [k \in 1..n |-> point(k)]
      BY <2>1 DEF month
    <3> HIDE DEF next, point, when
    <3>7. \A k : Suits(point(k))
      BY <2>1, <3>4, <3>5
    <3>. QED  BY <1>2, <3>6, <3>7, ListedOK
  <2>2. CASE report.kind # "analysis"
    <3> DEFINE point(k) == balance(read + 1, Forever, Now)
    <3>1. report.kind = "dashboard"
      BY <1>1, <1>2, <2>2 DEF Points
    <3>2. \A k : point(k).at = Now
      OBVIOUS
    <3>3. next = <<point(1)>>
      BY <2>2
    <3> HIDE DEF next
    <3>4. next = [k \in 1..1 |-> point(k)]
      BY <3>3
    <3> HIDE DEF point
    <3>5. \A k : Suits(point(k))
      BY <1>2, <3>1, <3>2
    <3>. QED  BY <3>4, <3>5, ListedOK
  <2>. QED  BY <2>1, <2>2
<1> HIDE DEF next, n
<1>4. /\ report'.kind = report.kind /\ report'.first = report.first
      /\ report'.last = report.last /\ report'.from = report.from
      /\ report'.to = report.to /\ report'.file = report.file
      /\ report'.step = "values" /\ report'.cache = report.cache
      /\ report'.points = report.points \o next
  BY <1>1 DEF PagesInv, ReportTypeOK, IsReport
<1>5. Valued'
  <2> DEFINE B == ToSet(report.points) \cup ToSet(next)
             all == report.points \o next
  <2>1. /\ report.points \in Seq(ToSet(report.points))
        /\ \A k \in 1..read : Suits(report.points[k])
    BY DEF ForceInv, Valued
  <2>2. report.points \in Seq(B) /\ next \in Seq(B)
    BY <1>3, <2>1
  <2> HIDE DEF B
  <2>3. /\ all \in Seq(B) /\ Len(all) = read + Len(next)
        /\ \A k \in 1..read + Len(next) :
             all[k] = IF k <= read THEN report.points[k] ELSE next[k - read]
    BY ONLY <2>2, ConcatProperties
  <2>4. DOMAIN all = 1..read + Len(next) /\ Len(next) \in Nat
    BY <1>3, <2>3
  <2> HIDE DEF all
  <2>5. \A k \in 1..read + Len(next) : Suits(all[k])
    <3> SUFFICES ASSUME NEW k \in 1..read + Len(next)
                 PROVE  Suits(all[k])
      OBVIOUS
    <3>1. CASE k <= read
      <4>1. k \in 1..read /\ all[k] = report.points[k]
        BY <1>2, <2>3, <2>4, <3>1
      <4>. QED  BY <2>1, <4>1
    <3>2. CASE ~(k <= read)
      <4>1. k - read \in 1..Len(next) /\ all[k] = next[k - read]
        BY <1>2, <2>3, <2>4, <3>2
      <4>. QED  BY <1>3, <4>1
    <3>. QED  BY <3>1, <3>2
  <2>6. all \in Seq(ToSet(all))
    <3>1. \A k \in 1..read + Len(next) : all[k] \in ToSet(all)
      BY <2>4 DEF ToSet
    <3>. QED  BY <2>3, <2>4, <3>1
  <2>7. report'.points = all
    BY <1>4 DEF all
  <2>. QED  BY <1>4, <2>4, <2>5, <2>6, <2>7 DEF Valued
<1>. QED  BY <1>1, <1>4, <1>5, ReadsOK DEF Grows, SameReport, Ids

\* A history is loaded from the rates there are, for the window of the report.
LEMMA ForceLoad ==
  ASSUME PagesInv, PagesInv', ForceInv, LoadHistory
  PROVE  ForceInv'
<1>1. PICK pair :
        /\ report' = [report EXCEPT !.cache =
               [p \in DOMAIN @ \cup {pair} |->
                   IF p = pair
                   THEN [known |-> Len(rates),
                         history |-> History(pair, RateWindow.from, RateWindow.to)]
                   ELSE @[p]]]
        /\ rows' = rows /\ rates' = rates /\ report.step = "values" /\ Wanted # {}
  BY DEF LoadHistory, Converting
<1> DEFINE h == History(pair, RateWindow.from, RateWindow.to)
           loaded == [known |-> Len(rates), history |-> h]
<1>2. /\ RateWindow.from \in Int /\ RateWindow.to \in Int
      /\ RateWindow.from <= RateWindow.to
  <2>1. PICK k \in Due : TRUE
    BY <1>1 DEF Wanted
  <2>2. /\ Conversion(k).at \in Int
        /\ RateWindow.from <= Conversion(k).at /\ Conversion(k).at <= RateWindow.to
        /\ RateWindow.from \in Int /\ RateWindow.to \in Int
    BY DueInWindow
  <2>. QED  BY <2>2
<1>3. /\ report'.kind = report.kind /\ report'.first = report.first
      /\ report'.last = report.last /\ report'.from = report.from
      /\ report'.to = report.to /\ report'.file = report.file
      /\ report'.step = "values" /\ report'.points = report.points
      /\ report'.cache = [p \in DOMAIN report.cache \cup {pair} |->
                             IF p = pair THEN loaded ELSE report.cache[p]]
  BY <1>1 DEF PagesInv, ReportTypeOK, IsReport
<1>4. /\ DOMAIN report'.cache = DOMAIN report.cache \cup {pair}
      /\ \A p \in DOMAIN report.cache : p # pair => report'.cache[p] = report.cache[p]
      /\ report'.cache[pair].known = Len(rates)
      /\ report'.cache[pair].history = h
  <2> HIDE DEF h
  <2>. QED  BY <1>3
<1>5. Grows /\ SameReport
  BY <1>1, <1>3 DEF Grows, SameReport, Ids
<1>6. \A p \in DOMAIN report.cache : p # pair => Answers(p)'
  BY <1>4, <1>5, AnswersKept DEF ForceInv, CacheOK
<1>7. Answers(pair)'
  <2>1. RateWindow' = RateWindow
    BY <1>5, WindowKept
  <2>2. Stamped(rates) /\ Len(rates) \in Nat
    BY DEF PagesInv, ReportTypeOK, Stamped
  <2>3. PICK from \in Int, to \in Int : from = RateWindow.from /\ to = RateWindow.to
    BY <1>2
  <2>4. PICK s, n : s = History(pair, from, to) /\ n = Len(rates)
    OBVIOUS
  <2>5. \A when \in Int : from <= when /\ when <= to =>
           s \in Seq(1..n) /\ LastUpTo(s, when) = Historical(pair, when, n)
    BY <2>2, <2>4, HistoryFound
  <2>6. s \in Seq(1..n)
    <3>1. from <= from /\ from <= to
      BY <1>2, <2>3
    <3>. QED  BY <2>5, <3>1
  <2>7. report'.cache[pair].history = s /\ report'.cache[pair].known = n
    BY <1>4, <2>3, <2>4
  <2>8. \A when : Find(pair, when)' = LastUpTo(s, when)
    <3> SUFFICES ASSUME NEW when PROVE Find(pair, when)' = LastUpTo(s, when)
      OBVIOUS
    <3>1. PICK upTo : upTo = {k \in DOMAIN s : rates[s[k]].time <= when}
      OBVIOUS
    <3>2. upTo = {k \in DOMAIN s : rates'[s[k]].time <= when}
      BY <1>1, <3>1
    <3>3. LastUpTo(s, when) = IF upTo = {} THEN None ELSE s[Max(upTo)]
      BY <3>1 DEF LastUpTo
    <3>4. Find(pair, when)' = IF upTo = {} THEN None ELSE s[Max(upTo)]
      BY <2>7, <3>2 DEF Find
    <3>. QED  BY <3>3, <3>4
  <2>9. \A when : Historical(pair, when, n)' = Historical(pair, when, n)
    BY <1>1 DEF Historical, Quoted, Newest
  <2>10. \A when \in Int : RateWindow'.from <= when /\ when <= RateWindow'.to =>
           Find(pair, when)' = Historical(pair, when, n)'
    BY <2>1, <2>3, <2>5, <2>8, <2>9
  <2>11. (report.cache[pair].known = n)' /\ (report.cache[pair].history \in Seq(1..n))'
         /\ n \in 0..Len(rates')
    BY <1>1, <2>2, <2>4, <2>6, <2>7
  <2>. QED  BY <2>7, <2>10, <2>11 DEF Answers
<1>. QED  BY <1>3, <1>4, <1>5, <1>6, <1>7, ReadsOK DEF CacheOK

\* Another request changes no time of a row and no rate.
LEMMA ForceWrites ==
  ASSUME PagesInv, PagesInv', ForceInv, NEW removed, NEW added,
         Evolves(removed, added), rates' = rates
  PROVE  ForceInv'
<1>1. /\ report'.kind = report.kind /\ report'.step = report.step
      /\ report'.first = report.first /\ report'.last = report.last
      /\ report'.from = report.from /\ report'.to = report.to
      /\ report'.file = report.file /\ report'.points = report.points
      /\ report'.cache = report.cache
  BY WitnessedFields DEF PagesInv, ReportTypeOK, Evolves
<1>2. Len(rates) \in Nat
  BY DEF PagesInv, ReportTypeOK, Stamped
<1>3. Grows /\ SameReport
  BY <1>1, <1>2 DEF Evolves, Grows, SameReport
<1>. QED  BY <1>1, <1>3, ReadsOK

LEMMA ForceInit == ReportInit => ForceInv
<1> SUFFICES ASSUME ReportInit PROVE ForceInv
  OBVIOUS
<1>1. report = Quiet
  BY DEF ReportInit
<1>2. Timed /\ Valued /\ CacheOK
  BY <1>1 DEF Quiet, Timed, Valued, CacheOK
<1>3. Begun
  BY <1>1, ReportAssumption DEF Quiet, Begun, MonthStart, Most
<1>. QED  BY <1>2, <1>3 DEF ForceInv

LEMMA ForceNext ==
  ASSUME PagesInv, PagesInv', ForceInv, [ReportNext]_reportVars
  PROVE  ForceInv'
<1>0. Len(rates) \in Nat /\ Stamped(rates) /\ IsReport
  BY DEF PagesInv, ReportTypeOK, Stamped
<1>1. CASE Post
  BY <1>1, PostEvolves, ForceWrites
<1>2. CASE Move
  BY <1>2, MoveEvolves, ForceWrites
<1>3. CASE Correct
  BY <1>3, CorrectEvolves, ForceWrites
<1>4. CASE Delete
  BY <1>4, DeleteEvolves, ForceWrites
<1>5. CASE CreateCategory
  <2>1. rows' = rows /\ rates' = rates /\ report' = report
    BY <1>5 DEF CreateCategory
  <2>2. Grows /\ SameReport
    BY <1>0, <2>1 DEF Grows, SameReport
  <2>. QED  BY <2>1, <2>2, ReadsOK
<1>6. CASE Quote
  <2>1. PICK q \in Quotes : rates' = Append(rates, q) /\ rows' = rows /\ report' = report
    BY <1>6 DEF Quote
  <2>2. q.time \in Int
    BY TimeAssumption
  <2>3. /\ Len(rates') = Len(rates) + 1
        /\ \A i \in 1..Len(rates) : rates'[i] = rates[i]
    BY <1>0, <2>1, <2>2, AppendStamped
  <2>4. Grows /\ SameReport
    BY <1>0, <2>1, <2>3 DEF Grows, SameReport
  <2>. QED  BY <2>1, <2>4, ReadsOK
<1>7. CASE \E kind \in {"export", "analysis", "dashboard", "trend"},
              first, last \in 0..Today : Start(kind, first, last)
  BY <1>7, ForceStart
<1>8. CASE ReadPage \/ ReadRange
  BY <1>8, ForceRows
<1>9. CASE ReadBalance
  BY <1>9, ForceBalance
<1>10. CASE LoadHistory
  BY <1>10, ForceLoad
<1>11. CASE ReadCategories \/ FinishValues \/ Sum \/ GiveUp
  <2> DEFINE Holds == /\ rows' = rows /\ rates' = rates
                      /\ report'.step \notin {"idle", "rows"}
                      /\ report'.points = report.points /\ report'.cache = report.cache
                      /\ SameReport
  <2>1. ReadCategories => Holds
    BY <1>0 DEF ReadCategories, IsReport, SameReport
  <2>2. FinishValues => Holds
    BY <1>0 DEF FinishValues, IsReport, SameReport
  <2>3. Sum \/ GiveUp => Holds
    BY <1>0 DEF Sum, GiveUp, IsReport, SameReport
  <2>4. Holds
    BY <1>11, <2>1, <2>2, <2>3
  <2>5. Grows
    BY <1>0, <2>4 DEF Grows
  <2>. QED  BY <2>4, <2>5, ReadsOK
<1>12. CASE Answer
  <2>1. report' = Quiet
    BY <1>12 DEF Answer
  <2>2. Timed' /\ Valued' /\ CacheOK'
    BY <2>1 DEF Quiet, Timed, Valued, CacheOK
  <2>3. Begun'
    BY <2>1, ReportAssumption DEF Quiet, Begun, MonthStart, Most
  <2>. QED  BY <2>2, <2>3 DEF ForceInv
<1>13. CASE UNCHANGED reportVars
  <2>1. rows' = rows /\ rates' = rates /\ report' = report
    BY <1>13 DEF reportVars
  <2>2. Grows /\ SameReport
    BY <1>0, <2>1 DEF Grows, SameReport
  <2>. QED  BY <2>1, <2>2, ReadsOK
<1>. QED  BY <1>1, <1>2, <1>3, <1>4, <1>5, <1>6, <1>7, <1>8, <1>9, <1>10, <1>11, <1>12,
             <1>13 DEF ReportNext, Write, Read

\* A figure of the past is converted with the rate in force at its time: the
\* history that was loaded once for a pair answers each time of the report.
THEOREM RatesAreInForce == ReportSpec => []RatesInForce
<1>1. ReportInit => ForceInv
  BY ForceInit
<1>2. PagesInv /\ PagesInv' /\ ForceInv /\ [ReportNext]_reportVars => ForceInv'
  BY ForceNext
<1>3. PagesInv /\ ForceInv => RatesInForce
  <2> SUFFICES ASSUME PagesInv, ForceInv, NEW pair \in DOMAIN report.cache, NEW k \in Due
               PROVE  Find(pair, Conversion(k).at)
                        = Historical(pair, Conversion(k).at, report.cache[pair].known)
    BY DEF RatesInForce
  <2>1. /\ Conversion(k).at \in Int
        /\ RateWindow.from <= Conversion(k).at /\ Conversion(k).at <= RateWindow.to
    BY DueInWindow
  <2>. QED  BY <2>1 DEF ForceInv, CacheOK, Answers
<1>. QED  BY <1>1, <1>2, <1>3, PagesAlways, PTL DEF ReportSpec

-----------------------------------------------------------------------------
(* Exact sums.                                                             *)

Summed(s, v) == s = [k \in 0..Len(v) |-> IF k = 0 THEN 0 ELSE s[k - 1] + v[k]]

(* What the first numbers add up to, for each number of them.              *)
SumsTo(v) == CHOOSE s : Summed(s, v)

LEMMA SumsOK ==
  ASSUME NEW v \in Seq(Int)
  PROVE  /\ SumsTo(v)[0] = 0
         /\ \A k \in 1..Len(v) : SumsTo(v)[k] = SumsTo(v)[k - 1] + v[k]
         /\ \A k \in 0..Len(v) : SumsTo(v)[k] \in Int
         /\ SumSeq(v) = SumsTo(v)[Len(v)] /\ SumSeq(v) \in Int
<1> DEFINE step == [k \in 1..Len(v) |-> [x \in Int |-> x + v[k]]]
<1>1. Len(v) \in Nat /\ \A k \in 1..Len(v) : v[k] \in Int
  OBVIOUS
<1>2. step \in [1..Len(v) -> [Int -> Int]]
  BY <1>1
<1>3. \A k \in 1..Len(v), x \in Int : step[k][x] = x + v[k]
  OBVIOUS
<1> HIDE DEF step
<1>4. PICK f \in [0..Len(v) -> Int] :
        f[0] = 0 /\ \A k \in 1..Len(v) : f[k] = step[k][f[k - 1]]
  <2>1. Len(v) \in Nat /\ 0 \in Int
    BY <1>1
  <2>2. Runs(Int, 0, Len(v), step)
    BY ONLY <1>2, <2>1, Recursion
  <2>. QED  BY <2>2 DEF Runs
<1>5. \A k \in 0..Len(v) : f[k] = IF k = 0 THEN 0 ELSE f[k - 1] + v[k]
  <2> SUFFICES ASSUME NEW k \in 1..Len(v) PROVE f[k] = f[k - 1] + v[k]
    BY <1>1, <1>4
  <2>1. f[k - 1] \in Int
    BY <1>1
  <2>. QED  BY <1>3, <1>4, <2>1
<1>6. Summed(f, v)
  BY <1>5 DEF Summed
<1>7. Summed(SumsTo(v), v)
  BY <1>6 DEF SumsTo
<1> DEFINE g == SumsTo(v)
<1>8. SumSeq(v) = g[Len(v)]
  BY DEF SumSeq, SumsTo, Summed
<1> HIDE DEF g
<1>9. \A k \in 0..Len(v) : g[k] = IF k = 0 THEN 0 ELSE g[k - 1] + v[k]
  BY <1>7 DEF Summed, g
<1>10. g[0] = 0 /\ \A k \in 1..Len(v) : g[k] = g[k - 1] + v[k]
  BY <1>1, <1>9
<1>11. \A k \in 0..Len(v) : g[k] \in Int
  <2> DEFINE S == {k \in 0..Len(v) : g[k] \in Int}
  <2>1. 0 \in S
    BY <1>1, <1>10
  <2>2. \A n \in 0..Len(v) - 1 : n \in S => n + 1 \in S
    <3> SUFFICES ASSUME NEW n \in 0..Len(v) - 1, g[n] \in Int
                 PROVE  n + 1 \in 0..Len(v) /\ g[n + 1] \in Int
      OBVIOUS
    <3>1. n + 1 \in 1..Len(v) /\ (n + 1) - 1 = n
      BY <1>1
    <3>. QED  BY <1>1, <1>10, <3>1
  <2> HIDE DEF S
  <2>3. \A n \in 0..Len(v) : n \in S
    BY <1>1, <2>1, <2>2, Steps
  <2>. QED  BY <2>3 DEF S
<1>12. Len(v) \in 0..Len(v)
  BY <1>1
<1>. QED  BY <1>8, <1>10, <1>11, <1>12 DEF g

(* Numbers in a row.                                                       *)
Numbers(n) == [1..n -> Int]

LEMMA RowOK ==
  ASSUME NEW n \in Nat, NEW v \in Numbers(n)
  PROVE  v \in Seq(Int) /\ Len(v) = n /\ DOMAIN v = 1..n /\ \A k \in 1..n : v[k] \in Int
  BY DEF Numbers

(* The sum of sums is the sum of all.                                      *)
LEMMA SumsAdd ==
  ASSUME NEW n \in Nat, NEW u \in Numbers(n), NEW v \in Numbers(n),
         NEW w \in Numbers(n), \A k \in 1..n : w[k] = u[k] + v[k]
  PROVE  SumSeq(w) = SumSeq(u) + SumSeq(v)
<1>1. /\ u \in Seq(Int) /\ v \in Seq(Int) /\ w \in Seq(Int)
      /\ Len(u) = n /\ Len(v) = n /\ Len(w) = n
      /\ \A k \in 1..n : u[k] \in Int /\ v[k] \in Int
  BY RowOK
<1> DEFINE U == SumsTo(u)
           V == SumsTo(v)
           T == SumsTo(w)
           S == {k \in 0..n : T[k] = U[k] + V[k]}
<1>2. U[0] = 0 /\ V[0] = 0 /\ T[0] = 0
  BY <1>1, SumsOK
<1>3. \A k \in 1..n : U[k] = U[k - 1] + u[k] /\ V[k] = V[k - 1] + v[k] /\ T[k] = T[k - 1] + w[k]
  BY <1>1, SumsOK
<1>4. \A k \in 0..n : U[k] \in Int /\ V[k] \in Int /\ T[k] \in Int
  BY <1>1, SumsOK
<1>5. SumSeq(u) = U[n] /\ SumSeq(v) = V[n] /\ SumSeq(w) = T[n]
  BY <1>1, SumsOK
<1> HIDE DEF U, V, T
<1>6. 0 \in S
  BY <1>2
<1>7. \A k \in 0..n - 1 : k \in S => k + 1 \in S
  <2> SUFFICES ASSUME NEW k \in 0..n - 1, T[k] = U[k] + V[k]
               PROVE  k + 1 \in 0..n /\ T[k + 1] = U[k + 1] + V[k + 1]
    OBVIOUS
  <2>1. k + 1 \in 1..n /\ k \in 0..n /\ (k + 1) - 1 = k
    OBVIOUS
  <2>2. u[k + 1] \in Int /\ v[k + 1] \in Int /\ w[k + 1] = u[k + 1] + v[k + 1]
    BY <1>1, <2>1
  <2>. QED  BY <1>3, <1>4, <2>1, <2>2
<1> HIDE DEF S
<1>8. \A k \in 0..n : k \in S
  BY <1>6, <1>7, Steps
<1>. QED  BY <1>5, <1>8 DEF S

LEMMA SumOfNothing ==
  ASSUME NEW n \in Nat, NEW v \in Numbers(n), \A k \in 1..n : v[k] = 0
  PROVE  SumSeq(v) = 0
<1>1. v \in Seq(Int) /\ Len(v) = n
  BY RowOK
<1> DEFINE V == SumsTo(v)
           S == {k \in 0..n : V[k] = 0}
<1>2. V[0] = 0 /\ (\A k \in 1..n : V[k] = V[k - 1] + v[k]) /\ SumSeq(v) = V[n]
  BY <1>1, SumsOK
<1> HIDE DEF V
<1>3. 0 \in S
  BY <1>2
<1>4. \A k \in 0..n - 1 : k \in S => k + 1 \in S
  <2> SUFFICES ASSUME NEW k \in 0..n - 1, V[k] = 0
               PROVE  k + 1 \in 0..n /\ V[k + 1] = 0
    OBVIOUS
  <2>1. k + 1 \in 1..n /\ (k + 1) - 1 = k
    OBVIOUS
  <2>. QED  BY <1>2, <2>1
<1> HIDE DEF S
<1>5. \A k \in 0..n : k \in S
  BY <1>3, <1>4, Steps
<1>. QED  BY <1>2, <1>5 DEF S

-----------------------------------------------------------------------------
(* A sum of the program is exact or has failed.                            *)

Words == -(SignedMax + 1)..SignedMax

LEMMA PlusExact ==
  ASSUME NEW x \in Words, NEW y \in Words, Add(x, y).ok
  PROVE  Add(x, y).value = x + y /\ x + y \in Words
<1>1. CheckedAdd(x, y) = IfInWord(x + y)
  BY AddExact DEF Words
<1>. QED  BY <1>1 DEF Add, IfInWord, Some, Fail, Words

Totalling(t, v) == t = [k \in 0..Len(v) |-> IF k = 0 THEN Some(0) ELSE Plus(t[k - 1], v[k])]
Totals(v) == CHOOSE t : Totalling(t, v)

Results == {Some(x) : x \in Words} \cup {Fail}

LEMMA PlusOK ==
  ASSUME NEW r \in Results, NEW y \in Words
  PROVE  /\ Plus(r, y) \in Results
         /\ Plus(r, y).ok => r.ok /\ Plus(r, y).value = r.value + y
<1>1. CASE r.ok
  <2>1. r.value \in Words /\ Plus(r, y) = IfInWord(r.value + y)
    BY <1>1, AddExact DEF Results, Plus, Add, Some, Fail, Words
  <2>2. CASE r.value + y \in Words
    <3>1. Plus(r, y) = Some(r.value + y)
      BY <2>1, <2>2 DEF IfInWord, Words
    <3>2. Some(r.value + y).value = r.value + y /\ Some(r.value + y) \in Results
      BY <2>2 DEF Some, Results
    <3>. QED  BY <1>1, <3>1, <3>2
  <2>3. CASE r.value + y \notin Words
    BY <1>1, <2>1, <2>3 DEF IfInWord, Results, Fail, Words
  <2>. QED  BY <2>2, <2>3
<1>2. CASE ~r.ok
  BY <1>2 DEF Plus, Results, Fail
<1>. QED  BY <1>1, <1>2

LEMMA TotalOK ==
  ASSUME NEW n \in Nat, NEW v \in [1..n -> Words], Total(v).ok
  PROVE  Total(v).value = SumSeq(v) /\ SumSeq(v) \in Words
<1>1. SignedMax \in Nat
  BY WordParts
<1>2. Words \subseteq Int /\ 0 \in Words
  BY <1>1 DEF Words
<1>3. v \in Seq(Int) /\ Len(v) = n
  <2>1. v \in Numbers(n)
    BY <1>2 DEF Numbers
  <2>. QED  BY <2>1, RowOK
<1> DEFINE step == [k \in 1..n |-> [r \in Results |-> Plus(r, v[k])]]
<1>4. step \in [1..n -> [Results -> Results]]
  BY PlusOK
<1>5. \A k \in 1..n, r \in Results : step[k][r] = Plus(r, v[k])
  OBVIOUS
<1> HIDE DEF step
<1>6. Some(0) \in Results
  BY <1>2 DEF Results
<1>7. PICK f \in [0..n -> Results] :
        f[0] = Some(0) /\ \A k \in 1..n : f[k] = step[k][f[k - 1]]
  <2>1. Runs(Results, Some(0), n, step)
    BY ONLY <1>4, <1>6, n \in Nat, Recursion
  <2>. QED  BY <2>1 DEF Runs
<1>8. \A k \in 0..n : f[k] = IF k = 0 THEN Some(0) ELSE Plus(f[k - 1], v[k])
  <2> SUFFICES ASSUME NEW k \in 1..n PROVE f[k] = Plus(f[k - 1], v[k])
    BY <1>7
  <2>1. k - 1 \in 0..n
    OBVIOUS
  <2>2. f[k - 1] \in Results
    BY <2>1
  <2>. QED  BY <1>5, <1>7, <2>2
<1>9. Totalling(f, v)
  BY <1>3, <1>8 DEF Totalling
<1>10. Totalling(Totals(v), v)
  BY <1>9 DEF Totals
<1> DEFINE t == Totals(v)
           s == SumsTo(v)
<1>11. Total(v) = t[n]
  BY <1>3 DEF Total, Totals, Totalling
<1> HIDE DEF t
<1>12. \A k \in 0..n : t[k] = IF k = 0 THEN Some(0) ELSE Plus(t[k - 1], v[k])
  BY <1>3, <1>10 DEF Totalling, t
<1>13. s[0] = 0 /\ (\A k \in 1..n : s[k] = s[k - 1] + v[k]) /\ SumSeq(v) = s[n]
  BY <1>3, SumsOK
<1> HIDE DEF s
<1> DEFINE S == {k \in 0..n : t[k] \in Results /\ (t[k].ok => t[k].value = s[k])}
<1>14. 0 \in S
  <2>1. 0 \in 0..n /\ Some(0).value = 0
    BY DEF Some
  <2>2. t[0] = Some(0)
    BY <1>12, <2>1
  <2>. QED  BY <1>6, <1>13, <2>1, <2>2
<1>15. \A k \in 0..n - 1 : k \in S => k + 1 \in S
  <2> SUFFICES ASSUME NEW k \in 0..n - 1, t[k] \in Results, t[k].ok => t[k].value = s[k]
               PROVE  /\ k + 1 \in 0..n /\ t[k + 1] \in Results
                      /\ t[k + 1].ok => t[k + 1].value = s[k + 1]
    OBVIOUS
  <2>1. k + 1 \in 0..n /\ k + 1 \in 1..n /\ (k + 1) - 1 = k /\ k + 1 # 0
    OBVIOUS
  <2>2. t[k + 1] = Plus(t[k], v[k + 1]) /\ s[k + 1] = s[k] + v[k + 1] /\ v[k + 1] \in Words
    BY <1>12, <1>13, <2>1
  <2>. QED  BY <2>1, <2>2, PlusOK
<1> HIDE DEF S
<1>16. \A k \in 0..n : k \in S
  BY <1>14, <1>15, Steps
<1>17. t[n] \in Results /\ (t[n].ok => t[n].value = s[n])
  BY <1>16 DEF S
<1>18. t[n].ok => t[n].value \in Words
  BY <1>17 DEF Results, Some, Fail
<1>. QED  BY <1>11, <1>13, <1>17, <1>18

-----------------------------------------------------------------------------
(* Numbers of which some count.                                            *)

Only(a, ids) == [k \in DOMAIN a |-> IF k \in ids THEN a[k] ELSE 0]

LEMMA OnlyOK ==
  ASSUME NEW n \in Nat, NEW a \in Numbers(n), NEW ids
  PROVE  /\ Only(a, ids) \in Numbers(n) /\ SumSeq(Only(a, ids)) \in Int
         /\ \A k \in 1..n : Only(a, ids)[k] = IF k \in ids THEN a[k] ELSE 0
<1>1. /\ Only(a, ids) \in Numbers(n)
      /\ \A k \in 1..n : Only(a, ids)[k] = IF k \in ids THEN a[k] ELSE 0
  BY DEF Only, Numbers
<1>2. Only(a, ids) \in Seq(Int)
  BY <1>1, RowOK
<1>. QED  BY <1>1, <1>2, SumsOK

LEMMA OnlyAdd ==
  ASSUME NEW n \in Nat, NEW a \in Numbers(n), NEW I, NEW J, I \cap J = {}
  PROVE  SumSeq(Only(a, I \cup J)) = SumSeq(Only(a, I)) + SumSeq(Only(a, J))
<1>1. /\ Only(a, I) \in Numbers(n) /\ Only(a, J) \in Numbers(n)
      /\ Only(a, I \cup J) \in Numbers(n)
  BY OnlyOK
<1>2. \A k \in 1..n : Only(a, I \cup J)[k] = Only(a, I)[k] + Only(a, J)[k]
  <2> SUFFICES ASSUME NEW k \in 1..n
               PROVE  Only(a, I \cup J)[k] = Only(a, I)[k] + Only(a, J)[k]
    OBVIOUS
  <2>1. /\ Only(a, I)[k] = IF k \in I THEN a[k] ELSE 0
        /\ Only(a, J)[k] = IF k \in J THEN a[k] ELSE 0
        /\ Only(a, I \cup J)[k] = IF k \in I \cup J THEN a[k] ELSE 0
    BY OnlyOK
  <2>2. a[k] \in Int
    BY RowOK
  <2>3. ~(k \in I /\ k \in J)
    OBVIOUS
  <2>. QED  BY <2>1, <2>2, <2>3
<1>3. PICK u, v, w : u = Only(a, I) /\ v = Only(a, J) /\ w = Only(a, I \cup J)
  OBVIOUS
<1>4. /\ u \in Numbers(n) /\ v \in Numbers(n) /\ w \in Numbers(n)
      /\ \A k \in 1..n : w[k] = u[k] + v[k]
  BY <1>1, <1>2, <1>3
<1>5. SumSeq(w) = SumSeq(u) + SumSeq(v)
  BY ONLY <1>4, n \in Nat, SumsAdd
<1>. QED  BY <1>3, <1>5

LEMMA OnlyNone ==
  ASSUME NEW n \in Nat, NEW a \in Numbers(n)
  PROVE  SumSeq(Only(a, {})) = 0
<1>1. Only(a, {}) \in Numbers(n) /\ \A k \in 1..n : Only(a, {})[k] = 0
  BY OnlyOK
<1>. QED  BY <1>1, SumOfNothing

Apart(part) == \A i, j \in DOMAIN part : i # j => part[i] \cap part[j] = {}
All(part) == UNION {part[i] : i \in DOMAIN part}

(* What is cut into parts adds up to them.                                 *)
LEMMA PartsInRow ==
  ASSUME NEW n \in Nat, NEW a \in Numbers(n), NEW m \in Nat,
         NEW part, DOMAIN part = 1..m, Apart(part), NEW u \in Numbers(m),
         \A i \in 1..m : u[i] = SumSeq(Only(a, part[i]))
  PROVE  SumSeq(u) = SumSeq(Only(a, All(part)))
<1> DEFINE U == SumsTo(u)
           First(i) == UNION {part[j] : j \in 1..i}
           S == {i \in 0..m : U[i] = SumSeq(Only(a, First(i)))}
<1>1. u \in Seq(Int) /\ Len(u) = m
  BY RowOK
<1>2. U[0] = 0 /\ (\A i \in 1..m : U[i] = U[i - 1] + u[i]) /\ SumSeq(u) = U[m]
  BY <1>1, SumsOK
<1> HIDE DEF U
<1>3. 0 \in S
  <2>1. First(0) = {}
    <3>1. 1..0 = {}
      OBVIOUS
    <3>. QED  BY <3>1, Zenon
  <2> HIDE DEF First
  <2>2. SumSeq(Only(a, First(0))) = 0
    BY <2>1, OnlyNone
  <2>3. 0 \in 0..m
    OBVIOUS
  <2>. QED  BY <1>2, <2>2, <2>3
<1>4. \A i \in 0..m - 1 : i \in S => i + 1 \in S
  <2> SUFFICES ASSUME NEW i \in 0..m - 1, U[i] = SumSeq(Only(a, First(i)))
               PROVE  i + 1 \in 0..m /\ U[i + 1] = SumSeq(Only(a, First(i + 1)))
    OBVIOUS
  <2>1. i + 1 \in 1..m /\ (i + 1) - 1 = i /\ i + 1 \in 0..m
    OBVIOUS
  <2>2. First(i + 1) = First(i) \cup part[i + 1]
    <3>1. \A j : j \in 1..i + 1 <=> j \in 1..i \/ j = i + 1
      OBVIOUS
    <3>. QED  BY <3>1, Zenon
  <2>3. First(i) \cap part[i + 1] = {}
    <3> SUFFICES ASSUME NEW j \in 1..i PROVE part[j] \cap part[i + 1] = {}
      BY Zenon
    <3>1. j \in 1..m /\ j # i + 1
      BY <2>1
    <3>. QED  BY <2>1, <3>1 DEF Apart
  <2> HIDE DEF First
  <2>4. SumSeq(Only(a, First(i + 1)))
          = SumSeq(Only(a, First(i))) + SumSeq(Only(a, part[i + 1]))
    BY <2>2, <2>3, OnlyAdd
  <2>5. U[i + 1] = U[i] + u[i + 1] /\ u[i + 1] = SumSeq(Only(a, part[i + 1]))
    BY <1>2, <2>1
  <2>. QED  BY <2>1, <2>4, <2>5
<1>5. First(m) = All(part)
  BY DEF All
<1> HIDE DEF S
<1>6. \A i \in 0..m : i \in S
  BY <1>3, <1>4, Steps
<1>7. m \in S
  BY <1>6
<1>. QED  BY <1>2, <1>5, <1>7 DEF S

-----------------------------------------------------------------------------
(* The values of a function, in the order of SetToSeq.                     *)

LEMMA OrderOK ==
  ASSUME NEW D, IsFiniteSet(D)
  PROVE  /\ Cardinality(D) \in Nat
         /\ SetToSeq(D) \in [1..Cardinality(D) -> D]
         /\ \A i, j \in 1..Cardinality(D) : SetToSeq(D)[i] = SetToSeq(D)[j] => i = j
         /\ \A d \in D : \E i \in 1..Cardinality(D) : SetToSeq(D)[i] = d
<1> DEFINE c == Cardinality(D)
           o == SetToSeq(D)
<1>1. c \in Nat /\ ExistsBijection(1..c, D)
  BY FS_CardinalityType
<1>2. PICK f \in [1..c -> D] : IsInjective(f)
  BY <1>1 DEF ExistsBijection, Bijection, Injection
<1>3. o \in [1..c -> D] /\ IsInjective(o)
  BY <1>2 DEF SetToSeq
<1> HIDE DEF o
<1>4. o \in Injection(1..c, D)
  BY <1>3 DEF Injection
<1>5. Cardinality(1..c) = c
  <2>1. 1 \in Int /\ c \in Int
    BY <1>1
  <2>2. Cardinality(1..c) = IF 1 > c THEN 0 ELSE c - 1 + 1
    BY <2>1, FS_Interval
  <2>. QED  BY <1>1, <2>2
<1>6. o \in Surjection(1..c, D)
  BY <1>4, <1>5, FS_Injection
<1>7. \A d \in D : \E i \in 1..c : o[i] = d
  BY <1>6 DEF Surjection
<1>8. \A i, j \in 1..c : o[i] = o[j] => i = j
  BY <1>3 DEF IsInjective
<1>. QED  BY <1>1, <1>3, <1>7, <1>8 DEF o

Ordered(f) == [k \in 1..Cardinality(DOMAIN f) |-> f[SetToSeq(DOMAIN f)[k]]]

LEMMA OrderedOK ==
  ASSUME NEW D, IsFiniteSet(D), NEW f \in [D -> Int]
  PROVE  /\ SumOf(f) = SumSeq(Ordered(f)) /\ SumOf(f) \in Int
         /\ Ordered(f) \in Numbers(Cardinality(D))
         /\ \A k \in 1..Cardinality(D) : Ordered(f)[k] = f[SetToSeq(D)[k]]
<1>1. DOMAIN f = D
  OBVIOUS
<1>2. SumOf(f) = SumSeq(Ordered(f))
  BY DEF SumOf, Ordered
<1>3. Cardinality(D) \in Nat /\ \A k \in 1..Cardinality(D) : SetToSeq(D)[k] \in D
  BY OrderOK
<1>4. /\ Ordered(f) \in Numbers(Cardinality(D))
      /\ \A k \in 1..Cardinality(D) : Ordered(f)[k] = f[SetToSeq(D)[k]]
  BY <1>1, <1>3 DEF Ordered, Numbers
<1>5. Ordered(f) \in Seq(Int)
  BY <1>3, <1>4, RowOK
<1>. QED  BY <1>2, <1>4, <1>5, SumsOK

LEMMA SumOfParts ==
  ASSUME NEW n \in Nat, NEW a \in Numbers(n), NEW D, IsFiniteSet(D),
         NEW part, DOMAIN part = D, Apart(part), NEW f, DOMAIN f = D, f \in [D -> Int],
         \A d \in D : f[d] = SumSeq(Only(a, part[d]))
  PROVE  SumOf(f) = SumSeq(Only(a, All(part)))
<1> DEFINE c == Cardinality(D)
           o == SetToSeq(D)
           q == [k \in 1..c |-> part[o[k]]]
<1>1. /\ c \in Nat /\ o \in [1..c -> D]
      /\ \A i, j \in 1..c : o[i] = o[j] => i = j
      /\ \A d \in D : \E i \in 1..c : o[i] = d
  BY OrderOK
<1>2. /\ SumOf(f) = SumSeq(Ordered(f)) /\ Ordered(f) \in Numbers(c)
      /\ \A k \in 1..c : Ordered(f)[k] = f[o[k]]
  BY OrderedOK
<1> HIDE DEF o, c
<1>3. DOMAIN q = 1..c /\ \A k \in 1..c : q[k] = part[o[k]]
  OBVIOUS
<1> HIDE DEF q
<1>4. Apart(q)
  BY <1>1, <1>3 DEF Apart
<1>5. All(q) = All(part)
  <2>1. \A k \in 1..c : o[k] \in D
    BY <1>1
  <2>2. {q[k] : k \in 1..c} = {part[d] : d \in D}
    BY <1>1, <1>3, <2>1
  <2>. QED  BY <1>3, <2>2 DEF All
<1>6. \A k \in 1..c : Ordered(f)[k] = SumSeq(Only(a, q[k]))
  BY <1>1, <1>2, <1>3
<1>7. SumSeq(Ordered(f)) = SumSeq(Only(a, All(q)))
  BY <1>1, <1>2, <1>3, <1>4, <1>6, PartsInRow
<1>. QED  BY <1>2, <1>5, <1>7

-----------------------------------------------------------------------------
(* The parts of a report whose lines and values are numbers of the word    *)
(* with room to spare.                                                     *)

Bounded == -Ceiling..Ceiling

LinesOK ==
    /\ Len(report.lines) \in Nat /\ DOMAIN report.lines = 1..Len(report.lines)
    /\ Len(report.values) \in Nat /\ DOMAIN report.values = 1..Len(report.values)
    /\ \A k \in DOMAIN report.lines : report.lines[k].amount \in Bounded
    /\ \A k \in DOMAIN report.values : report.values[k].amount \in Bounded

AllSizes == [k \in DOMAIN report.lines |-> Magnitude(report.lines[k].amount)]
AllAmounts == [k \in DOMAIN report.values |-> report.values[k].amount]

\* A sum of the program that was found: it is exact.
Exact(total, numbers) ==
    total.ok => total.value = SumSeq(numbers) /\ total.value \in Words /\ total.value \in Int

LEMMA FittingOK ==
  /\ Ceiling \in Nat /\ Words \subseteq Int /\ Bounded \subseteq Words /\ 0 \in Words
  /\ \A x \in Bounded : Magnitude(x) \in Words /\ Magnitude(x) \in Int /\ x \in Int
<1>1. Ceiling \in Nat \ {0} /\ SignedMax \in Nat /\ SignedMax = 2 * Ceiling - 1
  BY WordParts
<1>2. Ceiling <= SignedMax
  BY <1>1
<1>. QED  BY <1>1, <1>2 DEF Words, Bounded, Magnitude

LEMMA SizesOK ==
  ASSUME LinesOK
  PROVE  /\ Len(report.lines) \in Nat /\ AllSizes \in Numbers(Len(report.lines))
         /\ \A ids : /\ Sizes(ids) = Only(AllSizes, ids)
                     /\ SumSeq(Sizes(ids)) \in Int
                     /\ Exact(Total(Sizes(ids)), Sizes(ids))
<1> DEFINE n == Len(report.lines)
<1>1. /\ n \in Nat /\ DOMAIN report.lines = 1..n
      /\ \A k \in 1..n : /\ Magnitude(report.lines[k].amount) \in Words
                         /\ Magnitude(report.lines[k].amount) \in Int
  BY FittingOK DEF LinesOK
<1> HIDE DEF n
<1>2. AllSizes \in Numbers(n)
  BY <1>1 DEF AllSizes, Numbers
<1>3. ASSUME NEW ids
      PROVE  /\ Sizes(ids) = Only(AllSizes, ids)
             /\ SumSeq(Sizes(ids)) \in Int
             /\ Exact(Total(Sizes(ids)), Sizes(ids))
  <2>1. Sizes(ids) = Only(AllSizes, ids)
    BY DEF Sizes, Only, AllSizes
  <2>2. SumSeq(Sizes(ids)) \in Int
    BY <1>1, <1>2, <2>1, OnlyOK
  <2>3. Sizes(ids) \in [1..n -> Words]
    BY <1>1, FittingOK DEF Sizes
  <2>4. Total(Sizes(ids)).ok => Total(Sizes(ids)).value = SumSeq(Sizes(ids))
                                /\ SumSeq(Sizes(ids)) \in Words
    <3> DEFINE v == Sizes(ids)
    <3> HIDE DEF v
    <3>1. v \in [1..n -> Words] /\ n \in Nat
      BY <1>1, <2>3 DEF v
    <3>2. Total(v).ok => Total(v).value = SumSeq(v) /\ SumSeq(v) \in Words
      BY ONLY <3>1, TotalOK
    <3>. QED  BY <3>2 DEF v
  <2>. QED  BY <2>1, <2>2, <2>4 DEF Exact
<1>. QED  BY <1>1, <1>2, <1>3 DEF n

LEMMA AmountsOK ==
  ASSUME LinesOK
  PROVE  /\ Len(report.values) \in Nat /\ AllAmounts \in Numbers(Len(report.values))
         /\ \A ids : /\ Amounts(ids) = Only(AllAmounts, ids)
                     /\ SumSeq(Amounts(ids)) \in Int
                     /\ Exact(Total(Amounts(ids)), Amounts(ids))
<1> DEFINE n == Len(report.values)
<1>1. /\ n \in Nat /\ DOMAIN report.values = 1..n
      /\ \A k \in 1..n : report.values[k].amount \in Words /\ report.values[k].amount \in Int
  BY FittingOK DEF LinesOK
<1> HIDE DEF n
<1>2. AllAmounts \in Numbers(n)
  BY <1>1 DEF AllAmounts, Numbers
<1>3. ASSUME NEW ids
      PROVE  /\ Amounts(ids) = Only(AllAmounts, ids)
             /\ SumSeq(Amounts(ids)) \in Int
             /\ Exact(Total(Amounts(ids)), Amounts(ids))
  <2>1. Amounts(ids) = Only(AllAmounts, ids)
    BY DEF Amounts, Only, AllAmounts
  <2>2. SumSeq(Amounts(ids)) \in Int
    BY <1>1, <1>2, <2>1, OnlyOK
  <2>3. Amounts(ids) \in [1..n -> Words]
    BY <1>1, FittingOK DEF Amounts
  <2>4. Total(Amounts(ids)).ok => Total(Amounts(ids)).value = SumSeq(Amounts(ids))
                                  /\ SumSeq(Amounts(ids)) \in Words
    <3> DEFINE v == Amounts(ids)
    <3> HIDE DEF v
    <3>1. v \in [1..n -> Words] /\ n \in Nat
      BY <1>1, <2>3 DEF v
    <3>2. Total(v).ok => Total(v).value = SumSeq(v) /\ SumSeq(v) \in Words
      BY ONLY <3>1, TotalOK
    <3>. QED  BY <3>2 DEF v
  <2>. QED  BY <2>1, <2>2, <2>4, FittingOK DEF Exact
<1>. QED  BY <1>1, <1>2, <1>3 DEF n

\* SumsTo of the parts of the lines, or of the values.
LEMMA LineParts ==
  ASSUME LinesOK, NEW D, IsFiniteSet(D), NEW part, DOMAIN part = D, Apart(part),
         NEW totals, DOMAIN totals = D,
         \A d \in D : totals[d].ok /\ totals[d] = Total(Sizes(part[d]))
  PROVE  SumOf([d \in D |-> totals[d].value]) = SumSeq(Sizes(All(part)))
<1> DEFINE f == [d \in D |-> totals[d].value]
           n == Len(report.lines)
<1>1. n \in Nat /\ AllSizes \in Numbers(n)
  BY SizesOK
<1>2. \A d \in D : f[d] = SumSeq(Only(AllSizes, part[d])) /\ f[d] \in Int
  <2> SUFFICES ASSUME NEW d \in D
               PROVE  f[d] = SumSeq(Only(AllSizes, part[d])) /\ f[d] \in Int
    OBVIOUS
  <2>1. totals[d].value = SumSeq(Sizes(part[d])) /\ SumSeq(Sizes(part[d])) \in Int
    BY SizesOK DEF Exact
  <2>2. Sizes(part[d]) = Only(AllSizes, part[d])
    BY SizesOK
  <2>. QED  BY <2>1, <2>2
<1>3. DOMAIN f = D
  OBVIOUS
<1> HIDE DEF f, n
<1>4. f \in [D -> Int]
  BY <1>2, <1>3 DEF f
<1>5. SumOf(f) = SumSeq(Only(AllSizes, All(part)))
  BY ONLY <1>1, <1>2, <1>3, <1>4, IsFiniteSet(D), DOMAIN part = D, Apart(part), SumOfParts
<1>6. Sizes(All(part)) = Only(AllSizes, All(part))
  BY SizesOK
<1>. QED  BY <1>5, <1>6 DEF f

LEMMA ValueParts ==
  ASSUME LinesOK, NEW D, IsFiniteSet(D), NEW part, DOMAIN part = D, Apart(part),
         NEW totals, DOMAIN totals = D,
         \A d \in D : totals[d].ok /\ totals[d] = Total(Amounts(part[d]))
  PROVE  SumOf([d \in D |-> totals[d].value]) = SumSeq(Amounts(All(part)))
<1> DEFINE f == [d \in D |-> totals[d].value]
           n == Len(report.values)
<1>1. n \in Nat /\ AllAmounts \in Numbers(n)
  BY AmountsOK
<1>2. \A d \in D : f[d] = SumSeq(Only(AllAmounts, part[d])) /\ f[d] \in Int
  <2> SUFFICES ASSUME NEW d \in D
               PROVE  f[d] = SumSeq(Only(AllAmounts, part[d])) /\ f[d] \in Int
    OBVIOUS
  <2>1. totals[d].value = SumSeq(Amounts(part[d])) /\ SumSeq(Amounts(part[d])) \in Int
    BY AmountsOK DEF Exact
  <2>2. Amounts(part[d]) = Only(AllAmounts, part[d])
    BY AmountsOK
  <2>. QED  BY <2>1, <2>2
<1>3. DOMAIN f = D
  OBVIOUS
<1> HIDE DEF f, n
<1>4. f \in [D -> Int]
  BY <1>2, <1>3 DEF f
<1>5. SumOf(f) = SumSeq(Only(AllAmounts, All(part)))
  BY ONLY <1>1, <1>2, <1>3, <1>4, IsFiniteSet(D), DOMAIN part = D, Apart(part), SumOfParts
<1>6. Amounts(All(part)) = Only(AllAmounts, All(part))
  BY AmountsOK
<1>. QED  BY <1>5, <1>6 DEF f

-----------------------------------------------------------------------------
(* The parts of each figure.                                               *)

(* S is cut into a part for each of D.                                     *)
CutInto(part, D, S) == IsFiniteSet(D) /\ DOMAIN part = D /\ Apart(part) /\ All(part) = S

TotalsOf(totals, D, part) ==
    DOMAIN totals = D /\ \A d \in D : totals[d].ok /\ totals[d] = Total(Sizes(part[d]))

ValuesIn(values, D, totals) ==
    DOMAIN values = D /\ \A d \in D : values[d] = totals[d].value

LEMMA CutLines ==
  ASSUME LinesOK, NEW D, NEW part, NEW S, CutInto(part, D, S),
         NEW totals, TotalsOf(totals, D, part)
  PROVE  SumOf([d \in D |-> totals[d].value]) = SumSeq(Sizes(S))
<1>1. IsFiniteSet(D) /\ DOMAIN part = D /\ Apart(part) /\ All(part) = S
  BY DEF CutInto
<1>2. DOMAIN totals = D /\ \A d \in D : totals[d].ok /\ totals[d] = Total(Sizes(part[d]))
  BY DEF TotalsOf
<1>3. SumOf([d \in D |-> totals[d].value]) = SumSeq(Sizes(All(part)))
  BY ONLY LinesOK, <1>1, <1>2, LineParts
<1>. QED  BY <1>1, <1>3

LEMMA CutOfSome ==
  ASSUME NEW D, NEW part, NEW S, CutInto(part, D, S), NEW ids, NEW q, DOMAIN q = D,
         \A d \in D : q[d] = part[d] \cap ids
  PROVE  CutInto(q, D, S \cap ids)
<1>1. IsFiniteSet(D) /\ DOMAIN part = D /\ Apart(part) /\ All(part) = S
  BY DEF CutInto
<1>2. Apart(q)
  BY <1>1 DEF Apart
<1>3. All(q) = S \cap ids
  <2>1. \A x : x \in All(q) <=> \E d \in D : x \in q[d]
    BY DEF All
  <2>2. \A x : x \in S <=> \E d \in D : x \in part[d]
    BY <1>1 DEF All
  <2>3. \A x : x \in All(q) <=> x \in S \cap ids
    BY <2>1, <2>2
  <2>. QED  BY <2>3
<1>. QED  BY <1>1, <1>2, <1>3 DEF CutInto

\* Flows of parts that make up all that is counted.
AddUpTo(flows, income, expense) ==
    /\ SumOf([m \in DOMAIN flows |-> flows[m].income.value]) = income
    /\ SumOf([m \in DOMAIN flows |-> flows[m].expense.value]) = expense

FlowsOf(flows, D, part) ==
    DOMAIN flows = D /\ \A d \in D : flows[d] = Flow(part[d]) /\ HasRoom(flows[d])

LEMMA FlowsAddUp ==
  ASSUME LinesOK, NEW D, NEW part, CutInto(part, D, Counted), NEW flows, FlowsOf(flows, D, part)
  PROVE  AddUpTo(flows, SumSeq(Sizes(Incomes)), SumSeq(Sizes(Expenses)))
<1>1. Counted \cap Incomes = Incomes /\ Counted \cap Expenses = Expenses
  BY DEF Incomes, Expenses
<1>2. DOMAIN flows = D /\ \A d \in D : flows[d] = Flow(part[d]) /\ HasRoom(flows[d])
  BY DEF FlowsOf
<1>3. SumOf([d \in D |-> flows[d].income.value]) = SumSeq(Sizes(Incomes))
  <2>1. PICK q : DOMAIN q = D /\ \A d \in D : q[d] = part[d] \cap Incomes
    <3>. WITNESS [d \in D |-> part[d] \cap Incomes]
    <3>. QED  OBVIOUS
  <2>2. PICK t : DOMAIN t = D /\ \A d \in D : t[d] = flows[d].income
    <3>. WITNESS [d \in D |-> flows[d].income]
    <3>. QED  OBVIOUS
  <2>3. CutInto(q, D, Incomes)
    <3>1. CutInto(part, D, Counted)
      OBVIOUS
    <3>2. CutInto(q, D, Counted \cap Incomes)
      BY ONLY <2>1, <3>1, CutOfSome
    <3>. QED  BY <1>1, <3>2
  <2>4. \A d \in D : flows[d].income = Total(Sizes(part[d] \cap Incomes)) /\ flows[d].income.ok
    <3>1. \A ids : Flow(ids).income = Total(Sizes(ids \cap Incomes))
      BY DEF Flow
    <3>2. \A d \in D : HasRoom(flows[d]) => flows[d].income.ok
      BY DEF HasRoom
    <3>. QED  BY <1>2, <3>1, <3>2
  <2>5. TotalsOf(t, D, q)
    BY <2>1, <2>2, <2>4 DEF TotalsOf
  <2>6. SumOf([d \in D |-> t[d].value]) = SumSeq(Sizes(Incomes))
    BY ONLY LinesOK, <2>3, <2>5, CutLines
  <2>7. [d \in D |-> t[d].value] = [d \in D |-> flows[d].income.value]
    BY <2>2
  <2>. QED  BY <2>6, <2>7
<1>4. SumOf([d \in D |-> flows[d].expense.value]) = SumSeq(Sizes(Expenses))
  <2>1. PICK q : DOMAIN q = D /\ \A d \in D : q[d] = part[d] \cap Expenses
    <3>. WITNESS [d \in D |-> part[d] \cap Expenses]
    <3>. QED  OBVIOUS
  <2>2. PICK t : DOMAIN t = D /\ \A d \in D : t[d] = flows[d].expense
    <3>. WITNESS [d \in D |-> flows[d].expense]
    <3>. QED  OBVIOUS
  <2>3. CutInto(q, D, Expenses)
    <3>1. CutInto(part, D, Counted)
      OBVIOUS
    <3>2. CutInto(q, D, Counted \cap Expenses)
      BY ONLY <2>1, <3>1, CutOfSome
    <3>. QED  BY <1>1, <3>2
  <2>4. \A d \in D : flows[d].expense = Total(Sizes(part[d] \cap Expenses)) /\ flows[d].expense.ok
    <3>1. \A ids : Flow(ids).expense = Total(Sizes(ids \cap Expenses))
      BY DEF Flow
    <3>2. \A d \in D : HasRoom(flows[d]) => flows[d].expense.ok
      BY DEF HasRoom
    <3>. QED  BY <1>2, <3>1, <3>2
  <2>5. TotalsOf(t, D, q)
    BY <2>1, <2>2, <2>4 DEF TotalsOf
  <2>6. SumOf([d \in D |-> t[d].value]) = SumSeq(Sizes(Expenses))
    BY ONLY LinesOK, <2>3, <2>5, CutLines
  <2>7. [d \in D |-> t[d].value] = [d \in D |-> flows[d].expense.value]
    BY <2>2
  <2>. QED  BY <2>6, <2>7
<1>. QED  BY <1>2, <1>3, <1>4 DEF AddUpTo

\* What has a slice is in the part of its slice only.
KeysOf(g) == {g[k] : k \in DOMAIN g}
Parts(g) == [d \in KeysOf(g) |-> {k \in DOMAIN g : g[k] = d}]

LEMMA CutByKey ==
  ASSUME NEW g, IsFiniteSet(DOMAIN g)
  PROVE  CutInto(Parts(g), KeysOf(g), DOMAIN g)
<1> DEFINE S == DOMAIN g
           D == KeysOf(g)
           part == Parts(g)
<1>1. [k \in S |-> g[k]] \in Surjection(S, D)
  BY DEF Surjection, KeysOf
<1>2. IsFiniteSet(D)
  BY <1>1, FS_Surjection
<1>3. DOMAIN part = D /\ \A d \in D : part[d] = {k \in S : g[k] = d}
  BY DEF Parts
<1>4. \A k \in S : g[k] \in D
  BY DEF KeysOf
<1> HIDE DEF D, part
<1>5. Apart(part)
  BY <1>3 DEF Apart
<1>6. All(part) = S
  <2>1. \A x : x \in All(part) <=> \E d \in D : x \in part[d]
    BY <1>3 DEF All
  <2>2. \A x : x \in All(part) <=> x \in S
    BY <1>3, <1>4, <2>1
  <2>. QED  BY <2>2
<1>7. CutInto(part, D, S)
  BY <1>2, <1>3, <1>5, <1>6 DEF CutInto
<1>. QED  BY <1>7 DEF D, part

LEMMA PartOfKey ==
  ASSUME NEW g, NEW S, DOMAIN g = S
  PROVE  /\ KeysOf(g) = {g[k] : k \in S} /\ DOMAIN Parts(g) = KeysOf(g)
         /\ \A d \in KeysOf(g) : Parts(g)[d] = {k \in S : g[k] = d}
  BY DEF KeysOf, Parts

LEMMA LinesFinite ==
  ASSUME LinesOK
  PROVE  IsFiniteSet(Counted) /\ IsFiniteSet(Expenses) /\ IsFiniteSet(DOMAIN report.values)
<1>1. \A n \in Nat : IsFiniteSet(1..n)
  <2>1. \A n \in Nat : 1 \in Int /\ n \in Int
    OBVIOUS
  <2>. QED  BY <2>1, FS_Interval
<1>2. IsFiniteSet(DOMAIN report.lines) /\ IsFiniteSet(DOMAIN report.values)
  BY <1>1 DEF LinesOK
<1>3. Counted \in SUBSET DOMAIN report.lines /\ Expenses \in SUBSET DOMAIN report.lines
  BY DEF Counted, Expenses
<1>. QED  BY <1>2, <1>3, FS_Subset

LEMMA BreakdownOK ==
  ASSUME LinesOK, NEW dimension,
         \A slice \in DOMAIN Breakdown(dimension) : HasRoom(Breakdown(dimension)[slice])
  PROVE  AddUpTo(Breakdown(dimension), SumSeq(Sizes(Incomes)), SumSeq(Sizes(Expenses)))
<1>1. PICK g : DOMAIN g = Counted /\ \A k \in Counted : g[k] = Slice(dimension, k)
  <2>. WITNESS [k \in Counted |-> Slice(dimension, k)]
  <2>. QED  OBVIOUS
<1>2. PICK D, part : D = KeysOf(g) /\ part = Parts(g)
  OBVIOUS
<1>3. CutInto(part, D, Counted)
  <2>1. IsFiniteSet(DOMAIN g)
    BY <1>1, LinesFinite
  <2>2. CutInto(Parts(g), KeysOf(g), DOMAIN g)
    BY <2>1, CutByKey
  <2>. QED  BY <1>1, <1>2, <2>2
<1>4. D = {g[k] : k \in Counted} /\ \A d \in D : part[d] = {k \in Counted : g[k] = d}
  BY <1>1, <1>2, PartOfKey
<1>5. D = {Slice(dimension, k) : k \in Counted}
  BY <1>1, <1>4
<1>6. \A d \in D : part[d] = {k \in Counted : Slice(dimension, k) = d}
  BY <1>1, <1>4
<1>7. PICK flows : flows = Breakdown(dimension)
  OBVIOUS
<1>8. flows = [d \in D |-> Flow({k \in Counted : Slice(dimension, k) = d})]
  BY <1>5, <1>7 DEF Breakdown
<1>9. \A d \in DOMAIN flows : HasRoom(flows[d])
  BY <1>7
<1>10. FlowsOf(flows, D, part)
  BY <1>6, <1>8, <1>9 DEF FlowsOf
<1>. QED  BY <1>3, <1>7, <1>10, FlowsAddUp

LEMMA TopExpensesOK ==
  ASSUME LinesOK, \A slice \in DOMAIN TopExpenses : TopExpenses[slice].ok
  PROVE  SumOf([slice \in DOMAIN TopExpenses |-> TopExpenses[slice].value])
            = SumSeq(Sizes(Expenses))
<1>1. PICK g : DOMAIN g = Expenses /\ \A k \in Expenses : g[k] = Slice("category", k)
  <2>. WITNESS [k \in Expenses |-> Slice("category", k)]
  <2>. QED  OBVIOUS
<1>2. PICK D, part : D = KeysOf(g) /\ part = Parts(g)
  OBVIOUS
<1>3. CutInto(part, D, Expenses)
  <2>1. IsFiniteSet(DOMAIN g)
    BY <1>1, LinesFinite
  <2>2. CutInto(Parts(g), KeysOf(g), DOMAIN g)
    BY <2>1, CutByKey
  <2>. QED  BY <1>1, <1>2, <2>2
<1>4. D = {g[k] : k \in Expenses} /\ \A d \in D : part[d] = {k \in Expenses : g[k] = d}
  BY <1>1, <1>2, PartOfKey
<1>5. D = {Slice("category", k) : k \in Expenses}
  BY <1>1, <1>4
<1>6. \A d \in D : part[d] = {k \in Expenses : Slice("category", k) = d}
  BY <1>1, <1>4
<1>7. PICK totals : totals = TopExpenses
  OBVIOUS
<1>8. totals = [d \in D |-> Total(Sizes({k \in Expenses : Slice("category", k) = d}))]
  BY <1>5, <1>7 DEF TopExpenses
<1>9. \A d \in DOMAIN totals : totals[d].ok
  BY <1>7
<1>10. DOMAIN totals = D /\ TotalsOf(totals, D, part)
  BY <1>6, <1>8, <1>9 DEF TotalsOf
<1>11. SumOf([d \in D |-> totals[d].value]) = SumSeq(Sizes(Expenses))
  BY <1>3, <1>10, CutLines
<1>. QED  BY <1>7, <1>10, <1>11

LEMMA DistributionOK ==
  ASSUME LinesOK, \A t \in DOMAIN Distribution : Distribution[t].ok
  PROVE  SumOf([t \in DOMAIN Distribution |-> Distribution[t].value])
            = SumSeq(Amounts(DOMAIN report.values))
<1>1. PICK all : all = DOMAIN report.values
  OBVIOUS
<1>2. Len(report.values) \in Nat /\ all \in SUBSET (1..Len(report.values))
  BY <1>1 DEF LinesOK
<1>3. PICK g : DOMAIN g = all /\ \A k \in all : g[k] = report.values[k].type
  <2>. WITNESS [k \in all |-> report.values[k].type]
  <2>. QED  OBVIOUS
<1>4. PICK D, part : D = KeysOf(g) /\ part = Parts(g)
  OBVIOUS
<1>5. CutInto(part, D, all)
  <2>1. IsFiniteSet(DOMAIN g)
    BY <1>1, <1>3, LinesFinite
  <2>2. CutInto(Parts(g), KeysOf(g), DOMAIN g)
    BY <2>1, CutByKey
  <2>. QED  BY <1>3, <1>4, <2>2
<1>6. D = {g[k] : k \in all} /\ \A d \in D : part[d] = {k \in all : g[k] = d}
  BY <1>3, <1>4, PartOfKey
<1>7. D = {report.values[k].type : k \in all}
  BY <1>3, <1>6
<1>8. \A d \in D : part[d] = {k \in all : report.values[k].type = d}
  BY <1>3, <1>6
<1>9. PICK totals : totals = Distribution
  OBVIOUS
<1>10. totals = [d \in D |-> Total(Amounts({k \in all : report.values[k].type = d}))]
  BY <1>1, <1>7, <1>9 DEF Distribution
<1>11. \A d \in DOMAIN totals : totals[d].ok
  BY <1>9
<1>12. DOMAIN totals = D /\ \A d \in D : totals[d].ok /\ totals[d] = Total(Amounts(part[d]))
  BY <1>8, <1>10, <1>11
<1>13. IsFiniteSet(D) /\ DOMAIN part = D /\ Apart(part) /\ All(part) = all
  BY <1>5 DEF CutInto
<1>14. SumOf([d \in D |-> totals[d].value]) = SumSeq(Amounts(All(part)))
  BY ONLY LinesOK, <1>12, <1>13, ValueParts
<1>. QED  BY <1>1, <1>9, <1>12, <1>13, <1>14

LEMMA CashFlowOK ==
  ASSUME LinesOK, HasRoom(CashFlow)
  PROVE  /\ CashFlow.income.value = SumSeq(Sizes(Incomes))
         /\ CashFlow.expense.value = SumSeq(Sizes(Expenses))
<1>1. Counted \cap Incomes = Incomes /\ Counted \cap Expenses = Expenses
  BY DEF Incomes, Expenses
<1>2. CashFlow.income = Total(Sizes(Incomes)) /\ CashFlow.expense = Total(Sizes(Expenses))
  BY <1>1 DEF CashFlow, Flow
<1>3. CashFlow.income.ok /\ CashFlow.expense.ok
  BY DEF HasRoom
<1>. QED  BY <1>2, <1>3, SizesOK DEF Exact

LEMMA NetWorthOK ==
  ASSUME LinesOK, NetWorth(DOMAIN report.values).ok
  PROVE  NetWorth(DOMAIN report.values).value = SumSeq(Amounts(DOMAIN report.values))
<1> DEFINE all == DOMAIN report.values
           plus == {k \in all : report.values[k].amount >= 0}
           minus == {k \in all : report.values[k].amount < 0}
           A == Total(Amounts(plus))
           L == Total(Amounts(minus))
           n == Len(report.values)
<1>1. NetWorth(all) = IF A.ok /\ L.ok THEN Add(A.value, L.value) ELSE Fail
  BY DEF NetWorth
<1>2. A.ok /\ L.ok
  BY <1>1 DEF Fail
<1>3. /\ A.value = SumSeq(Amounts(plus)) /\ A.value \in Words
      /\ L.value = SumSeq(Amounts(minus)) /\ L.value \in Words
  BY <1>2, AmountsOK DEF Exact
<1>4. NetWorth(all).value = A.value + L.value
  BY <1>1, <1>2, <1>3, PlusExact
<1>5. \A k \in all : report.values[k].amount \in Int
  BY FittingOK DEF LinesOK
<1>6. plus \cup minus = all /\ plus \cap minus = {}
  BY <1>5
<1>7. n \in Nat /\ AllAmounts \in Numbers(n)
  BY AmountsOK
<1>8. /\ Amounts(plus) = Only(AllAmounts, plus) /\ Amounts(minus) = Only(AllAmounts, minus)
      /\ Amounts(all) = Only(AllAmounts, all)
  BY AmountsOK
<1> HIDE DEF all, plus, minus, A, L, n
<1>9. SumSeq(Only(AllAmounts, plus \cup minus))
        = SumSeq(Only(AllAmounts, plus)) + SumSeq(Only(AllAmounts, minus))
  BY <1>6, <1>7, OnlyAdd
<1>10. NetWorth(all).value = SumSeq(Amounts(all))
  BY <1>3, <1>4, <1>6, <1>8, <1>9
<1>. QED  BY <1>10 DEF all

-----------------------------------------------------------------------------
(* The months of a trend.                                                  *)

\* The lines of a trend are in the order of time, and in its months.
InOrder ==
    /\ report.first \in Int /\ report.last \in Int /\ report.first <= report.last
    /\ \A k \in DOMAIN report.lines :
         /\ report.lines[k].time \in Int
         /\ MonthStart(report.first) <= report.lines[k].time
         /\ report.lines[k].time < MonthStart(report.last + 1)
    /\ \A i, k \in DOMAIN report.lines :
         i <= k => report.lines[i].time <= report.lines[k].time

MonthsLeft(k, b) == {m \in b..Months : report.lines[k].time < EndOf(m)}

Bucketing(B) ==
    B = [k \in 0..Len(report.lines) |->
            IF k = 0 THEN 1
            ELSE IF k \notin Counted THEN B[k - 1]
            ELSE IF MonthsLeft(k, B[k - 1]) = {} THEN Months + 1
            ELSE Min(MonthsLeft(k, B[k - 1]))]

Buckets == CHOOSE B : Bucketing(B)

InMonth(m) ==
    {k \in Counted : Buckets[k] = m
                     /\ report.lines[k].time >= MonthStart(report.first + m - 1)}

LEMMA TrendIs == Trend = [m \in 1..Months |-> Flow(InMonth(m))]
  BY DEF Trend, InMonth, Buckets, Bucketing, MonthsLeft

LEMMA MonthsOK ==
  ASSUME InOrder
  PROVE  /\ Months \in Nat \ {0} /\ \A m \in Int : EndOf(m) \in Int /\ MonthStart(m) \in Int
         /\ EndOf(Months) = MonthStart(report.last + 1)
         /\ \A m \in Int : EndOf(m - 1) = MonthStart(report.first + m - 1)
<1>1. report.first \in Int /\ report.last \in Int /\ report.first <= report.last
  BY DEF InOrder
<1>2. report.first + Months = report.last + 1 /\ Months \in Nat \ {0}
  BY <1>1 DEF Months
<1>3. \A m \in Int : report.first + m \in Int /\ report.first + (m - 1) = report.first + m - 1
  BY <1>1
<1>4. \A m \in Int : MonthStart(m) \in Int
  BY ReportAssumption DEF MonthStart
<1>. QED  BY <1>2, <1>3, <1>4 DEF EndOf

LEMMA MonthsLeftOK ==
  ASSUME InOrder, NEW k, NEW b \in Int, MonthsLeft(k, b) # {}
  PROVE  /\ Min(MonthsLeft(k, b)) \in MonthsLeft(k, b)
         /\ \A m \in MonthsLeft(k, b) : Min(MonthsLeft(k, b)) <= m
<1>1. Months \in Int
  BY MonthsOK
<1>2. MonthsLeft(k, b) \in SUBSET Int /\ MonthsLeft(k, b) \in SUBSET (b..Months)
  BY <1>1 DEF MonthsLeft
<1>3. IsFiniteSet(b..Months)
  BY <1>1, FS_Interval
<1>4. IsFiniteSet(MonthsLeft(k, b))
  BY <1>2, <1>3, FS_Subset
<1>. QED  BY <1>2, <1>4, EndsOK

LEMMA BucketsExist ==
  ASSUME LinesOK, InOrder
  PROVE  Bucketing(Buckets)
<1> DEFINE n == Len(report.lines)
           next(k, b) == IF k \notin Counted THEN b
                         ELSE IF MonthsLeft(k, b) = {} THEN Months + 1
                         ELSE Min(MonthsLeft(k, b))
           step == [k \in 1..n |-> [b \in Int |-> next(k, b)]]
<1>1. n \in Nat
  BY DEF LinesOK
<1>2. \A k, b : b \in Int => next(k, b) \in Int
  <2> SUFFICES ASSUME NEW k, NEW b \in Int PROVE next(k, b) \in Int
    OBVIOUS
  <2>1. Months \in Int /\ Months + 1 \in Int
    BY MonthsOK
  <2>2. ASSUME MonthsLeft(k, b) # {} PROVE Min(MonthsLeft(k, b)) \in Int
    <3>1. Min(MonthsLeft(k, b)) \in MonthsLeft(k, b)
      BY <2>2, MonthsLeftOK
    <3>2. MonthsLeft(k, b) \subseteq Int
      BY <2>1 DEF MonthsLeft
    <3>. QED  BY <3>1, <3>2
  <2>. QED  BY <2>1, <2>2
<1> HIDE DEF next, n
<1>3. step \in [1..n -> [Int -> Int]]
  BY <1>2
<1>4. \A k \in 1..n, b \in Int : step[k][b] = next(k, b)
  OBVIOUS
<1> HIDE DEF step
<1>5. PICK f \in [0..n -> Int] : f[0] = 1 /\ \A k \in 1..n : f[k] = step[k][f[k - 1]]
  <2>1. 1 \in Int
    OBVIOUS
  <2>2. Runs(Int, 1, n, step)
    BY ONLY <1>1, <1>3, <2>1, Recursion
  <2>. QED  BY <2>2 DEF Runs
<1>6. \A k \in 0..n : f[k] = IF k = 0 THEN 1 ELSE next(k, f[k - 1])
  <2> SUFFICES ASSUME NEW k \in 1..n PROVE f[k] = next(k, f[k - 1])
    BY <1>5
  <2>1. k - 1 \in 0..n
    BY <1>1
  <2>2. f[k - 1] \in Int
    BY <2>1
  <2>. QED  BY <1>4, <1>5, <2>2
<1>7. f = [k \in 0..n |-> IF k = 0 THEN 1 ELSE next(k, f[k - 1])]
  BY <1>6
<1>8. Bucketing(f)
  BY <1>7 DEF Bucketing, n, next
<1>. QED  BY <1>8 DEF Buckets

\* A line is counted in the month of its time.
LEMMA BucketsOK ==
  ASSUME LinesOK, InOrder
  PROVE  \A k \in Counted :
            /\ Buckets[k] \in 1..Months
            /\ report.lines[k].time >= MonthStart(report.first + Buckets[k] - 1)
<1> DEFINE n == Len(report.lines)
           B == Buckets
           From(b) == MonthStart(report.first + b - 1)
           Good(k) == /\ B[k] \in 1..Months
                      /\ \A j \in 1..n : j >= k => report.lines[j].time >= From(B[k])
           S == {k \in 0..n : Good(k)}
<1>1. n \in Nat /\ DOMAIN report.lines = 1..n
  BY DEF LinesOK
<1>2. Months \in Nat \ {0}
  BY MonthsOK
<1>3. Bucketing(B)
  BY BucketsExist
<1>4. B[0] = 1 /\ \A k \in 1..n : B[k] = IF k \notin Counted THEN B[k - 1]
                                         ELSE IF MonthsLeft(k, B[k - 1]) = {} THEN Months + 1
                                         ELSE Min(MonthsLeft(k, B[k - 1]))
  <2>1. \A k \in 0..n : B[k] = IF k = 0 THEN 1
                               ELSE IF k \notin Counted THEN B[k - 1]
                               ELSE IF MonthsLeft(k, B[k - 1]) = {} THEN Months + 1
                               ELSE Min(MonthsLeft(k, B[k - 1]))
    <3> HIDE DEF B
    <3>. QED  BY <1>3, Zenon DEF Bucketing, n
  <2>2. 0 \in 0..n /\ \A k \in 1..n : k \in 0..n /\ k # 0
    BY <1>1
  <2> HIDE DEF B, n
  <2>. QED  BY <2>1, <2>2
<1>5. /\ \A k \in 1..n : report.lines[k].time \in Int /\ From(1) <= report.lines[k].time
                         /\ report.lines[k].time < EndOf(Months)
      /\ \A i, k \in 1..n : i <= k => report.lines[i].time <= report.lines[k].time
  <2>1. report.first + 1 - 1 = report.first
    BY DEF InOrder
  <2>. QED  BY <1>1, <2>1, MonthsOK DEF InOrder
<1>6. \A b \in Int : From(b) \in Int /\ EndOf(b) \in Int /\ EndOf(b - 1) = From(b)
  <2>1. \A b \in Int : report.first + b - 1 \in Int
    BY DEF InOrder
  <2>. QED  BY <2>1, MonthsOK
<1> HIDE DEF B, n, From
<1>7. 0 \in S
  <2>1. 0 \in 0..n /\ 1 \in 1..Months
    BY <1>1, <1>2
  <2>2. \A j \in 1..n : report.lines[j].time >= From(1)
    BY <1>5, <1>6
  <2>. QED  BY <1>4, <2>1, <2>2
<1>8. \A k \in 0..n - 1 : k \in S => k + 1 \in S
  <2> SUFFICES ASSUME NEW k \in 0..n - 1, Good(k)
               PROVE  k + 1 \in 0..n /\ Good(k + 1)
    OBVIOUS
  <2>1. k + 1 \in 1..n /\ (k + 1) - 1 = k /\ k + 1 \in 0..n /\ k < k + 1
    BY <1>1
  <2>2. B[k] \in 1..Months /\ B[k] \in Int
    BY <1>2
  <2>3. CASE k + 1 \notin Counted
    <3>1. B[k + 1] = B[k]
      BY <1>4, <2>1, <2>3
    <3>2. \A j \in 1..n : j >= k + 1 => j >= k
      BY <1>1
    <3>. QED  BY <2>1, <2>2, <3>1, <3>2
  <2>4. CASE k + 1 \in Counted
    <3> DEFINE L == MonthsLeft(k + 1, B[k])
               m == Min(L)
    <3>1. \A x : x \in L <=> x \in B[k]..Months /\ report.lines[k + 1].time < EndOf(x)
      BY DEF MonthsLeft
    <3>2. Months \in L
      BY <1>2, <1>5, <2>1, <2>2, <3>1
    <3>3. m \in L /\ \A x \in L : m <= x
      BY <2>2, <3>2, MonthsLeftOK
    <3>4. B[k + 1] = m
      BY <1>4, <2>1, <2>4, <3>2
    <3> HIDE DEF L, m
    <3>5. m \in B[k]..Months /\ m \in Int /\ m \in 1..Months
      BY <1>2, <2>2, <3>1, <3>3
    <3>6. report.lines[k + 1].time >= From(m)
      <4>1. CASE m = B[k]
        <5>1. k + 1 >= k
          BY <2>1
        <5>. QED  BY <2>1, <4>1, <5>1
      <4>2. CASE m # B[k]
        <5>1. m - 1 \in B[k]..Months /\ m - 1 \in Int /\ ~(m <= m - 1)
          BY <1>2, <2>2, <3>5, <4>2
        <5>2. m - 1 \notin L
          BY <3>3, <5>1
        <5>3. ~(report.lines[k + 1].time < EndOf(m - 1))
          BY <3>1, <5>1, <5>2
        <5>. QED  BY <1>5, <1>6, <2>1, <3>5, <5>1, <5>3
      <4>. QED  BY <4>1, <4>2
    <3>7. ASSUME NEW j \in 1..n, j >= k + 1
          PROVE  report.lines[j].time >= From(m)
      <4>1. report.lines[k + 1].time <= report.lines[j].time
        BY <1>5, <2>1, <3>7
      <4>2. From(m) \in Int /\ report.lines[j].time \in Int /\ report.lines[k + 1].time \in Int
        BY <1>5, <1>6, <2>1, <3>5
      <4>. QED  BY <3>6, <4>1, <4>2
    <3>. QED  BY <2>1, <3>4, <3>5, <3>7
  <2>. QED  BY <2>3, <2>4
<1> HIDE DEF S
<1>9. \A k \in 0..n : k \in S
  BY <1>1, <1>7, <1>8, Steps
<1>10. \A k \in Counted : k \in 1..n /\ k \in 0..n /\ k >= k
  BY <1>1 DEF Counted
<1>. QED  BY <1>9, <1>10 DEF S, B, From

LEMMA TrendOK ==
  ASSUME LinesOK, InOrder, \A m \in DOMAIN Trend : HasRoom(Trend[m])
  PROVE  AddUpTo(Trend, SumSeq(Sizes(Incomes)), SumSeq(Sizes(Expenses)))
<1>1. PICK D, part : D = 1..Months /\ part = [m \in D |-> InMonth(m)]
  OBVIOUS
<1>2. \A m \in D : part[m] = InMonth(m)
  BY <1>1
<1>3. IsFiniteSet(D)
  <2>1. 1 \in Int /\ Months \in Int
    BY MonthsOK
  <2>. QED  BY <1>1, <2>1, FS_Interval
<1>4. DOMAIN part = D
  BY <1>1
<1>5. Apart(part)
  BY <1>2, <1>4 DEF Apart, InMonth
<1>6. All(part) = Counted
  <2>1. \A k : k \in All(part) <=> \E m \in D : k \in InMonth(m)
    BY <1>2, <1>4 DEF All
  <2>2. \A k \in Counted : Buckets[k] \in D /\ k \in InMonth(Buckets[k])
    BY <1>1, BucketsOK DEF InMonth
  <2>3. \A m : InMonth(m) \subseteq Counted
    BY DEF InMonth
  <2>4. \A k : k \in All(part) <=> k \in Counted
    BY <2>1, <2>2, <2>3
  <2>. QED  BY <2>4
<1>7. CutInto(part, D, Counted)
  BY <1>3, <1>4, <1>5, <1>6 DEF CutInto
<1>8. PICK flows : flows = Trend
  OBVIOUS
<1>9. flows = [m \in D |-> Flow(InMonth(m))]
  BY <1>1, <1>8, TrendIs
<1>10. \A m \in DOMAIN flows : HasRoom(flows[m])
  BY <1>8
<1>11. FlowsOf(flows, D, part)
  BY <1>2, <1>9, <1>10 DEF FlowsOf
<1>. QED  BY <1>7, <1>8, <1>11, FlowsAddUp

-----------------------------------------------------------------------------
(* What is converted stays a quarter of the word or less.                  *)

LEMMA ColumnBounded ==
  ASSUME NEW a, InColumn(a)
  PROVE  a \in Bounded
<1>1. PICK m \in Nat : m = Magnitude(a) /\ Magnitude(m) = m
  <2>1. Magnitude(a) \in Nat /\ Magnitude(Magnitude(a)) = Magnitude(a)
    BY DEF Magnitude, InColumn
  <2>. QED  BY <2>1
<1>2. Fits(m, AmountDigits, AmountPlaces)
  BY <1>1 DEF InColumn, FitsAmount, Fits
<1>3. AmountPlaces \in 0..Scale /\ AmountDigits \in Nat
  BY ScaleAssumption, DigitsAssumption
<1>4. m <= Ceiling
  <2>1. PICK o \in Nat \ {0}, c \in Nat : o = One /\ c = Ceiling
    BY WordParts
  <2>2. PICK p \in Nat : p = (TenTo(AmountDigits) + 1) * One
    <3>1. PICK g \in Nat : g = TenTo(AmountDigits)
      BY <1>3, TenToOK
    <3>2. (g + 1) * o \in Nat
      OBVIOUS
    <3>. QED  BY <2>1, <3>1, <3>2
  <2>3. m + o < p
    BY <1>2, <1>3, <2>1, <2>2, ColumnBound
  <2>4. p <= c
    BY <2>1, <2>2, ColumnAssumption
  <2>. QED  BY <2>1, <2>3, <2>4
<1>5. a \in Int /\ Ceiling \in Nat
  BY WordParts DEF InColumn
<1>. QED  BY <1>1, <1>4, <1>5 DEF Magnitude, Bounded

LEMMA CappedBounded ==
  ASSUME NEW negative, NEW m \in Nat, Capped(negative, m).ok
  PROVE  Capped(negative, m).value \in Bounded
<1>1. Ceiling \in Nat
  BY WordParts
<1>2. m <= Ceiling /\ Capped(negative, m) = Some(Signed(negative, m))
  BY <1>1 DEF Capped, Fail
<1>3. Capped(negative, m).value = Signed(negative, m)
  BY <1>2 DEF Some
<1>4. m \in Bounded /\ -m \in Bounded
  BY <1>1, <1>2 DEF Bounded
<1>5. Signed(negative, m) = m \/ Signed(negative, m) = -m
  BY DEF Signed
<1>. QED  BY <1>3, <1>4, <1>5

LEMMA ProductNat ==
  ASSUME NEW x \in Nat, NEW y \in Nat
  PROVE  Product(x, y) \in Nat
<1>1. Word \in Nat \ {0} /\ x * y \in Int
  BY WordAssumption
<1>2. \A n \in Int, d \in Nat \ {0} : n % d \in Nat
  OBVIOUS
<1>. QED  BY <1>1, <1>2 DEF Product

LEMMA MultiplyBounded ==
  ASSUME NEW a \in Int, NEW b \in Int, Multiply(a, b).ok
  PROVE  Multiply(a, b).value \in Bounded
<1>1. Magnitude(a) \in Nat /\ Magnitude(b) \in Nat
  BY DEF Magnitude
<1>2. PICK m : m = Nearest(Product(Magnitude(a), Magnitude(b)), One)
  OBVIOUS
<1>3. m \in Nat
  BY <1>1, <1>2, ProductNat, WordParts, NearestOK
<1>4. Multiply(a, b) = Capped((a < 0) # (b < 0), m)
  BY <1>2 DEF Multiply, Fail
<1>5. PICK negative : negative = ((a < 0) # (b < 0))
  OBVIOUS
<1>. QED  BY <1>3, <1>4, <1>5, CappedBounded

LEMMA DivideBounded ==
  ASSUME NEW a \in Int, NEW b \in Int, Divide(a, b).ok
  PROVE  Divide(a, b).value \in Bounded
<1>1. b # 0
  BY DEF Divide, Fail
<1>2. Magnitude(a) \in Nat /\ Magnitude(b) \in Nat \ {0} /\ One \in Nat
  BY <1>1, WordParts DEF Magnitude
<1>3. PICK m : m = Nearest(Product(Magnitude(a), One), Magnitude(b))
  OBVIOUS
<1>4. m \in Nat
  BY <1>2, <1>3, ProductNat, NearestOK
<1>5. Divide(a, b) = Capped((a < 0) # (b < 0), m)
  BY <1>3 DEF Divide, Fail
<1>6. PICK negative : negative = ((a < 0) # (b < 0))
  OBVIOUS
<1>. QED  BY <1>4, <1>5, <1>6, CappedBounded

\* Rates are numbers, and what a history finds is one of them.
Rated == \A i \in 1..Len(rates) : rates[i].rate \in Int

LEMMA FindOK ==
  ASSUME PagesInv, CacheOK, NEW pair \in DOMAIN report.cache, NEW when \in Int
  PROVE  Find(pair, when) = None \/ Find(pair, when) \in 1..Len(rates)
<1>1. PICK h, n : h = report.cache[pair].history /\ n = report.cache[pair].known
  OBVIOUS
<1>2. h \in Seq(1..n) /\ n \in 0..Len(rates) /\ Len(rates) \in Nat /\ Stamped(rates)
  BY <1>1 DEF CacheOK, Answers, PagesInv, ReportTypeOK, Stamped
<1>3. PICK upTo : upTo = {k \in DOMAIN h : rates[h[k]].time <= when}
  OBVIOUS
<1>4. Find(pair, when) = IF upTo = {} THEN None ELSE h[Max(upTo)]
  BY <1>1, <1>3 DEF Find
<1>5. CASE upTo # {}
  <2>1. DOMAIN h = 1..Len(h) /\ Len(h) \in Nat /\ \A k \in DOMAIN h : h[k] \in 1..n
    BY <1>2
  <2>2. upTo \in SUBSET (1..Len(h)) /\ upTo \in SUBSET Int
    BY <1>3, <2>1
  <2>3. IsFiniteSet(1..Len(h))
    BY <2>1, FS_Interval
  <2>4. IsFiniteSet(upTo)
    BY <2>2, <2>3, FS_Subset
  <2>5. Max(upTo) \in upTo
    BY <1>5, <2>2, <2>4, EndsOK
  <2>6. h[Max(upTo)] \in 1..n
    BY <2>1, <2>2, <2>5
  <2>. QED  BY <1>2, <1>4, <1>5, <2>6
<1>. QED  BY <1>4, <1>5

LEMMA JoinedSets ==
  ASSUME NEW S, NEW u \in Seq(S), NEW v \in Seq(S)
  PROVE  u \o v \in Seq(S) /\ ToSet(u) \subseteq ToSet(u \o v) /\ ToSet(v) \subseteq ToSet(u \o v)
<1>1. PICK w : w = u \o v
  OBVIOUS
<1>2. /\ w \in Seq(S) /\ Len(w) = Len(u) + Len(v)
      /\ \A k \in 1..Len(u) + Len(v) : w[k] = IF k <= Len(u) THEN u[k] ELSE v[k - Len(u)]
  BY <1>1, ConcatProperties
<1>3. /\ Len(u) \in Nat /\ Len(v) \in Nat /\ DOMAIN w = 1..Len(u) + Len(v)
      /\ DOMAIN u = 1..Len(u) /\ DOMAIN v = 1..Len(v)
  BY <1>2
<1>4. \A k \in DOMAIN u : k \in DOMAIN w /\ w[k] = u[k]
  BY <1>2, <1>3
<1>5. \A k \in DOMAIN v : k + Len(u) \in DOMAIN w /\ w[k + Len(u)] = v[k]
  BY <1>2, <1>3
<1>6. ToSet(u) \subseteq ToSet(w)
  BY <1>4 DEF ToSet
<1>7. ToSet(v) \subseteq ToSet(w)
  BY <1>5 DEF ToSet
<1>. QED  BY <1>1, <1>2, <1>6, <1>7

\* A conversion that knows its rates.
LEMMA ConvertBounded ==
  ASSUME PagesInv, CacheOK, Rated, NEW amount \in Bounded, NEW currency, NEW when \in Int,
         \A n \in DOMAIN Consults(amount, currency, when) :
            Loaded(Consults(amount, currency, when)[n]),
         Convert(amount, currency, when).ok
  PROVE  Convert(amount, currency, when).value \in Bounded
<1> DEFINE direct == <<currency, Base>>
           reverse == <<Base, currency>>
           first == <<Pivot, currency>>
           second == <<Pivot, Base>>
           crossed == currency # Pivot /\ Base # Pivot
           asked == Consults(amount, currency, when)
<1>1. amount \in Int /\ Bounded \subseteq Int
  BY FittingOK
<1>2. CASE currency = Base \/ amount = 0
  BY <1>2 DEF Convert, Some
<1>3. CASE ~(currency = Base \/ amount = 0)
  <2>1. asked = <<direct>> \o (IF Lacks(direct, when) THEN <<reverse>> ELSE <<>>)
                \o (IF crossed /\ Lacks(direct, when) /\ Lacks(reverse, when)
                    THEN <<first, second>> ELSE <<>>)
    BY <1>3 DEF Consults
  <2>2. /\ direct \in ToSet(asked)
        /\ Lacks(direct, when) => reverse \in ToSet(asked)
        /\ crossed /\ Lacks(direct, when) /\ Lacks(reverse, when) =>
             first \in ToSet(asked) /\ second \in ToSet(asked)
    <3> DEFINE S == {direct, reverse, first, second}
               B == IF Lacks(direct, when) THEN <<reverse>> ELSE <<>>
               C == IF crossed /\ Lacks(direct, when) /\ Lacks(reverse, when)
                    THEN <<first, second>> ELSE <<>>
    <3>1. <<direct>> \in Seq(S) /\ direct \in ToSet(<<direct>>)
      BY DEF ToSet
    <3>2. B \in Seq(S) /\ (Lacks(direct, when) => reverse \in ToSet(B))
      BY DEF ToSet
    <3>3. /\ C \in Seq(S)
          /\ crossed /\ Lacks(direct, when) /\ Lacks(reverse, when) =>
               first \in ToSet(C) /\ second \in ToSet(C)
      <4>1. CASE crossed /\ Lacks(direct, when) /\ Lacks(reverse, when)
        <5>1. C = <<first, second>>
          BY <4>1
        <5>2. PICK x, y : x = first /\ y = second
          OBVIOUS
        <5>3. C = <<x, y>> /\ x \in S /\ y \in S
          BY <5>1, <5>2
        <5> HIDE DEF C, S
        <5>4. /\ C \in Seq(S) /\ C[1] = x /\ C[2] = y
              /\ 1 \in DOMAIN C /\ 2 \in DOMAIN C
          BY <5>3
        <5>. QED  BY <5>2, <5>4 DEF ToSet
      <4>2. CASE ~(crossed /\ Lacks(direct, when) /\ Lacks(reverse, when))
        BY <4>2
      <4>. QED  BY <4>1, <4>2
    <3>4. asked = <<direct>> \o B \o C
      BY <2>1
    <3>5. PICK u, v, w, T : /\ u = <<direct>> /\ v = B /\ w = C /\ T = S
      OBVIOUS
    <3> HIDE DEF B, C, S
    <3>6. u \in Seq(T) /\ v \in Seq(T) /\ w \in Seq(T)
      BY <3>1, <3>2, <3>3, <3>5
    <3>7. /\ u \o v \in Seq(T) /\ ToSet(u) \subseteq ToSet(u \o v)
          /\ ToSet(v) \subseteq ToSet(u \o v)
      BY ONLY <3>6, JoinedSets
    <3>8. ToSet(u \o v) \subseteq ToSet(u \o v \o w) /\ ToSet(w) \subseteq ToSet(u \o v \o w)
      BY ONLY <3>6, <3>7, JoinedSets
    <3>9. asked = u \o v \o w
      BY <3>4, <3>5
    <3> HIDE DEF asked
    <3>. QED  BY <3>1, <3>2, <3>3, <3>5, <3>7, <3>8, <3>9
  <2>3. \A pair \in ToSet(asked) : Loaded(pair)
    BY DEF ToSet
  <2>4. \A pair : Loaded(pair) =>
           Find(pair, when) = None \/ rates[Find(pair, when)].rate \in Int
    BY FindOK DEF Loaded, Rated
  <2> HIDE DEF asked
  <2>5. PICK d, r, p, q : /\ d = Find(direct, when) /\ r = Find(reverse, when)
                          /\ p = Find(first, when) /\ q = Find(second, when)
    OBVIOUS
  <2>6. Convert(amount, currency, when) =
          IF d # None THEN Multiply(amount, rates[d].rate)
          ELSE IF r # None THEN Divide(amount, rates[r].rate)
          ELSE IF crossed /\ p # None /\ q # None
          THEN IF CrossRate(p, q).ok THEN Multiply(amount, CrossRate(p, q).value) ELSE Fail
          ELSE Fail
    BY <1>3, <2>5 DEF Convert
  <2>7. /\ d = None \/ rates[d].rate \in Int
        /\ d = None => Lacks(direct, when) /\ (r = None \/ rates[r].rate \in Int)
    BY <2>2, <2>3, <2>4, <2>5 DEF Lacks
  <2>8. d = None /\ r = None => Lacks(reverse, when)
    BY <2>2, <2>3, <2>5, <2>7 DEF Lacks
  <2>9. d = None /\ r = None /\ crossed =>
          (p = None \/ rates[p].rate \in Int) /\ (q = None \/ rates[q].rate \in Int)
    BY <2>2, <2>3, <2>4, <2>5, <2>7, <2>8
  <2>10. CASE d # None
    BY <1>1, <2>6, <2>7, <2>10, MultiplyBounded
  <2>11. CASE d = None /\ r # None
    BY <1>1, <2>6, <2>7, <2>11, DivideBounded
  <2>12. CASE d = None /\ r = None
    <3>1. crossed /\ p # None /\ q # None /\ CrossRate(p, q).ok
      BY <2>6, <2>12 DEF Fail
    <3>2. Convert(amount, currency, when) = Multiply(amount, CrossRate(p, q).value)
      BY <2>6, <2>12, <3>1
    <3>3. rates[p].rate \in Int /\ rates[q].rate \in Int
      BY <2>9, <2>12, <3>1
    <3>4. CrossRate(p, q) = Divide(rates[q].rate, rates[p].rate)
      BY <3>1 DEF CrossRate, Fail
    <3>5. CrossRate(p, q).value \in Int
      BY <1>1, <3>1, <3>3, <3>4, DivideBounded
    <3>. QED  BY <1>1, <3>2, <3>5, MultiplyBounded
  <2>. QED  BY <2>10, <2>11, <2>12
<1>. QED  BY <1>2, <1>3

-----------------------------------------------------------------------------
(* The figures are those of what was converted.                            *)

\* A step that changes nothing of what the figures are drawn from.
SameFigures ==
    /\ report'.kind = report.kind /\ report'.first = report.first
    /\ report'.last = report.last /\ report'.tree = report.tree
    /\ report'.lines = report.lines /\ report'.values = report.values

LEMMA TrendKept ==
  ASSUME SameFigures, Counted' = Counted, \A ids : Flow(ids)' = Flow(ids)
  PROVE  Trend' = Trend
<1>1. Months' = Months
  BY DEF SameFigures, Months
<1>2. \A k, b : MonthsLeft(k, b)' = MonthsLeft(k, b)
  BY <1>1 DEF SameFigures, MonthsLeft, EndOf
<1>3. \A B : Bucketing(B)' = Bucketing(B)
  BY <1>1, <1>2 DEF SameFigures, Bucketing
<1>4. Buckets' = Buckets
  BY <1>3 DEF Buckets
<1>5. \A m : InMonth(m)' = InMonth(m)
  BY <1>4 DEF SameFigures, InMonth
<1>6. \A m : Flow(InMonth(m))' = Flow(InMonth(m))
  <2> SUFFICES ASSUME NEW m PROVE Flow(InMonth(m))' = Flow(InMonth(m))
    OBVIOUS
  <2>1. PICK ids : ids = InMonth(m)
    OBVIOUS
  <2>2. InMonth(m)' = ids
    BY <1>5, <2>1
  <2>3. Flow(ids)' = Flow(ids)
    OBVIOUS
  <2>. QED  BY <2>1, <2>2, <2>3
<1>7. Trend = [m \in 1..Months |-> Flow(InMonth(m))]
      /\ Trend' = [m \in 1..Months' |-> Flow(InMonth(m))']
  BY TrendIs DEF Trend, InMonth, Buckets, Bucketing, MonthsLeft
<1>. QED  BY <1>1, <1>6, <1>7

LEMMA FiguresKept ==
  ASSUME SameFigures
  PROVE  \A d : Summable(d)' <=> Summable(d)
<1>1. Counted' = Counted
  BY DEF SameFigures, Counted
<1>2. Incomes' = Incomes /\ Expenses' = Expenses
  BY <1>1 DEF SameFigures, Incomes, Expenses
<1>3. \A ids : Sizes(ids)' = Sizes(ids) /\ Amounts(ids)' = Amounts(ids)
  BY DEF SameFigures, Sizes, Amounts
<1>4. \A ids : Flow(ids)' = Flow(ids)
  BY <1>2, <1>3 DEF Flow
<1>5. Trend' = Trend
  BY <1>1, <1>4, TrendKept
<1>6. \A d, k : Slice(d, k)' = Slice(d, k)
  BY DEF SameFigures, Slice
<1>7. \A d : Breakdown(d)' = Breakdown(d)
  BY <1>1, <1>4, <1>6 DEF Breakdown
<1>8. TopExpenses' = TopExpenses
  BY <1>2, <1>3, <1>6 DEF TopExpenses
<1>9. Distribution' = Distribution
  BY <1>3 DEF SameFigures, Distribution
<1>10. \A ids : NetWorth(ids)' = NetWorth(ids)
  BY <1>3 DEF SameFigures, NetWorth
<1>11. CashFlow' = CashFlow
  BY <1>1, <1>4 DEF CashFlow
<1>12. \A m : NetWorth(ValuesOf(m))' = NetWorth(ValuesOf(m))
  BY <1>10 DEF SameFigures, ValuesOf
<1>13. NetWorth(DOMAIN report.values)' = NetWorth(DOMAIN report.values)
  BY <1>10 DEF SameFigures
<1>14. Months' = Months
  BY DEF SameFigures, Months
<1> SUFFICES ASSUME NEW d PROVE Summable(d)' <=> Summable(d)
  OBVIOUS
<1>. QED  BY <1>5, <1>7, <1>8, <1>9, <1>11, <1>12, <1>13, <1>14 DEF SameFigures, Summable

(* What a report has converted.                                            *)

Columned == (\A i \in Ids : InColumn(rows[i].amount)) /\ Rated

PointsOK == \A k \in DOMAIN report.points : report.points[k].amount \in Int

Ascends ==
    report.kind = "trend" =>
      \A i, k \in DOMAIN report.file :
         i <= k => rows[report.file[i]].time <= rows[report.file[k]].time

Framed ==
    report.kind = "trend" =>
      /\ report.first <= report.last
      /\ report.from = MonthStart(report.first) /\ report.to = MonthStart(report.last + 1)

Drawn ==
    /\ report.kind = "trend" => InOrder
    /\ report.step = "done" /\ report.kind # "export" => Summable(report.dimension)

SumsInv == Columned /\ PointsOK /\ Ascends /\ Framed /\ LinesOK /\ Drawn

LEMMA SumsInit == ReportInit => SumsInv
<1> SUFFICES ASSUME ReportInit PROVE SumsInv
  OBVIOUS
<1>1. report = Quiet
  BY DEF ReportInit
<1>2. Columned
  <2>1. DOMAIN rows = Ids /\ DOMAIN rates = 1..Len(rates)
    BY TimeAssumption DEF ReportInit, Stamped, Ids
  <2>. QED  BY <2>1, ColumnsAssumption DEF ReportInit, Columned, Rated, InColumn, ToSet
<1>3. PointsOK /\ Ascends /\ Framed /\ Drawn
  BY <1>1, ReportAssumption DEF Quiet, PointsOK, Ascends, Framed, Drawn
<1>4. LinesOK
  BY <1>1 DEF Quiet, LinesOK
<1>. QED  BY <1>2, <1>3, <1>4 DEF SumsInv

\* A step that changes a part of it.
LEMMA SumsStep ==
  ASSUME PagesInv, PagesInv', SumsInv, Columned',
         SameReport \/ (Ascends' /\ Framed' /\ report'.kind = report.kind
                        /\ report'.first = report.first /\ report'.last = report.last),
         \A i \in Ids : rows'[i].time = rows[i].time,
         report'.points = report.points \/ PointsOK',
         \/ report'.lines = report.lines /\ report'.values = report.values
         \/ LinesOK' /\ (report'.kind = "trend" => InOrder'),
         \/ report'.step # "done" \/ report'.kind = "export"
         \/ Summable(report.dimension)'
  PROVE  SumsInv'
<1>1. PointsOK'
  BY DEF SumsInv, PointsOK
<1>2. Ascends' /\ Framed'
  <2>1. CASE SameReport
    <3>1. \A k \in DOMAIN report.file : report.file[k] \in Ids
      BY DEF PagesInv, ReportTypeOK
    <3>2. Framed'
      BY <2>1 DEF SumsInv, Framed, SameReport, MonthStart
    <3>3. Ascends'
      BY <2>1, <3>1 DEF SumsInv, Ascends, SameReport
    <3>. QED  BY <3>2, <3>3
  <2>. QED  BY <2>1
<1>3. report'.kind = report.kind /\ report'.first = report.first /\ report'.last = report.last
  BY DEF SameReport
<1>4. LinesOK'
  BY DEF SumsInv, LinesOK
<1>5. report'.kind = "trend" => InOrder'
  <2>1. CASE report'.lines = report.lines
    BY <1>3, <2>1 DEF SumsInv, Drawn, InOrder, MonthStart
  <2>. QED  BY <2>1
<1>6. Drawn'
  BY <1>5 DEF Drawn
<1>. QED  BY <1>1, <1>2, <1>4, <1>6 DEF SumsInv

\* A step that leaves the rows and the rates as they are.
LEMMA ColumnsKept ==
  ASSUME SumsInv, rows' = rows, rates' = rates
  PROVE  Columned' /\ \A i \in Ids : rows'[i].time = rows[i].time
  BY DEF SumsInv, Columned, Rated, Ids

\* What was drawn up is not touched any more.
LEMMA DrawnKept ==
  ASSUME SumsInv, SameFigures, report'.step = report.step, report'.dimension = report.dimension
  PROVE  report'.step # "done" \/ report'.kind = "export" \/ Summable(report.dimension)'
<1>1. SUFFICES ASSUME report.step = "done", report.kind # "export"
               PROVE  Summable(report.dimension)'
  BY DEF SameFigures
<1>2. PICK d : d = report.dimension
  OBVIOUS
<1>3. Summable(d)
  BY <1>1, <1>2 DEF SumsInv, Drawn
<1>4. Summable(d)'
  BY <1>3, FiguresKept
<1>5. report'.dimension = d
  BY <1>2
<1>. QED  BY <1>4, <1>5

LEMMA SumsWrites ==
  ASSUME PagesInv, PagesInv', SumsInv, NEW removed, NEW added,
         Evolves(removed, added), rates' = rates
  PROVE  SumsInv'
<1>1. /\ report'.step = report.step /\ report'.points = report.points
      /\ report'.dimension = report.dimension /\ SameReport /\ SameFigures
  BY WitnessedFields DEF PagesInv, ReportTypeOK, Evolves, SameReport, SameFigures
<1>2. Columned'
  <2>1. \A i \in Ids : InColumn(rows[i].amount)
    BY DEF SumsInv, Columned
  <2>2. \A i \in Ids' : InColumn(rows'[i].amount)
    BY <2>1 DEF Evolves
  <2>. QED  BY <2>2 DEF SumsInv, Columned, Rated, InColumn
<1>3. \A i \in Ids : rows'[i].time = rows[i].time
  BY DEF Evolves
<1>4. report'.step # "done" \/ report'.kind = "export" \/ Summable(report.dimension)'
  BY <1>1, DrawnKept
<1>. QED  BY <1>1, <1>2, <1>3, <1>4, SumsStep DEF SameFigures

LEMMA SumsSame ==
  ASSUME PagesInv, PagesInv', SumsInv, Columned', rows' = rows, report' = report
  PROVE  SumsInv'
<1>1. SameReport /\ SameFigures
  BY DEF SameReport, SameFigures
<1>2. report'.step # "done" \/ report'.kind = "export" \/ Summable(report.dimension)'
  BY <1>1, DrawnKept
<1>. QED  BY <1>1, <1>2, SumsStep

LEMMA SumsStart ==
  ASSUME PagesInv, SumsInv, NEW kind, NEW first \in 0..Today, NEW last \in 0..Today,
         Start(kind, first, last)
  PROVE  SumsInv'
<1> DEFINE range == Asked(kind, first, last)
<1>1. /\ report' = [Quiet EXCEPT !.kind = kind, !.step = "rows",
                                 !.first = first, !.last = last,
                                 !.from = range.from, !.to = range.to,
                                 !.steady = Within(range.from, range.to),
                                 !.ever = Within(range.from, range.to)]
      /\ first <= last /\ rows' = rows /\ rates' = rates
  BY DEF Start
<1>2. /\ report'.kind = kind /\ report'.first = first /\ report'.last = last
      /\ report'.from = range.from /\ report'.to = range.to /\ report'.step = "rows"
      /\ report'.file = <<>> /\ report'.points = <<>> /\ report'.lines = <<>>
      /\ report'.values = <<>>
  BY <1>1 DEF Quiet
<1>3. range.from = MonthStart(first)
      /\ (kind = "trend" => range.to = MonthStart(last + 1))
  BY DEF Asked
<1> HIDE DEF range
<1>4. Columned'
  BY <1>1, ColumnsKept
<1>5. PointsOK' /\ Ascends' /\ LinesOK'
  BY <1>2 DEF PointsOK, Ascends, LinesOK
<1>6. Framed'
  BY <1>1, <1>2, <1>3 DEF Framed, MonthStart
<1>7. Drawn'
  <2>1. InOrder'
    <3>1. first \in Int /\ last \in Int
      BY ReportAssumption DEF Today
    <3>. QED  BY <1>1, <1>2, <3>1 DEF InOrder
  <2>. QED  BY <1>2, <2>1 DEF Drawn
<1>. QED  BY <1>4, <1>5, <1>6, <1>7 DEF SumsInv

\* The rows are read in the order of time, and nothing is drawn up yet.
LEMMA SumsRows ==
  ASSUME PagesInv, PagesInv', SumsInv, ReadPage \/ ReadRange
  PROVE  SumsInv'
<1>1. rows' = rows /\ rates' = rates
  BY DEF ReadPage, ReadRange
<1>2. Columned' /\ \A i \in Ids : rows'[i].time = rows[i].time
  BY <1>1, ColumnsKept
<1>3. /\ report'.kind = report.kind /\ report'.first = report.first
      /\ report'.last = report.last /\ report'.from = report.from
      /\ report'.to = report.to /\ report'.points = report.points
      /\ report'.lines = report.lines /\ report'.values = report.values
  <2>1. PICK file, step : report' = [report EXCEPT !.file = file, !.step = step]
    <3>1. CASE ReadRange
      BY <3>1 DEF ReadRange
    <3>2. CASE ReadPage
      <4>1. PICK page, next : \/ report' = [report EXCEPT !.step = "refused"]
                              \/ report' = [report EXCEPT !.file = report.file \o page, !.step = next]
        BY <3>2 DEF ReadPage
      <4>2. report' = [report EXCEPT !.step = "refused"] =>
              report' = [report EXCEPT !.file = report.file, !.step = "refused"]
        BY DEF PagesInv, ReportTypeOK, IsReport
      <4>. QED  BY <4>1, <4>2
    <3>. QED  BY <3>1, <3>2
  <2>. QED  BY <2>1 DEF PagesInv, ReportTypeOK, IsReport
<1>4. Framed'
  BY <1>3 DEF SumsInv, Framed, MonthStart
<1>5. Ascends'
  <2>1. CASE ReadPage
    <3>1. report.kind # "trend"
      BY <2>1 DEF ReadPage, Paged
    <3>. QED  BY <1>3, <3>1 DEF Ascends
  <2>2. CASE ReadRange
    <3> DEFINE s == Ascending(Within(report.from, report.to))
    <3>1. /\ s \in Seq(Within(report.from, report.to))
          /\ \A k, m \in 1..Len(s) : k < m => Precedes(s[k], s[m])
      BY AscendingOK DEF PagesInv, ReportTypeOK, Within
    <3>2. report' = [report EXCEPT !.file = s, !.step = "values"]
      BY <2>2 DEF ReadRange
    <3> HIDE DEF s
    <3>3. report'.file = s
      BY <3>2 DEF PagesInv, ReportTypeOK, IsReport
    <3>4. DOMAIN s = 1..Len(s) /\ Len(s) \in Nat /\ \A k \in 1..Len(s) : s[k] \in Ids
      BY <3>1 DEF Within
    <3>5. \A i \in Ids : rows[i].time \in Int
      BY DEF PagesInv, ReportTypeOK, Stamped, Ids
    <3>6. ASSUME NEW i \in 1..Len(s), NEW k \in 1..Len(s), i <= k
          PROVE  rows[s[i]].time <= rows[s[k]].time
      <4>1. CASE i = k
        BY <3>4, <3>5, <4>1
      <4>2. CASE i # k
        <5>1. i < k
          BY <3>4, <3>6, <4>2
        <5>2. Precedes(s[i], s[k])
          BY <3>1, <5>1
        <5>. QED  BY <3>4, <3>5, <5>2 DEF Precedes
      <4>. QED  BY <4>1, <4>2
    <3>. QED  BY <1>1, <3>3, <3>4, <3>6 DEF Ascends
  <2>. QED  BY <2>1, <2>2
<1>6. report'.step # "done" \/ report'.kind = "export"
  <2>1. CASE ReadRange
    BY <2>1 DEF ReadRange, PagesInv, ReportTypeOK, IsReport
  <2>2. CASE ReadPage
    <3>1. PICK page, next : /\ \/ report' = [report EXCEPT !.step = "refused"]
                               \/ report' = [report EXCEPT !.file = report.file \o page, !.step = next]
                            /\ next = "rows" \/ next = AfterRows(report.kind)
      BY <2>2 DEF ReadPage
    <3>2. report'.step = "refused" \/ report'.step = "rows" \/ report'.step = AfterRows(report.kind)
      BY <3>1 DEF PagesInv, ReportTypeOK, IsReport
    <3>. QED  BY <1>3, <3>2 DEF AfterRows
  <2>. QED  BY <2>1, <2>2
<1>. QED  BY <1>2, <1>3, <1>4, <1>5, <1>6, SumsStep

\* A balance is a sum of amounts.
LEMMA BalanceInt ==
  ASSUME PagesInv, Columned, NEW account, NEW when
  PROVE  BalanceAt(account, when) \in Int
<1> DEFINE counted == {i \in Ids : rows[i].live /\ rows[i].account = account /\ rows[i].time <= when}
           f == [i \in counted |-> rows[i].amount]
<1>1. Len(rows) \in Nat
  BY DEF PagesInv, ReportTypeOK, Stamped
<1>2. IsFiniteSet(Ids) /\ counted \in SUBSET Ids
  BY <1>1, FS_Interval DEF Ids
<1>3. IsFiniteSet(counted)
  <2> HIDE DEF counted
  <2>. QED  BY ONLY <1>2, FS_Subset
<1>4. f \in [counted -> Int]
  BY DEF Columned, InColumn
<1>5. BalanceAt(account, when) = SumOf(f)
  BY DEF BalanceAt
<1> HIDE DEF f, counted
<1>. QED  BY <1>3, <1>4, <1>5, OrderedOK

\* A balance that is read is a number.
LEMMA SumsBalance ==
  ASSUME PagesInv, PagesInv', ForceInv, SumsInv, ReadBalance
  PROVE  SumsInv'
<1> DEFINE read == Len(report.points)
           n == Cardinality(Accounts)
           month == read \div n + 1
           balance(k, until, when) == [account |-> AccountOrder[k], at |-> when,
                                     amount |-> BalanceAt(AccountOrder[k], until)]
           next == IF report.kind = "analysis"
                   THEN [k \in 1..n |-> balance(k, ValuedAt(month), ValuedAt(month))]
                   ELSE <<balance(read + 1, Forever, Now)>>
<1>1. /\ report' = [report EXCEPT !.points = @ \o next]
      /\ rows' = rows /\ rates' = rates /\ report.step = "values"
  BY DEF ReadBalance, Converting
<1>2. n \in Nat /\ read \in Nat
  BY ReportAssumption, FS_CardinalityType DEF ForceInv, Valued
<1>3. \A k, until, when : balance(k, until, when).amount \in Int
  BY BalanceInt DEF SumsInv
<1>4. next \in Seq(ToSet(next)) /\ \A k \in 1..Len(next) : next[k].amount \in Int
  <2>1. CASE report.kind = "analysis"
    <3> DEFINE point(k) == balance(k, ValuedAt(month), ValuedAt(month))
    <3>1. next = [k \in 1..n |-> point(k)]
      BY <2>1
    <3>2. \A k : point(k).amount \in Int
      BY <1>3
    <3> HIDE DEF next, point
    <3>. QED  BY <1>2, <3>1, <3>2, ListedOK
  <2>2. CASE report.kind # "analysis"
    <3> DEFINE point(k) == balance(read + 1, Forever, Now)
    <3>1. next = <<point(1)>>
      BY <2>2
    <3>2. \A k : point(k).amount \in Int
      BY <1>3
    <3> HIDE DEF next
    <3>3. next = [k \in 1..1 |-> point(k)]
      BY <3>1
    <3> HIDE DEF point
    <3>. QED  BY <3>2, <3>3, ListedOK
  <2>. QED  BY <2>1, <2>2
<1> HIDE DEF next
<1>5. /\ SameReport /\ report'.lines = report.lines /\ report'.values = report.values
      /\ report'.step = "values" /\ report'.points = report.points \o next
  BY <1>1 DEF PagesInv, ReportTypeOK, IsReport, SameReport
<1>6. PointsOK'
  <2> DEFINE B == ToSet(report.points) \cup ToSet(next)
             all == report.points \o next
  <2>1. /\ report.points \in Seq(ToSet(report.points))
        /\ \A k \in 1..read : report.points[k].amount \in Int
    BY DEF ForceInv, Valued, SumsInv, PointsOK
  <2>2. report.points \in Seq(B) /\ next \in Seq(B)
    BY <1>4, <2>1
  <2> HIDE DEF B
  <2>3. /\ all \in Seq(B) /\ Len(all) = read + Len(next)
        /\ \A k \in 1..read + Len(next) :
             all[k] = IF k <= read THEN report.points[k] ELSE next[k - read]
    BY ONLY <2>2, ConcatProperties
  <2>4. DOMAIN all = 1..read + Len(next) /\ Len(next) \in Nat
    BY <2>2, <2>3
  <2>5. report'.points = all
    BY <1>5
  <2> HIDE DEF all
  <2>6. ASSUME NEW k \in 1..read + Len(next) PROVE all[k].amount \in Int
    <3>1. CASE k <= read
      <4>1. k \in 1..read
        BY <1>2, <2>4, <3>1
      <4>2. all[k] = report.points[k]
        BY <2>3, <3>1
      <4>. QED  BY <2>1, <4>1, <4>2
    <3>2. CASE ~(k <= read)
      <4>1. k - read \in 1..Len(next)
        BY <1>2, <2>4, <3>2
      <4>2. all[k] = next[k - read]
        BY <2>3, <3>2
      <4>. QED  BY <1>4, <4>1, <4>2
    <3>. QED  BY <3>1, <3>2
  <2>. QED  BY <2>4, <2>5, <2>6 DEF PointsOK
<1>7. Columned' /\ \A i \in Ids : rows'[i].time = rows[i].time
  BY <1>1, ColumnsKept
<1>8. report'.step # "done"
  BY <1>5
<1>. QED  BY <1>5, <1>6, <1>7, <1>8, SumsStep

\* What a report converts is bounded, when it has all its rates.
LEMMA DueBounded ==
  ASSUME PagesInv, ForceInv, SumsInv, Wanted = {}, ~Unconvertible, NEW k \in Due
  PROVE  Converted(k).value \in Bounded
<1> DEFINE read == Len(report.points)
<1>1. read \in Nat /\ DOMAIN report.points = 1..read
  BY DEF ForceInv, Valued
<1>2. Converted(k).ok /\ \A n \in DOMAIN Asking(k) : Loaded(Asking(k)[n])
  BY DEF Unconvertible, Wanted, Wanting
<1>3. InColumn(Conversion(k).amount)
  <2>1. CASE k \in DOMAIN report.points
    <3>1. Conversion(k).amount = report.points[k].amount
      BY <1>1, <2>1 DEF Conversion
    <3>. QED  BY <2>1, <3>1 DEF SumsInv, PointsOK, Unconvertible, InColumn
  <2>2. CASE k \notin DOMAIN report.points
    <3>1. PICK m \in DOMAIN report.file : k = read + m
      BY <2>2 DEF Due
    <3>2. m \in Nat /\ m > 0 /\ report.file[m] \in Ids
      BY DEF PagesInv, ReportTypeOK
    <3>3. ~(k <= read) /\ k - read = m
      BY <1>1, <3>1, <3>2
    <3>4. Conversion(k).amount = rows[report.file[m]].amount
      BY <3>3 DEF Conversion
    <3>. QED  BY <3>2, <3>4 DEF SumsInv, Columned
  <2>. QED  BY <2>1, <2>2
<1>4. Conversion(k).at \in Int
  BY DueOK
<1>5. PICK a, c, w : a = Conversion(k).amount /\ c = Conversion(k).currency /\ w = Conversion(k).at
  OBVIOUS
<1>6. Asking(k) = Consults(a, c, w) /\ Converted(k) = Convert(a, c, w)
  BY <1>5 DEF Asking, Converted
<1>7. a \in Bounded /\ w \in Int
  BY <1>3, <1>4, <1>5, ColumnBounded
<1>8. CacheOK /\ Rated
  BY DEF ForceInv, SumsInv, Columned
<1>9. /\ \A n \in DOMAIN Consults(a, c, w) : Loaded(Consults(a, c, w)[n])
      /\ Convert(a, c, w).ok
  BY <1>2, <1>6
<1>10. Convert(a, c, w).value \in Bounded
  BY ONLY PagesInv, <1>7, <1>8, <1>9, ConvertBounded
<1>. QED  BY <1>6, <1>10

\* The lines and values are those of the rows and balances that were read.
LEMMA SumsFinish ==
  ASSUME PagesInv, PagesInv', ForceInv, SumsInv, FinishValues
  PROVE  SumsInv'
<1> DEFINE read == Len(report.points)
<1>1. /\ read = Points(report.kind) /\ Wanted = {} /\ ~Unconvertible
      /\ rows' = rows /\ rates' = rates
  BY DEF FinishValues, Converting
<1> DEFINE Drawing(values, lines, step) ==
             /\ report' = [report EXCEPT !.values = values, !.lines = lines, !.step = step]
             /\ step \in {"categories", "sums"}
             /\ values = [k \in DOMAIN report.points |-> values[k]]
             /\ \A k \in DOMAIN report.points : values[k].amount = Converted(k).value
             /\ lines = [k \in DOMAIN report.file |-> lines[k]]
             /\ \A k \in DOMAIN report.file :
                  /\ lines[k].time = rows[report.file[k]].time
                  /\ lines[k].amount = IF report.file[k] \in Countable
                                       THEN Converted(read + k).value ELSE 0
<1>2. PICK values, lines, step : Drawing(values, lines, step)
  <2> DEFINE v == [k \in DOMAIN report.points |->
                      [type |-> TypeOf[report.points[k].account],
                       amount |-> Converted(k).value]]
             line(k, i) == [type |-> rows[i].type, account |-> rows[i].account,
                            category |-> rows[i].category, time |-> rows[i].time,
                            amount |-> IF i \in Countable THEN Converted(read + k).value ELSE 0]
             l == [k \in DOMAIN report.file |-> line(k, report.file[k])]
             s == IF report.kind = "dashboard" THEN "categories" ELSE "sums"
  <2>1. report' = [report EXCEPT !.values = v, !.lines = l, !.step = s]
    BY DEF FinishValues
  <2>2. v = [k \in DOMAIN report.points |-> v[k]] /\ l = [k \in DOMAIN report.file |-> l[k]]
    OBVIOUS
  <2>3. \A k \in DOMAIN report.points : v[k].amount = Converted(k).value
    OBVIOUS
  <2>4. \A k \in DOMAIN report.file :
             /\ l[k].time = rows[report.file[k]].time
             /\ l[k].amount = IF report.file[k] \in Countable
                              THEN Converted(read + k).value ELSE 0
    OBVIOUS
  <2>5. s \in {"categories", "sums"}
    OBVIOUS
  <2> HIDE DEF v, l, s
  <2>6. Drawing(v, l, s)
    BY <2>1, <2>2, <2>3, <2>4, <2>5
  <2> HIDE DEF Drawing
  <2>. QED  BY <2>6
<1>3. /\ report' = [report EXCEPT !.values = values, !.lines = lines, !.step = step]
      /\ step \in {"categories", "sums"}
      /\ values = [k \in DOMAIN report.points |-> values[k]]
      /\ \A k \in DOMAIN report.points : values[k].amount = Converted(k).value
      /\ lines = [k \in DOMAIN report.file |-> lines[k]]
      /\ \A k \in DOMAIN report.file :
           /\ lines[k].time = rows[report.file[k]].time
           /\ lines[k].amount = IF report.file[k] \in Countable
                                THEN Converted(read + k).value ELSE 0
  BY <1>2
<1> HIDE DEF Drawing
<1>4. /\ SameReport /\ report'.lines = lines /\ report'.values = values
      /\ report'.step = step /\ report'.points = report.points
  BY <1>3 DEF PagesInv, ReportTypeOK, IsReport, SameReport
<1>5. /\ read \in Nat /\ DOMAIN report.points = 1..read
      /\ Len(report.file) \in Nat /\ DOMAIN report.file = 1..Len(report.file)
      /\ \A k \in DOMAIN report.file : report.file[k] \in Ids
  BY DEF ForceInv, Valued, PagesInv, ReportTypeOK
<1>6. /\ Len(lines) = Len(report.file) /\ DOMAIN lines = 1..Len(report.file)
      /\ Len(values) = read /\ DOMAIN values = 1..read
  BY <1>3, <1>5, ListedOK
<1>7. \A k \in DOMAIN report.points : values[k].amount \in Bounded
  <2>1. \A k \in DOMAIN report.points : k \in Due
    BY DEF Due
  <2>. QED  BY <1>1, <1>3, <2>1, DueBounded
<1>8. \A k \in DOMAIN report.file : lines[k].amount \in Bounded
  <2> SUFFICES ASSUME NEW k \in DOMAIN report.file PROVE lines[k].amount \in Bounded
    OBVIOUS
  <2>1. CASE report.file[k] \in Countable
    <3>1. read + k \in Due
      BY <1>1, <2>1 DEF Due
    <3>. QED  BY <1>1, <1>3, <2>1, <3>1, DueBounded
  <2>2. CASE report.file[k] \notin Countable
    <3>1. 0 \in Bounded
      BY FittingOK DEF Bounded
    <3>. QED  BY <1>3, <2>2, <3>1
  <2>. QED  BY <2>1, <2>2
<1>9. LinesOK'
  BY <1>4, <1>5, <1>6, <1>7, <1>8 DEF LinesOK, Bounded
<1>10. report'.kind = "trend" => InOrder'
  <2> SUFFICES ASSUME report'.kind = "trend" PROVE InOrder'
    OBVIOUS
  <2>1. report.kind = "trend" /\ report'.first = report.first /\ report'.last = report.last
    BY <1>4 DEF SameReport
  <2>2. /\ report.first \in Int /\ report.last \in Int /\ report.first <= report.last
        /\ report.from = MonthStart(report.first) /\ report.to = MonthStart(report.last + 1)
    BY <2>1 DEF PagesInv, ReportTypeOK, SumsInv, Framed
  <2>3. \A k \in DOMAIN report.file :
          /\ rows[report.file[k]].time \in Int
          /\ rows[report.file[k]].time >= report.from /\ rows[report.file[k]].time < report.to
    <3>1. \A i \in Ids : rows[i].time \in Int
      BY DEF PagesInv, ReportTypeOK, Stamped, Ids
    <3>. QED  BY <1>5, <3>1 DEF ForceInv, Timed
  <2>4. \A i, k \in DOMAIN report.file :
          i <= k => rows[report.file[i]].time <= rows[report.file[k]].time
    BY <2>1 DEF SumsInv, Ascends
  <2>5. MonthStart(report.first) \in Int /\ MonthStart(report.last + 1) \in Int
    BY <2>2, ReportAssumption DEF MonthStart
  <2>6. \A k \in DOMAIN lines :
          /\ lines[k].time \in Int /\ MonthStart(report.first) <= lines[k].time
          /\ lines[k].time < MonthStart(report.last + 1)
    BY <1>3, <1>5, <1>6, <2>2, <2>3, <2>5
  <2>7. \A i, k \in DOMAIN lines : i <= k => lines[i].time <= lines[k].time
    BY <1>3, <1>5, <1>6, <2>4
  <2>8. MonthStart(report'.first) = MonthStart(report.first)
        /\ MonthStart(report'.last + 1) = MonthStart(report.last + 1)
    BY <2>1
  <2>. QED  BY <1>4, <2>1, <2>2, <2>6, <2>7, <2>8 DEF InOrder, MonthStart
<1>11. Columned' /\ \A i \in Ids : rows'[i].time = rows[i].time
  BY <1>1, ColumnsKept
<1>12. report'.step # "done"
  BY <1>3, <1>4
<1>. QED  BY <1>4, <1>9, <1>10, <1>11, <1>12, SumsStep

\* A step that changes nothing of what is drawn up from.
LEMMA SumsQuiet ==
  ASSUME PagesInv, PagesInv', SumsInv, rows' = rows, rates' = rates,
         ReadCategories \/ LoadHistory \/ GiveUp
  PROVE  SumsInv'
<1>1. /\ SameReport /\ report'.points = report.points
      /\ report'.lines = report.lines /\ report'.values = report.values
  <2>1. CASE ReadCategories
    BY <2>1 DEF ReadCategories, PagesInv, ReportTypeOK, IsReport, SameReport
  <2>2. CASE LoadHistory
    <3>1. PICK cache : report' = [report EXCEPT !.cache = cache]
      BY <2>2 DEF LoadHistory
    <3>. QED  BY <3>1 DEF PagesInv, ReportTypeOK, IsReport, SameReport
  <2>3. CASE GiveUp
    BY <2>3 DEF GiveUp, PagesInv, ReportTypeOK, IsReport, SameReport
  <2>. QED  BY <2>1, <2>2, <2>3
<1>2. report'.step # "done"
  <2>1. CASE ReadCategories
    <3>1. report'.step = IF report.kind = "analysis" THEN "values" ELSE "sums"
      BY <2>1 DEF ReadCategories, PagesInv, ReportTypeOK, IsReport
    <3>. QED  BY <3>1
  <2>2. CASE LoadHistory
    <3>1. PICK cache : report' = [report EXCEPT !.cache = cache]
      BY <2>2 DEF LoadHistory
    <3>2. report'.step = report.step
      BY <3>1 DEF PagesInv, ReportTypeOK, IsReport
    <3>3. report.step = "values"
      BY <2>2 DEF LoadHistory, Converting
    <3>. QED  BY <3>2, <3>3
  <2>3. CASE GiveUp
    <3>1. report'.step = "refused"
      BY <2>3 DEF GiveUp, PagesInv, ReportTypeOK, IsReport
    <3>. QED  BY <3>1
  <2>. QED  BY <2>1, <2>2, <2>3
<1>3. Columned' /\ \A i \in Ids : rows'[i].time = rows[i].time
  BY ColumnsKept
<1>. QED  BY <1>1, <1>2, <1>3, SumsStep

\* The sums are drawn when each has room.
LEMMA SumsSum ==
  ASSUME PagesInv, PagesInv', SumsInv, Sum
  PROVE  SumsInv'
<1>1. rows' = rows /\ rates' = rates
  BY DEF Sum
<1>2. PICK d : report' = [report EXCEPT !.dimension = d,
                                        !.step = IF Summable(d) THEN "done" ELSE "refused"]
  BY DEF Sum
<1>3. /\ SameReport /\ SameFigures /\ report'.points = report.points
      /\ report'.lines = report.lines /\ report'.values = report.values
      /\ report'.dimension = d
      /\ report'.step = IF Summable(d) THEN "done" ELSE "refused"
  BY <1>2 DEF PagesInv, ReportTypeOK, IsReport, SameReport, SameFigures
<1>4. report'.step # "done" \/ Summable(report.dimension)'
  <2>1. CASE Summable(d)
    <3>1. Summable(d)'
      BY <1>3, <2>1, FiguresKept
    <3>. QED  BY <1>3, <3>1
  <2>2. CASE ~Summable(d)
    BY <1>3, <2>2
  <2>. QED  BY <2>1, <2>2
<1>5. Columned' /\ \A i \in Ids : rows'[i].time = rows[i].time
  BY <1>1, ColumnsKept
<1>. QED  BY <1>3, <1>4, <1>5, SumsStep

LEMMA SumsAnswer ==
  ASSUME SumsInv, Answer
  PROVE  SumsInv'
<1>1. report' = Quiet /\ rows' = rows /\ rates' = rates
  BY DEF Answer
<1>2. Columned'
  BY <1>1, ColumnsKept
<1>3. PointsOK' /\ Ascends' /\ Framed' /\ Drawn'
  BY <1>1, ReportAssumption DEF Quiet, PointsOK, Ascends, Framed, Drawn
<1>4. LinesOK'
  BY <1>1 DEF Quiet, LinesOK
<1>. QED  BY <1>2, <1>3, <1>4 DEF SumsInv

LEMMA SumsNext ==
  ASSUME PagesInv, PagesInv', ForceInv, SumsInv, [ReportNext]_reportVars
  PROVE  SumsInv'
<1>1. CASE Post
  BY <1>1, PostEvolves, SumsWrites
<1>2. CASE Move
  BY <1>2, MoveEvolves, SumsWrites
<1>3. CASE Correct
  BY <1>3, CorrectEvolves, SumsWrites
<1>4. CASE Delete
  BY <1>4, DeleteEvolves, SumsWrites
<1>5. CASE CreateCategory
  <2>1. rows' = rows /\ rates' = rates /\ report' = report
    BY <1>5 DEF CreateCategory
  <2>. QED  BY <2>1, ColumnsKept, SumsSame
<1>6. CASE Quote
  <2>1. PICK q \in Quotes : rates' = Append(rates, q) /\ rows' = rows /\ report' = report
    BY <1>6 DEF Quote
  <2>2. q.time \in Int /\ q.rate \in Int
    BY TimeAssumption, ColumnsAssumption
  <2>3. /\ Len(rates) \in Nat /\ Len(rates') = Len(rates) + 1
        /\ \A i \in 1..Len(rates) : rates'[i] = rates[i]
        /\ rates'[Len(rates) + 1] = q
    BY <2>1, <2>2, AppendStamped DEF PagesInv, ReportTypeOK
  <2>4. Rated'
    BY <2>2, <2>3 DEF SumsInv, Columned, Rated
  <2>5. Columned'
    BY <2>1, <2>4 DEF SumsInv, Columned, Ids
  <2>. QED  BY <2>1, <2>5, SumsSame
<1>7. CASE \E kind \in {"export", "analysis", "dashboard", "trend"},
              first, last \in 0..Today : Start(kind, first, last)
  BY <1>7, SumsStart
<1>8. CASE ReadPage \/ ReadRange
  BY <1>8, SumsRows
<1>9. CASE ReadBalance
  BY <1>9, SumsBalance
<1>10. CASE FinishValues
  BY <1>10, SumsFinish
<1>11. CASE ReadCategories \/ LoadHistory \/ GiveUp
  <2>1. rows' = rows /\ rates' = rates
    BY <1>11 DEF ReadCategories, LoadHistory, GiveUp
  <2>. QED  BY <1>11, <2>1, SumsQuiet
<1>12. CASE Sum
  BY <1>12, SumsSum
<1>13. CASE Answer
  BY <1>13, SumsAnswer
<1>14. CASE UNCHANGED reportVars
  <2>1. rows' = rows /\ rates' = rates /\ report' = report
    BY <1>14 DEF reportVars
  <2>. QED  BY <2>1, ColumnsKept, SumsSame
<1>. QED  BY <1>1, <1>2, <1>3, <1>4, <1>5, <1>6, <1>7, <1>8, <1>9, <1>10, <1>11, <1>12,
             <1>13, <1>14 DEF ReportNext, Write, Read

LEMMA FiguresAddUp ==
  ASSUME SumsInv
  PROVE  PartsAgree
<1> DEFINE income == SumSeq(Sizes(Incomes))
           expense == SumSeq(Sizes(Expenses))
<1>1. SUFFICES ASSUME report.step = "done" PROVE PartsAgree
  BY DEF PartsAgree
<1>2. LinesOK /\ (report.kind = "trend" => InOrder)
  BY DEF SumsInv, Drawn
<1>3. PICK d : d = report.dimension
  OBVIOUS
<1>4. report.kind # "export" => Summable(d)
  BY <1>1, <1>3 DEF SumsInv, Drawn
<1>5. ASSUME report.kind = "trend" PROVE AddUpTo(Trend, income, expense)
  <2>1. \A m \in DOMAIN Trend : HasRoom(Trend[m])
    BY <1>4, <1>5 DEF Summable
  <2>. QED  BY <1>2, <1>5, <2>1, TrendOK
<1>6. ASSUME report.kind = "analysis" PROVE AddUpTo(Breakdown(d), income, expense)
  <2>1. \A slice \in DOMAIN Breakdown(d) : HasRoom(Breakdown(d)[slice])
    BY <1>4, <1>6 DEF Summable
  <2>. QED  BY <1>2, <2>1, BreakdownOK
<1>7. ASSUME report.kind = "dashboard"
      PROVE  /\ CashFlow.income.value = income /\ CashFlow.expense.value = expense
             /\ SumOf([slice \in DOMAIN TopExpenses |-> TopExpenses[slice].value]) = expense
             /\ NetWorth(DOMAIN report.values).value = SumSeq(Amounts(DOMAIN report.values))
             /\ SumOf([t \in DOMAIN Distribution |-> Distribution[t].value])
                  = NetWorth(DOMAIN report.values).value
  <2>1. /\ NetWorth(DOMAIN report.values).ok /\ HasRoom(CashFlow)
        /\ \A t \in DOMAIN Distribution : Distribution[t].ok
        /\ \A slice \in DOMAIN TopExpenses : TopExpenses[slice].ok
    BY <1>4, <1>7 DEF Summable
  <2>2. CashFlow.income.value = income /\ CashFlow.expense.value = expense
    BY <1>2, <2>1, CashFlowOK
  <2>3. SumOf([slice \in DOMAIN TopExpenses |-> TopExpenses[slice].value]) = expense
    BY <1>2, <2>1, TopExpensesOK
  <2>4. NetWorth(DOMAIN report.values).value = SumSeq(Amounts(DOMAIN report.values))
    BY <1>2, <2>1, NetWorthOK
  <2>5. SumOf([t \in DOMAIN Distribution |-> Distribution[t].value])
          = SumSeq(Amounts(DOMAIN report.values))
    BY <1>2, <2>1, DistributionOK
  <2>. QED  BY <2>2, <2>3, <2>4, <2>5
<1>8. report.dimension = d
  BY <1>3
<1>9. report.kind = "trend" => AddUpTo(Trend, income, expense)
  BY <1>5
<1>10. report.kind = "analysis" => AddUpTo(Breakdown(report.dimension), income, expense)
  BY <1>6, <1>8
<1> HIDE DEF income, expense
<1>. QED  BY <1>7, <1>9, <1>10 DEF PartsAgree, AddUpTo, income, expense

\* The figures of a report that was drawn up add up, in exact arithmetic, to
\* all that was converted: its months, its slices and its categories to the
\* cash flow, its types of accounts to the net worth, with no line left out
\* or counted twice.
THEOREM PartsAreSums == ReportSpec => []PartsAgree
<1>1. ReportInit => ForceInv /\ SumsInv
  BY ForceInit, SumsInit
<1>2. PagesInv /\ PagesInv' /\ ForceInv /\ SumsInv /\ [ReportNext]_reportVars
        => ForceInv' /\ SumsInv'
  BY ForceNext, SumsNext
<1>3. SumsInv => PartsAgree
  BY FiguresAddUp
<1>. QED  BY <1>1, <1>2, <1>3, PagesAlways, PTL DEF ReportSpec

=============================================================================
