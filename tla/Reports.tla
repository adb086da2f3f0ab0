------------------------------ MODULE Reports ------------------------------
(***************************************************************************)
(* Reports and exports: ReportQueryService (report_query_service.h and     *)
(* report_analysis_query_service.cpp) over the reads of the PostgreSQL     *)
(* repositories.                                                           *)
(*                                                                         *)
(* A report takes several statements, and each is a transaction of its own *)
(* (execute_tenant_read): between two of them other requests post, correct *)
(* and delete rows, file them under new categories, and the refresh job    *)
(* appends rates.  One report runs at a time here; it only reads.          *)
(*                                                                         *)
(* Rows and rates are numbered as they are inserted, which is their id.    *)
(* Time is counted in days; a month is MonthLength days of the user's      *)
(* time zone.                                                              *)
(***************************************************************************)
EXTENDS Transfers, FiniteSets, FiniteSetsExt

CONSTANTS Base,         \* the user's base currency
          Pivot,        \* USD
          Drafts,       \* postings a request may make: what insert_transaction stores
          Moves,        \* transfers a request may make: a command and its time
          Quotes,       \* rates the refresh may store
          Categories,   \* categories the user may create
          MonthLength,  \* days in a month
          Now,          \* the time the report is asked for
          PageSize,     \* kReportPageSize
          RowLimit,     \* kMaximumReportRows
          TypeOf,       \* the type of each account
          OldRows,      \* rows, rates and categories stored before
          OldRates,
          OldTree,
          MaxRows, MaxRates, MaxWrites  \* bounds: rows, rates, requests

ASSUME ReportAssumption ==
    /\ Base # None /\ Pivot # None
    /\ PageSize \in Nat \ {0} /\ RowLimit \in Nat \ {0} /\ MonthLength \in Nat \ {0}
    /\ Now \in Nat /\ IsFiniteSet(Accounts)
    /\ None \notin Nat \cup {"export", "analysis", "dashboard", "trend"}

(* Rows and rates are numbered in the order they were stored, each has its *)
(* time.                                                                   *)
Stamped(log) ==
    /\ log \in Seq(ToSet(log))
    /\ \A i \in DOMAIN log : log[i].time \in Int

Columns == {"type", "account", "category", "amount", "time", "group", "live"}

(* Parents lead to a root: no categories have all their parents among      *)
(* themselves.                                                             *)
Forest(tree) ==
    /\ None \notin DOMAIN tree
    /\ \A c \in DOMAIN tree : tree[c] \in DOMAIN tree \cup {None}
    /\ \A S \in (SUBSET DOMAIN tree) \ {{}} : \E c \in S : tree[c] \notin S

ASSUME CategoryAssumption ==
    /\ Forest(OldTree) /\ None \notin Categories
    /\ \A i \in DOMAIN OldRows : OldRows[i].category \in DOMAIN OldTree \cup {None}

ASSUME TimeAssumption ==
    /\ Stamped(OldRows) /\ Stamped(OldRates)
    /\ \A i \in DOMAIN OldRows : DOMAIN OldRows[i] = Columns
    /\ \A x \in Drafts \cup Moves \cup Quotes : x.time \in Int

(* Amounts and rates were written in their columns, and a command is one   *)
(* of numbers of the word.                                                 *)
ASSUME ColumnsAssumption ==
    /\ \A d \in Drafts \cup ToSet(OldRows) : d.amount \in Int /\ FitsAmount(d.amount)
    /\ \A q \in Quotes \cup ToSet(OldRates) : q.rate \in Nat \ {0} /\ FitsRate(q.rate)
    /\ \A m \in Moves :
         /\ m.form.mode \in Modes
         /\ {m.form.outgoing, m.form.incoming, m.form.rate, m.form.fee}
               \subseteq -SignedMax..SignedMax

VARIABLES rows,        \* transactions, by id
          rates,       \* exchange_rates, by id
          categories,  \* the parent of each category, None for a root
          report       \* the running report

reportVars == <<rows, rates, categories, report>>

Ids == 1..Len(rows)

(* Requests that wrote something; a transfer is known by its first row.    *)
Written ==
    Cardinality({i \in Ids : rows[i].group \in {None, i}}) + Len(rates)
        + Cardinality(DOMAIN categories)
Room == Written < MaxWrites

Posted(d, group) ==
    [type |-> d.type, account |-> d.account, category |-> d.category,
     amount |-> d.amount, time |-> d.time, group |-> group, live |-> TRUE]

Currency(id) == CurrencyOf[rows[id].account]

(* The order of transaction_time and id, in which pages are cut.           *)
Precedes(i, j) ==
    rows[i].time < rows[j].time \/ (rows[i].time = rows[j].time /\ i < j)

Within(from, to) == {i \in Ids : rows[i].live /\ rows[i].time >= from /\ rows[i].time < to}

(* The ids in an order: each stands behind all that are before it.         *)
Listed(ids, Before(_, _)) ==
    [k \in 1..Cardinality(ids) |->
        CHOOSE i \in ids : Cardinality({j \in ids : Before(j, i)}) = k - 1]

Ascending(ids) == Listed(ids, Precedes)

MonthStart(m) == m * MonthLength

-----------------------------------------------------------------------------
(* The other requests.  The report remembers, for the properties only,     *)
(* which rows were there from its beginning and still are, and which were  *)
(* there at some time.                                                     *)

Witnessed(removed, added) ==
    [report EXCEPT !.steady = @ \ removed, !.ever = @ \cup added]

KnownCategory(c) == c = None \/ c \in DOMAIN categories

Post ==
    \E d \in Drafts :
        /\ KnownCategory(d.category) /\ Len(rows) < MaxRows /\ Room
        /\ rows' = Append(rows, Posted(d, None))
        /\ report' = Witnessed({}, {Len(rows) + 1})
        /\ UNCHANGED <<rates, categories>>

(* A transfer commits its legs and its fee together.                       *)
Move ==
    \E m \in Moves :
        LET saved == Saved(m.form)
            leg(r) == Posted([type |-> r.type, account |-> r.account, category |-> None,
                              amount |-> Stored(r.amount), time |-> m.time], Len(rows) + 1)
            legs == [k \in DOMAIN saved.rows |-> leg(saved.rows[k])]
        IN  /\ Room /\ Accepted(m.form) /\ Len(rows) + Len(legs) <= MaxRows
            /\ rows' = rows \o legs
            /\ report' = Witnessed({}, DOMAIN (rows \o legs) \ Ids)
            /\ UNCHANGED <<rates, categories>>

MemberIds(id) ==
    IF rows[id].group = None THEN {id} ELSE {i \in Ids : rows[i].group = rows[id].group}

Removed(ids) == [i \in Ids |-> IF i \in ids THEN [rows[i] EXCEPT !.live = FALSE] ELSE rows[i]]

Delete ==
    \E i \in Ids :
        /\ rows[i].live
        /\ rows' = Removed(MemberIds(i))
        /\ report' = Witnessed(MemberIds(i), {})
        /\ UNCHANGED <<rates, categories>>

(* A correction removes a row and inserts its replacement in one           *)
(* transaction; the replacement may have another time.                     *)
Correct ==
    \E i \in Ids, d \in Drafts :
        /\ rows[i].live /\ rows[i].group = None /\ d.account = rows[i].account
        /\ KnownCategory(d.category) /\ Len(rows) < MaxRows /\ Room
        /\ rows' = Append(Removed({i}), Posted(d, None))
        /\ report' = Witnessed({i}, {Len(rows) + 1})
        /\ UNCHANGED <<rates, categories>>

CreateCategory ==
    \E c \in Categories \ DOMAIN categories, p \in DOMAIN categories \cup {None} :
        /\ Room
        /\ categories' = [x \in DOMAIN categories \cup {c} |->
                             IF x = c THEN p ELSE categories[x]]
        /\ UNCHANGED <<rows, rates, report>>

Quote ==
    \E q \in Quotes :
        /\ Len(rates) < MaxRates /\ Room
        /\ rates' = Append(rates, q)
        /\ UNCHANGED <<rows, categories, report>>

-----------------------------------------------------------------------------
(* Rates.  find_historical answers with the newest rate at or before a     *)
(* time, the larger id of two of one time.                                 *)

Newest(ids) ==
    IF ids = {} THEN None
    ELSE CHOOSE i \in ids :
            \A j \in ids : rates[j].time < rates[i].time
                            \/ (rates[j].time = rates[i].time /\ j <= i)

Quoted(pair, known) ==
    {i \in 1..known : <<rates[i].base, rates[i].target>> = pair}

Historical(pair, at, known) == Newest({i \in Quoted(pair, known) : rates[i].time <= at})

Older(i, j) == rates[i].time < rates[j].time

\* Mutation: the window starts without the rate that was in force before it.
HistoryUnanchored(pair, from, to) ==
    LET all == Quoted(pair, Len(rates))
        inside == {i \in all :
                      /\ rates[i].time > from /\ rates[i].time <= to
                      /\ i = Newest({j \in all : rates[j].time = rates[i].time})}
    IN  Listed(inside, Older)

(* find_history_for_pair: one rate at or before the window and one for     *)
(* each time within it, in the order of time.                              *)
History(pair, from, to) ==
    LET all == Quoted(pair, Len(rates))
        anchor == {i \in all : i = Newest({j \in all : rates[j].time <= from})}
        inside == {i \in all :
                      /\ rates[i].time > from /\ rates[i].time <= to
                      /\ i = Newest({j \in all : rates[j].time = rates[i].time})}
    IN  Listed(anchor \cup inside, Older)

(* HistoricalRateCache::find: the last of the loaded history that is not   *)
(* after the time asked for (upper_bound, then one back).                  *)
Find(pair, at) ==
    LET history == report.cache[pair].history
        upTo == {k \in DOMAIN history : rates[history[k]].time <= at}
    IN  IF upTo = {} THEN None ELSE history[Max(upTo)]

(* convert_to_base tries the direct rate, the reverse one, and for two     *)
(* currencies that are not the pivot the rates of the pivot to both.  The  *)
(* pairs it asks for depend on what the earlier ones gave.                 *)
Loaded(pair) == pair \in DOMAIN report.cache
Lacks(pair, at) == Loaded(pair) /\ Find(pair, at) = None

Consults(amount, currency, at) ==
    LET direct == <<currency, Base>>
        reverse == <<Base, currency>>
        crossed == currency # Pivot /\ Base # Pivot
    IN  IF currency = Base \/ amount = 0 THEN <<>>
        ELSE <<direct>>
             \o (IF Lacks(direct, at) THEN <<reverse>> ELSE <<>>)
             \o (IF crossed /\ Lacks(direct, at) /\ Lacks(reverse, at)
                 THEN <<<<Pivot, currency>>, <<Pivot, Base>>>> ELSE <<>>)

CrossRate(toCurrency, toBase) ==
    LET cross == Divide(rates[toBase].rate, rates[toCurrency].rate)
    IN  IF cross.ok /\ cross.value > 0 /\ FitsRate(cross.value) THEN cross ELSE Fail

Convert(amount, currency, at) ==
    LET direct == <<currency, Base>>
        reverse == <<Base, currency>>
        crossed == currency # Pivot /\ Base # Pivot
        found(pair) == Find(pair, at)
    IN  CASE currency = Base \/ amount = 0 -> Some(amount)
          [] OTHER ->
             IF found(direct) # None THEN Multiply(amount, rates[found(direct)].rate)
             ELSE IF found(reverse) # None THEN Divide(amount, rates[found(reverse)].rate)
             ELSE IF crossed /\ found(<<Pivot, currency>>) # None
                             /\ found(<<Pivot, Base>>) # None
             THEN LET cross == CrossRate(found(<<Pivot, currency>>), found(<<Pivot, Base>>))
                  IN  IF cross.ok THEN Multiply(amount, cross.value) ELSE Fail
             ELSE Fail

-----------------------------------------------------------------------------
(* The report.  An export and an analysis read the rows in pages, newest   *)
(* first; a dashboard and a trend read them in one statement, oldest       *)
(* first.                                                                  *)

Quiet == [kind |-> None, step |-> "idle", first |-> 0, last |-> 0, from |-> 0, to |-> 0, file |-> <<>>,
          points |-> <<>>, tree |-> <<>>, cache |-> <<>>, lines |-> <<>>, values |-> <<>>,
          dimension |-> None, steady |-> {}, ever |-> {}]

ReportInit ==
    /\ rows = OldRows /\ rates = OldRates /\ categories = OldTree
    /\ report = Quiet

Least(x, y) == IF x < y THEN x ELSE y
Most(x, y) == IF x > y THEN x ELSE y

(* The months of a report and the range of rows it asks for.  An analysis  *)
(* ends at the valuation and refuses a month of the future; a dashboard    *)
(* shows the month of today.                                               *)
Today == Now \div MonthLength
Asked(kind, first, last) ==
    [from |-> MonthStart(first),
     to |-> IF kind = "analysis" THEN Least(MonthStart(last + 1), Now) ELSE MonthStart(last + 1)]

Paged(kind) == kind \in {"export", "analysis"}

Start(kind, first, last) ==
    LET range == Asked(kind, first, last)
    IN  /\ report.step = "idle" /\ first <= last
        /\ kind = "analysis" => MonthStart(last) <= Now
        /\ kind = "dashboard" => first = Today /\ last = Today
        /\ report' = [Quiet EXCEPT !.kind = kind, !.step = "rows",
                                   !.first = first, !.last = last,
                                   !.from = range.from, !.to = range.to,
                                   !.steady = Within(range.from, range.to),
                                   !.ever = Within(range.from, range.to)]
        /\ UNCHANGED <<rows, rates, categories>>

(* The step that follows the rows: only the analysis reads the categories  *)
(* before it converts.                                                     *)
AfterRows(kind) ==
    CASE kind = "export" -> "done" [] kind = "analysis" -> "categories"
      [] OTHER -> "values"

\* Mutation: pages are cut by the time alone.
BelowByTime ==
    Within(report.from, report.to) \cap
    {i \in Ids : report.file = <<>> \/ rows[i].time < rows[Last(report.file)].time}

(* find_page: the rows below the cursor, and whether there are more.       *)
Below ==
    Within(report.from, report.to) \cap
    {i \in Ids : report.file = <<>> \/ Precedes(i, Last(report.file))}

ReadPage ==
    LET descending == Reverse(Ascending(Below))
        page == SubSeq(descending, 1, Least(PageSize, Len(descending)))
        more == Len(descending) > PageSize
        total == Len(report.file) + Len(page)
    IN  /\ report.step = "rows" /\ Paged(report.kind)
        /\ report' =
             IF total > RowLimit \/ (total = RowLimit /\ more)
             THEN [report EXCEPT !.step = "refused"]
             ELSE [report EXCEPT !.file = @ \o page,
                                 !.step = IF more THEN "rows" ELSE AfterRows(report.kind)]
        /\ UNCHANGED <<rows, rates, categories>>

ReadRange ==
    /\ report.step = "rows" /\ ~Paged(report.kind)
    /\ report' = [report EXCEPT !.file = Ascending(Within(report.from, report.to)),
                                !.step = "values"]
    /\ UNCHANGED <<rows, rates, categories>>

\* Mutation: the categories are those of before the rows were read.
ReadCategoriesFirst ==
    /\ report.step = "categories"
    /\ report' = [report EXCEPT !.tree = OldTree,
                                !.step = IF report.kind = "analysis" THEN "values" ELSE "sums"]
    /\ UNCHANGED <<rows, rates, categories>>

ReadCategories ==
    /\ report.step = "categories"
    /\ report' = [report EXCEPT !.tree = categories,
                                !.step = IF report.kind = "analysis" THEN "values" ELSE "sums"]
    /\ UNCHANGED <<rows, rates, categories>>

(* Exact sums, of numbers in a row and of the values of a function.        *)
SumSeq(numbers) ==
    LET sum[k \in 0..Len(numbers)] == IF k = 0 THEN 0 ELSE sum[k - 1] + numbers[k]
    IN  sum[Len(numbers)]

SumOf(function) ==
    LET order == SetToSeq(DOMAIN function)
    IN  SumSeq([k \in 1..Cardinality(DOMAIN function) |-> function[order[k]]])

(* Balances: those of an account now (balance_of), or of all accounts at   *)
(* the end of a month (balances_at), which PostgreSQL sums exactly.        *)
BalanceAt(account, at) ==
    LET counted == {i \in Ids : rows[i].live /\ rows[i].account = account /\ rows[i].time <= at}
    IN  SumOf([i \in counted |-> rows[i].amount])

Forever == MonthStart(Now + 2)

ValuedAt(k) ==
    LET end == Least(MonthStart(report.first + k), Now)
    IN  IF end = Now THEN Now ELSE end - 1

AccountOrder == SetToSeq(Accounts)

(* Values of balances in the report: each account at each month's end, or  *)
(* each account now.                                                       *)
Points(kind) ==
    CASE kind = "analysis" -> (report.last - report.first + 1) * Cardinality(Accounts)
      [] kind = "dashboard" -> Cardinality(Accounts)
      [] OTHER -> 0

(* What there is to convert, in order: the balances read so far, at their  *)
(* times, and after the last balance the rows that are no transfers, each  *)
(* at its own time.                                                        *)
Countable == {i \in ToSet(report.file) : rows[i].type # "transfer"}

Due == DOMAIN report.points
       \cup {Len(report.points) + k : k \in {k \in DOMAIN report.file :
                 Len(report.points) = Points(report.kind) /\ report.file[k] \in Countable}}

Conversion(k) ==
    IF k <= Len(report.points)
    THEN LET p == report.points[k]
         IN  [amount |-> p.amount, currency |-> CurrencyOf[p.account], at |-> p.at]
    ELSE LET i == report.file[k - Len(report.points)]
         IN  [amount |-> rows[i].amount, currency |-> Currency(i), at |-> rows[i].time]

Asking(k) == Consults(Conversion(k).amount, Conversion(k).currency, Conversion(k).at)
Wanting(k) == {n \in DOMAIN Asking(k) : ~Loaded(Asking(k)[n])}
Wanted == {k \in Due : Wanting(k) # {}}

Converted(k) == LET asked == Conversion(k)
                IN  Convert(asked.amount, asked.currency, asked.at)

(* A balance that its column cannot hold fails the report, and so does a   *)
(* conversion without a rate of its time.                                  *)
Unconvertible ==
    \/ \E k \in DOMAIN report.points : ~FitsAmount(report.points[k].amount)
    \/ \E k \in Due \ Wanted : ~Converted(k).ok

Converting == report.step = "values" /\ ~Unconvertible

ReadBalance ==
    LET read == Len(report.points)
        month == read \div Cardinality(Accounts) + 1
        balance(n, until, at) == [account |-> AccountOrder[n], at |-> at,
                                  amount |-> BalanceAt(AccountOrder[n], until)]
        next == IF report.kind = "analysis"
                THEN [n \in 1..Cardinality(Accounts) |->
                         balance(n, ValuedAt(month), ValuedAt(month))]
                ELSE <<balance(read + 1, Forever, Now)>>
    IN  /\ read < Points(report.kind) /\ Converting /\ Wanted = {}
        /\ report' = [report EXCEPT !.points = @ \o next]
        /\ UNCHANGED <<rows, rates, categories>>

(* The window of rates: the months and the valuation of an analysis, the   *)
(* times of the rows otherwise, and now for a dashboard.                   *)
RateWindow ==
    LET times == {rows[i].time : i \in ToSet(report.file)}
                 \cup (IF report.kind = "dashboard" THEN {Now} ELSE {})
    IN  IF report.kind = "analysis"
        THEN [from |-> report.from, to |-> Most(Now, MonthStart(report.last + 1))]
        ELSE [from |-> Min(times), to |-> Max(times)]

(* The history of a pair is loaded when a conversion first asks for it.    *)
LoadHistory ==
    LET first == Min(Wanted)
        pair == Asking(first)[Min(Wanting(first))]
        loaded == [known |-> Len(rates),
                   history |-> History(pair, RateWindow.from, RateWindow.to)]
    IN  /\ Converting /\ Wanted # {}
        /\ report' = [report EXCEPT !.cache =
                [p \in DOMAIN @ \cup {pair} |-> IF p = pair THEN loaded ELSE @[p]]]
        /\ UNCHANGED <<rows, rates, categories>>

(* What was converted: AccountValue and ConvertedTransaction.  A transfer  *)
(* is not converted, and counts for nothing.                               *)
FinishValues ==
    LET read == Len(report.points)
        values == [k \in DOMAIN report.points |->
                      [type |-> TypeOf[report.points[k].account],
                       amount |-> Converted(k).value]]
        line(k, i) == [type |-> rows[i].type, account |-> rows[i].account,
                       category |-> rows[i].category, time |-> rows[i].time,
                       amount |-> IF i \in Countable THEN Converted(read + k).value ELSE 0]
    IN  /\ read = Points(report.kind) /\ Converting /\ Wanted = {}
        /\ report' =
             [report EXCEPT !.values = values,
                            !.lines = [k \in DOMAIN report.file |-> line(k, report.file[k])],
                            !.step = IF report.kind = "dashboard" THEN "categories" ELSE "sums"]
        /\ UNCHANGED <<rows, rates, categories>>

-----------------------------------------------------------------------------
(* The figures.  A sum is a result: it fails when a term has no room, and  *)
(* then the report.  What a sum leaves out counts for nothing.             *)

Plus(sum, number) == IF sum.ok THEN Add(sum.value, number) ELSE Fail

Total(numbers) ==
    LET total[k \in 0..Len(numbers)] ==
            IF k = 0 THEN Some(0) ELSE Plus(total[k - 1], numbers[k])
    IN  total[Len(numbers)]

Sizes(ids) ==
    [k \in DOMAIN report.lines |-> IF k \in ids THEN Magnitude(report.lines[k].amount) ELSE 0]
Amounts(ids) ==
    [k \in DOMAIN report.values |-> IF k \in ids THEN report.values[k].amount ELSE 0]

(* add_cash_flow: which lines are income, and which expense.               *)
Counted == {k \in DOMAIN report.lines : report.lines[k].type # "transfer"}
Incomes ==
    {k \in Counted :
        \/ report.lines[k].type = "income"
        \/ report.lines[k].type = "adjustment" /\ report.lines[k].amount >= 0}
Expenses == Counted \ Incomes

Flow(ids) == [income |-> Total(Sizes(ids \cap Incomes)), expense |-> Total(Sizes(ids \cap Expenses))]
HasRoom(flow) == flow.income.ok /\ flow.expense.ok

(* aggregate_cash_flow.                                                    *)
CashFlow == Flow(Counted)

\* Mutation: a month ends with the beginning of its last day.
EndOfShort(bucket) == MonthStart(report.first + bucket) - 1

(* cash_flow_trend: one pass over the lines and the months, both in the    *)
(* order of time; a line before the month that the pass is at, or after    *)
(* the last one, is left out.                                              *)
EndOf(bucket) == MonthStart(report.first + bucket)
Months == report.last - report.first + 1

Trend ==
    LET left(k, bucket) == {m \in bucket..Months : report.lines[k].time < EndOf(m)}
        bucket[k \in 0..Len(report.lines)] ==
            IF k = 0 THEN 1
            ELSE IF k \notin Counted THEN bucket[k - 1]
            ELSE IF left(k, bucket[k - 1]) = {} THEN Months + 1
            ELSE Min(left(k, bucket[k - 1]))
    IN  [m \in 1..Months |->
            Flow({k \in Counted : /\ bucket[k] = m
                                  /\ report.lines[k].time >= MonthStart(report.first + m - 1)})]

(* The root of a category in the tree that was read; None when the row has *)
(* no category there.                                                      *)
RootIn(tree, category) ==
    LET root[c \in DOMAIN tree] == IF tree[c] = None THEN c ELSE root[tree[c]]
    IN  IF category \in DOMAIN tree THEN root[category] ELSE None

Slice(dimension, k) ==
    IF dimension = "account" THEN report.lines[k].account
    ELSE RootIn(report.tree, report.lines[k].category)

Breakdown(dimension) ==
    [key \in {Slice(dimension, k) : k \in Counted} |->
        Flow({k \in Counted : Slice(dimension, k) = key})]

(* top_expense_categories.                                                 *)
TopExpenses ==
    [key \in {Slice("category", k) : k \in Expenses} |->
        Total(Sizes({k \in Expenses : Slice("category", k) = key}))]

(* aggregate_net_worth and asset_distribution.                             *)
NetWorth(ids) ==
    LET assets == Total(Amounts({k \in ids : report.values[k].amount >= 0}))
        liabilities == Total(Amounts({k \in ids : report.values[k].amount < 0}))
    IN  IF assets.ok /\ liabilities.ok THEN Add(assets.value, liabilities.value) ELSE Fail

Distribution ==
    [t \in {report.values[k].type : k \in DOMAIN report.values} |->
        Total(Amounts({k \in DOMAIN report.values : report.values[k].type = t}))]

(* An analysis values each month apart.                                    *)
ValuesOf(month) ==
    {k \in DOMAIN report.values : (k - 1) \div Cardinality(Accounts) + 1 = month}

Summable(dimension) ==
    CASE report.kind = "trend" -> \A m \in DOMAIN Trend : HasRoom(Trend[m])
      [] report.kind = "analysis" ->
            /\ \A m \in 1..Months : NetWorth(ValuesOf(m)).ok
            /\ \A key \in DOMAIN Breakdown(dimension) : HasRoom(Breakdown(dimension)[key])
      [] OTHER ->
            /\ NetWorth(DOMAIN report.values).ok /\ HasRoom(CashFlow)
            /\ \A t \in DOMAIN Distribution : Distribution[t].ok
            /\ \A key \in DOMAIN TopExpenses : TopExpenses[key].ok

(* The sums are drawn when all is converted; an analysis breaks down by    *)
(* the dimension that was asked for.                                       *)
Sum ==
    \E dimension \in IF report.kind = "analysis" THEN {"account", "category"} ELSE {None} :
        /\ report.step = "sums"
        /\ report' = [report EXCEPT !.dimension = dimension,
                                    !.step = IF Summable(dimension) THEN "done" ELSE "refused"]
        /\ UNCHANGED <<rows, rates, categories>>

GiveUp ==
    /\ report.step = "values" /\ Unconvertible
    /\ report' = [report EXCEPT !.step = "refused"]
    /\ UNCHANGED <<rows, rates, categories>>

(* The answer is sent, and nothing of the report is kept.                  *)
Answer ==
    /\ report.step \in {"done", "refused"}
    /\ report' = Quiet
    /\ UNCHANGED <<rows, rates, categories>>

Write == Post \/ Move \/ Correct \/ Delete \/ CreateCategory \/ Quote

Read ==
    \/ \E kind \in {"export", "analysis", "dashboard", "trend"},
          first, last \in 0..Today : Start(kind, first, last)
    \/ ReadPage \/ ReadRange \/ ReadCategories \/ ReadBalance \/ LoadHistory \/ FinishValues
    \/ Sum \/ GiveUp \/ Answer

ReportNext == Write \/ Read

ReportSpec == ReportInit /\ [][ReportNext]_reportVars

-----------------------------------------------------------------------------
Strictly(file) == \A k \in 2..Len(file) : Precedes(file[k], file[k - 1])

(* However other requests change the ledger between its pages, an export   *)
(* or an analysis lists no row twice and out of order, none that was not   *)
(* there while it ran, and every row that was there all along.             *)
PagesSound ==
    /\ Paged(report.kind) => Strictly(report.file)
    /\ ToSet(report.file) \subseteq report.ever
    /\ report.step \notin {"idle", "rows", "refused"} =>
         {i \in report.steady : rows[i].time >= report.from /\ rows[i].time < report.to}
            \subseteq ToSet(report.file)

(* Property: a figure of the past is converted with the rate that was in   *)
(* force at its time: the window of rates loaded once per pair answers     *)
(* every time of the report as the repository would, anchor and ties       *)
(* included, and never with a later rate (HistoricalRateCache).            *)
RatesInForce ==
    \A pair \in DOMAIN report.cache :
        \A k \in Due :
            pair \in ToSet(Asking(k)) =>
                Find(pair, Conversion(k).at)
                    = Historical(pair, Conversion(k).at, report.cache[pair].known)

(* No row with a category is left uncategorized, although rows and         *)
(* categories are read apart, and others file rows under categories they   *)
(* have just created.                                                      *)
RowsCategorized ==
    report.step = "done" /\ report.kind \in {"analysis", "dashboard"} =>
        \A i \in Countable :
            rows[i].category # None => RootIn(report.tree, rows[i].category) # None

(* Property: a report lists the rows there are, each once, in order, and   *)
(* under its category, whatever happens between its statements             *)
(* (load_report_rows over find_page, analysis, top_expense_categories).    *)
RowsSound == PagesSound /\ RowsCategorized

(* Property: the parts of a report that could be drawn up add up, in exact *)
(* arithmetic, to all that was converted: the months of a trend and the    *)
(* slices of a breakdown to the cash flow, the categories to its expense,  *)
(* and the types of accounts to the net worth; no line is left out or      *)
(* counted twice, and no sum has wrapped (cash_flow_trend, analysis,       *)
(* top_expense_categories, asset_distribution).                            *)
PartsAgree ==
    LET income == SumSeq(Sizes(Incomes))
        expense == SumSeq(Sizes(Expenses))
        AddUp(flows) ==
            /\ SumOf([m \in DOMAIN flows |-> flows[m].income.value]) = income
            /\ SumOf([m \in DOMAIN flows |-> flows[m].expense.value]) = expense
        Sums(totals) == SumOf([key \in DOMAIN totals |-> totals[key].value])
    IN  report.step = "done" =>
            /\ report.kind = "trend" => LET months == Trend IN AddUp(months)
            /\ report.kind = "analysis" =>
                 LET slices == Breakdown(report.dimension) IN AddUp(slices)
            /\ report.kind = "dashboard" =>
                 /\ CashFlow.income.value = income /\ CashFlow.expense.value = expense
                 /\ Sums(TopExpenses) = expense
                 /\ NetWorth(DOMAIN report.values).value
                       = SumSeq(Amounts(DOMAIN report.values))
                 /\ Sums(Distribution) = NetWorth(DOMAIN report.values).value

=============================================================================
