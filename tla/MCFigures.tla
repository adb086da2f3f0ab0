----------------------------- MODULE MCFigures -----------------------------
(* Questions of arithmetic and reports in one run, one kind at a time:     *)
(* questions are asked of the initial state of the reports.                *)
EXTENDS Figures, Reports

CONSTANTS a, b, c, food, bread

(* Numbers of two fraction digits in a word of 2^19, amounts of one digit  *)
(* and one place, rates of one digit and two places.                       *)
MCPairs ==
    LET Grid == {-990, -135, -3, 0, 1, 2, 5, 15, 33, 50, 149, 150, 250, 724, 725, 990,
                 1448, 30000}
    IN  Grid \X Grid
MCExtremes == {-SignedMax - 1, -SignedMax, -1, 0, 1, Ceiling, Ceiling + 1, SignedMax}
MCTexts ==
    LET Digits(n) == UNION {[1..k -> {0, 4, 5, 9}] : k \in 0..n}
    IN  [negative : BOOLEAN, whole : Digits(1) \cup {<<9, 9>>, <<1, 3, 1, 0>>, <<1, 3, 1, 1>>},
         fraction : Digits(4)]

Command(mode, source, target, outgoing, incoming, rate) ==
    [mode |-> mode, source |-> source, target |-> target, outgoing |-> outgoing,
     incoming |-> incoming, rate |-> rate, fee |-> 0, feeSource |-> None,
     feeAccount |-> None]
MCAmounts == {10, 20, 30, 40, 60, 70, 90, 100, 110, 130, 160, 170, 220, 270, 330, 340, 490,
            510, 570, 660, 750, 830, 970, 980, 990}
MCRates == {1, 2, 3, 7, 11, 33, 50, 67, 77, 100, 101, 149, 200, 333, 425, 718, 999}
MCCommands ==
    {Command("OutgoingAndRate", a, t, x, 0, r) : t \in {b, c}, x \in MCAmounts, r \in MCRates}
    \cup {Command("IncomingAndRate", a, t, 0, x, r) : t \in {b, c}, x \in MCAmounts, r \in MCRates}
    \cup {Command("BothAmounts", s, t, x, y, 0) :
            s \in {a}, t \in {a, b, c}, x \in MCAmounts, y \in MCAmounts}
    \cup {[Command(m, a, t, x, y, r) EXCEPT !.fee = u, !.feeSource = s, !.feeAccount = v] :
            m \in Modes, t \in {b, c}, x \in {0, 20}, y \in {0, 20}, r \in {0, 150},
            u \in {0, 1, 30, 1000}, s \in FeeSources \cup {None}, v \in Accounts \cup {None}}
MCCurrencies == [x \in {a, b, c} |-> x]
MCTypes == [x \in {a, b, c} |-> IF x = c THEN "credit" ELSE "cash"]

(* Months of two days, today the last day of the second one; base a, pivot *)
(* b.                                                                      *)
Draft(type, account, category, amount, time) ==
    [type |-> type, account |-> account, category |-> category, amount |-> amount,
     time |-> time]
MCDrafts == {Draft("expense", a, bread, -10, 3), Draft("adjustment", c, None, -900, 3)}
MCOldRows == <<Posted(Draft("expense", c, food, -900, 3), None),
               Posted(Draft("income", c, None, 20, 1), None)>>
MCMoves == {[form |-> [Command("OutgoingAndRate", a, c, 20, 0, 150)
                          EXCEPT !.fee = 10, !.feeSource = "SourceAccount"],
             time |-> 2]}
Quotation(base, target, rate, time) ==
    [base |-> base, target |-> target, rate |-> rate, time |-> time]
MCQuotes == {Quotation(b, c, 150, 1), Quotation(c, a, 250, 3)}
MCOldRates == <<Quotation(b, c, 200, 0), Quotation(b, a, 700, 0), Quotation(b, c, 100, 1),
                Quotation(a, c, 1, 3)>>
MCOldTree == [x \in {food} |-> None]

\* Two requests write, one of them before the report begins or both while it runs.
Scene == report.step = "idle" => Written < MaxWrites

AllInit == ProbeInit /\ ReportInit
AllNext == \/ ReportInit /\ ProbeNext /\ UNCHANGED reportVars
           \/ probe = Idle /\ ReportNext /\ UNCHANGED probe
AllSpec == AllInit /\ [][AllNext]_<<probe, reportVars>>
=============================================================================
