------------------------------ MODULE Figures ------------------------------
(***************************************************************************)
(* The arithmetic of amounts, rates and transfers, tried on one question   *)
(* at a time: a pair of numbers, a text, or a transfer command.            *)
(***************************************************************************)
EXTENDS Transfers

CONSTANTS Pairs,      \* pairs of numbers to compute with
          Extremes,   \* numbers at the edge of the signed word, to add
          Texts,      \* texts to read
          Commands    \* transfer commands

ASSUME QuestionAssumption ==
    /\ \A p \in Pairs : \A k \in {1, 2} : p[k] \in -SignedMax..SignedMax
    /\ Extremes \subseteq -(SignedMax + 1)..SignedMax
    /\ Texts \subseteq Numeral
    /\ \A f \in Commands :
         /\ f.mode \in Modes
         /\ {f.outgoing, f.incoming, f.rate, f.fee} \subseteq -SignedMax..SignedMax

VARIABLE probe

Idle == [kind |-> "idle"]

ProbeInit == probe = Idle

AskPair == \E p \in Pairs : probe' = [kind |-> "pair", a |-> p[1], b |-> p[2]]
AskSum == \E x \in Extremes, y \in Extremes : probe' = [kind |-> "sum", a |-> x, b |-> y]
AskText == \E t \in Texts : probe' = [kind |-> "text", text |-> t]
AskTransfer == \E f \in Commands : probe' = [kind |-> "transfer", form |-> f]

(* Each question is asked of the idle program: questions do not build on   *)
(* each other.                                                             *)
AskOne == probe = Idle /\ (AskPair \/ AskSum \/ AskText \/ AskTransfer)
Answered == probe # Idle /\ probe' = Idle

ProbeNext == AskOne \/ Answered
ProbeSpec == ProbeInit /\ [][ProbeNext]_probe

-----------------------------------------------------------------------------
IfInWord(n) == IF n \in -(SignedMax + 1)..SignedMax THEN Some(n) ELSE Fail

(* The product, the quotient and the rounding to a column are those of     *)
(* exact arithmetic rounded half to even; they fail only where the word    *)
(* or the headroom is too small, and then never by a wrong number.         *)
PairSound(a, b) ==
    LET x == Magnitude(a)
        y == Magnitude(b)
    IN  /\ RightlyRounded(Multiply(a, b), a * b, One,
                          x * y >= Word \/ x * y > Ceiling * One - One)
        /\ b # 0 =>
             RightlyRounded(Divide(a, b), a * One, b,
                            x * One >= Word \/ x * One > Ceiling * y - y)
        /\ b = 0 => ~Divide(a, b).ok
        /\ \A places \in 0..Scale :
             LET unit == TenTo(Scale - places)
                 r == RoundTo(a, places)
             IN  IF r.ok THEN r.value % unit = 0 /\ IsNearest(r.value \div unit, a, unit)
                 ELSE x + unit > SignedMax
        /\ Subtract(a, b) = IfInWord(a - b)

SumSound(a, b) == Add(a, b) = IfInWord(a + b)

(* A text is read as the nearest number there is; a column takes it only   *)
(* when it can store exactly what was typed; and what is printed reads     *)
(* back as it was.                                                         *)
TextSound(text) ==
    LET number == Parse(text)
        column == ParseColumn(text, AmountDigits, AmountPlaces)
        typed == NumberOf(text)
        unit == TenTo(Len(text.fraction))
    IN  /\ RightlyRounded(number, typed * One, unit,
                          \/ text.whole = <<>> /\ text.fraction = <<>>
                          \/ Magnitude(typed) \div unit >= Ceiling \div One)
        /\ column.ok => column.value * unit = typed * One
        /\ ~column.ok /\ number.ok =>
             ~(\E units \in -(TenTo(AmountDigits + AmountPlaces) - 1)
                           ..TenTo(AmountDigits + AmountPlaces) - 1 :
                  units * unit = typed * TenTo(AmountPlaces))
        /\ number.ok => Parse(ToText(number.value)) = number

(* Property: an amount or a rate is computed, rounded, read and printed    *)
(* exactly as decimal arithmetic says, once and half to even, or the       *)
(* operation fails; no wrapped word gets through, a column refuses what it *)
(* cannot keep as it was typed, and what is printed reads back (Decimal).  *)
NumbersSound ==
    /\ probe.kind = "pair" => PairSound(probe.a, probe.b)
    /\ probe.kind = "sum" => SumSound(probe.a, probe.b)
    /\ probe.kind = "text" => TextSound(probe.text)

(* The validation does not refuse for its tolerance what the builder       *)
(* itself derived from an acceptable command: the tolerance covers every   *)
(* rounding on the way there and back.                                     *)
ToleranceFits(f) == Acceptable(f) /\ Rechecked(f) => Validated(f)

(* What the client gave is what is stored, both legs move money the right  *)
(* way, and a transfer within one currency neither makes nor loses any.    *)
Conserves(f) ==
    LET saved == Saved(f)
        fee(account) == IF FeeAccount(f) = account THEN f.fee ELSE 0
    IN  /\ f.outgoing # 0 => Effect(saved, f.source) = -f.outgoing - fee(f.source)
        /\ f.incoming # 0 => Effect(saved, f.target) = f.incoming - fee(f.target)
        /\ Effect(saved, f.source) < 0
        /\ SameCurrency(f) =>
             Effect(saved, f.source) + Effect(saved, f.target)
                = -fee(f.source) - fee(f.target)

(* Property: no transfer is refused for what its builder rounded; one that *)
(* is accepted keeps the client's own figures, its three parts agree, and  *)
(* the answer is the same whether it comes from the aggregate, from the    *)
(* stored rows or from the response kept for a retry                       *)
(* (TransferDomainService, save_transfer, to_transfer_dto).                *)
TransfersSound ==
    probe.kind = "transfer" =>
        LET f == probe.form
        IN  /\ ToleranceFits(f)
            /\ Accepted(f) =>
                 /\ Conserves(f)
                 /\ ReadBack(Saved(f)) = FirstAnswer(f)
                 /\ Decode(Encode(FirstAnswer(f))) = FirstAnswer(f)

=============================================================================
