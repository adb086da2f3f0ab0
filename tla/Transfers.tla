----------------------------- MODULE Transfers -----------------------------
(***************************************************************************)
(* What a transfer command becomes: the shape check and the construction   *)
(* of transfer_command_builder.h, the three builders and the validation of *)
(* transfer_domain_service.cpp, the signed rows of save_transfer, and the  *)
(* two ways back to the answer the client saw: the rows read again, and    *)
(* the response stored under the idempotency key.                          *)
(*                                                                         *)
(* A command gives 0 for an amount or a rate it leaves out.  Owner, times  *)
(* and description are the same for all parts and are left out.            *)
(***************************************************************************)
EXTENDS Decimals, SequencesExt

CONSTANTS Accounts,    \* the accounts a command may name
          CurrencyOf,  \* their currencies
          None

ASSUME AccountAssumption == DOMAIN CurrencyOf = Accounts /\ None \notin Accounts
ASSUME NoneAssumption == None \notin Numeral

Modes == {"OutgoingAndRate", "BothAmounts", "IncomingAndRate"}
FeeSources == {"SourceAccount", "TargetAccount", "ThirdParty"}

(* The smallest steps of an amount column and of a rate column.            *)
AmountUnit == TenTo(Scale - AmountPlaces)
RateUnit == 1

(* The largest amount and the largest rate of the columns are far from the *)
(* headroom of the word, one unit and one step of the other more included. *)
ASSUME ColumnAssumption ==
    /\ AmountUnit * (TenTo(RateDigits) + 1) * One <= Ceiling
    /\ (TenTo(AmountDigits) + 1) * One <= Ceiling

SameCurrency(f) == CurrencyOf[f.source] = CurrencyOf[f.target]

-----------------------------------------------------------------------------
(* validate_transfer_command_shape.                                        *)

ModeShape(f) ==
    CASE f.mode = "OutgoingAndRate" -> f.outgoing # 0 /\ f.rate # 0 /\ f.incoming = 0
      [] f.mode = "BothAmounts" -> f.outgoing # 0 /\ f.incoming # 0 /\ f.rate = 0
      [] f.mode = "IncomingAndRate" -> f.incoming # 0 /\ f.rate # 0 /\ f.outgoing = 0

FeeShape(f) ==
    CASE f.fee = 0 -> f.feeSource = None /\ f.feeAccount = None
      [] f.fee # 0 /\ f.feeSource = "ThirdParty" ->
            f.feeAccount \notin {None, f.source, f.target}
      [] OTHER -> f.feeSource # None /\ f.feeAccount = None

WellShaped(f) == f.source # f.target /\ ModeShape(f) /\ FeeShape(f)

(* The account a fee is taken from, resolved before the domain sees it.    *)
FeeAccount(f) ==
    IF f.fee = 0 THEN None
    ELSE CASE f.feeSource = "SourceAccount" -> f.source
           [] f.feeSource = "TargetAccount" -> f.target
           [] OTHER -> f.feeAccount

-----------------------------------------------------------------------------
(* The builders: each derives what the command left out.  An amount that   *)
(* is derived is rounded to the column before it is used.                  *)

ToColumn(number) == IF number.ok THEN RoundTo(number.value, AmountPlaces) ELSE Fail

Outgoing(f) ==
    IF f.mode = "IncomingAndRate" THEN ToColumn(Divide(f.incoming, f.rate))
    ELSE Some(f.outgoing)

Incoming(f) ==
    IF f.mode = "OutgoingAndRate" THEN ToColumn(Multiply(f.outgoing, f.rate))
    ELSE Some(f.incoming)

(* ExchangeRate::create refuses one currency and what is no positive rate  *)
(* of the column; two amounts in one currency have no rate at all.         *)
Rate(f) ==
    IF f.mode # "BothAmounts" THEN IF SameCurrency(f) THEN Fail ELSE Some(f.rate)
    ELSE IF SameCurrency(f) THEN Some(0)
    ELSE Divide(f.incoming, f.outgoing)

RateUsable(f) ==
    Rate(f).ok /\ (~SameCurrency(f) => Rate(f).value > 0 /\ FitsRate(Rate(f).value))

\* Mutation: the drift of the rounded amount is not scaled by the rate.
FlatTolerance(outgoing, rate) == AmountUnit

(* The tolerance of the validation grows with the rate and with the amount *)
(* that the rounding of the other was multiplied by.                       *)
Tolerance(outgoing, rate) ==
    Multiply(AmountUnit, rate + One).value + Multiply(RateUnit, outgoing + One).value

WithinTolerance(outgoing, incoming, rate) ==
    LET expected == Multiply(outgoing, rate)
    IN  /\ expected.ok
        /\ Magnitude(incoming - expected.value) <= Tolerance(outgoing, rate)

(* Everything but the tolerance that a builder or the validation demands.  *)
Acceptable(f) ==
    LET outgoing == Outgoing(f)
        incoming == Incoming(f)
    IN  /\ WellShaped(f)
        /\ outgoing.ok /\ incoming.ok
        /\ \A amount \in {outgoing.value, incoming.value} : amount > 0 /\ FitsAmount(amount)
        /\ RateUsable(f)
        /\ SameCurrency(f) => outgoing.value = incoming.value
        /\ f.fee # 0 => f.fee > 0 /\ FitsAmount(f.fee)

(* The validation multiplies again what the builder may have divided.      *)
Rechecked(f) == SameCurrency(f) \/ Multiply(Outgoing(f).value, Rate(f).value).ok

Validated(f) ==
    SameCurrency(f)
        \/ WithinTolerance(Outgoing(f).value, Incoming(f).value, Rate(f).value)

Accepted(f) == Acceptable(f) /\ Validated(f)

-----------------------------------------------------------------------------
(* save_transfer writes the legs and the fee with the signs of their       *)
(* effect, in columns that pad the fraction; the group row keeps the mode  *)
(* and the rate.                                                           *)

ModeNumber == [OutgoingAndRate |-> 1, BothAmounts |-> 2, IncomingAndRate |-> 3]

ColumnText(a, places) ==
    LET text == ToText(a)
    IN  [text EXCEPT !.fraction =
            [k \in 1..places |-> IF k <= Len(text.fraction) THEN text.fraction[k] ELSE 0]]

\* Mutation: rows are stored without the sign of their effect.
RowUnsigned(account, type, amount) ==
    [account |-> account, type |-> type, amount |-> ColumnText(Magnitude(amount), AmountPlaces)]

Row(account, type, amount) ==
    [account |-> account, type |-> type, amount |-> ColumnText(amount, AmountPlaces)]

Saved(f) ==
    [mode |-> ModeNumber[f.mode],
     rate |-> IF SameCurrency(f) THEN None ELSE ColumnText(Rate(f).value, Scale),
     rows |-> <<Row(f.source, "transfer", -Outgoing(f).value),
                Row(f.target, "transfer", Incoming(f).value)>>
              \o (IF f.fee = 0 THEN <<>>
                  ELSE <<Row(FeeAccount(f), "adjustment", -f.fee)>>)]

(* What the rows of an account add to its balance.                         *)
Stored(text) == ParseColumn(text, AmountDigits, AmountPlaces).value
Effect(saved, account) ==
    LET sum[k \in 0..Len(saved.rows)] ==
            IF k = 0 THEN 0
            ELSE sum[k - 1] + (IF saved.rows[k].account = account
                               THEN Stored(saved.rows[k].amount) ELSE 0)
    IN  sum[Len(saved.rows)]

-----------------------------------------------------------------------------
(* The answer: from the aggregate that was just built, from the rows it    *)
(* was stored as, and from the response kept for a retry.                  *)

InputMode(number) ==
    CASE number = 1 -> "OutgoingAndRate" [] number = 3 -> "IncomingAndRate"
      [] OTHER -> "BothAmounts"

InferFeeSource(account, source, target) ==
    CASE account = source -> "SourceAccount" [] account = target -> "TargetAccount"
      [] OTHER -> "ThirdParty"

Dto(mode, source, target, outgoing, incoming, rate, fee, feeAccount) ==
    [mode |-> mode, source |-> source, target |-> target,
     outgoing |-> ToText(outgoing), incoming |-> ToText(incoming),
     rate |-> IF rate = 0 THEN None ELSE ToText(rate),
     fee |-> IF fee = 0 THEN None ELSE ToText(fee),
     feeAccount |-> feeAccount,
     feeSource |-> IF fee = 0 THEN None ELSE InferFeeSource(feeAccount, source, target)]

FirstAnswer(f) ==
    Dto(InputMode(ModeNumber[f.mode]), f.source, f.target, Outgoing(f).value,
        Incoming(f).value, Rate(f).value, f.fee, FeeAccount(f))

(* to_transfer_dto of a snapshot tells the legs apart by their signs and   *)
(* takes the negative adjustment for the fee.                              *)
ReadBack(saved) ==
    LET legs == {r \in ToSet(saved.rows) : r.type = "transfer"}
        negative(r) == Stored(r.amount) < 0
        out == CHOOSE r \in legs : negative(r)
        in == CHOOSE r \in legs : ~negative(r)
        fees == {r \in ToSet(saved.rows) : r.type = "adjustment" /\ negative(r)}
        fee == IF fees = {} THEN None ELSE CHOOSE r \in fees : TRUE
        rate == IF saved.rate = None THEN 0
                ELSE ParseColumn(saved.rate, RateDigits, Scale).value
    IN  Dto(InputMode(saved.mode), out.account, in.account,
            -Stored(out.amount), Stored(in.amount), rate,
            IF fees = {} THEN 0 ELSE -Stored(fee.amount),
            IF fees = {} THEN None ELSE fee.account)

(* The stored response keeps the enumerations by their positions and an    *)
(* absent value as an empty text.                                          *)
ModeOrder == <<"OutgoingAndRate", "BothAmounts", "IncomingAndRate">>
FeeOrder == <<"SourceAccount", "TargetAccount", "ThirdParty">>
PositionIn(order, x) == (CHOOSE k \in 1..Len(order) : order[k] = x) - 1

OrEmpty(x) == IF x = None THEN <<>> ELSE <<x>>
OrNone(text) == IF text = <<>> THEN None ELSE text[1]

Encode(dto) ==
    [dto EXCEPT !.mode = PositionIn(ModeOrder, dto.mode),
                !.rate = OrEmpty(dto.rate),
                !.fee = OrEmpty(dto.fee),
                !.feeAccount = OrEmpty(dto.feeAccount),
                !.feeSource = IF dto.feeSource = None THEN <<>>
                              ELSE <<PositionIn(FeeOrder, dto.feeSource)>>]

Decode(values) ==
    [values EXCEPT !.mode = ModeOrder[values.mode + 1],
                   !.rate = OrNone(values.rate),
                   !.fee = OrNone(values.fee),
                   !.feeAccount = OrNone(values.feeAccount),
                   !.feeSource = IF values.feeSource = <<>> THEN None
                                 ELSE FeeOrder[values.feeSource[1] + 1]]

=============================================================================
