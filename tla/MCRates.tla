------------------------------ MODULE MCRates ------------------------------
(* Constants for TLC. *)
EXTENDS Rates

CONSTANTS h1, h2, t1, t2, t3, eur, jpy

TwoHosts == {h1, h2}
ThreeTokens == {t1, t2, t3}
TwoCurrencies == {eur, jpy}

============================================================================
