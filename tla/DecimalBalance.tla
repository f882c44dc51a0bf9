--------------------------- MODULE DecimalBalance ---------------------------
(***************************************************************************)
(* wallet.ScaleBalance: a raw balance divided by 10^decimals, written out   *)
(* exactly.  The text of a number is abstracted to its whole part and the   *)
(* digits after the point; a text that is no number, or a negative one, has *)
(* no scaled balance and is refused before it gets here.                    *)
(***************************************************************************)
EXTENDS Integers, Sequences, FiniteSetsExt

Digit == 0..9

Scaled == [whole : Nat, digits : Seq(Digit)]

\* 10^n
Power[n \in Nat] == IF n = 0 THEN 1 ELSE 10 * Power[n - 1]

\* The remainder padded with zeros to one digit for each decimal.
Padded(r, decimals) == [i \in 1..decimals |-> (r \div Power[decimals - i]) % 10]

\* Up to the last digit that is not zero.
TrimRight(s) == SubSeq(s, 1, Max({0} \cup {i \in DOMAIN s : s[i] # 0}))

ScaleBalance(raw, decimals) ==
  IF decimals <= 0 THEN [whole |-> raw, digits |-> <<>>]
  ELSE [whole |-> raw \div Power[decimals],
        digits |-> TrimRight(Padded(raw % Power[decimals], decimals))]

\* The number the first i digits are read as.
Reading(scaled) ==
  LET value[i \in 0..Len(scaled.digits)] ==
        IF i = 0 THEN scaled.whole ELSE 10 * value[i - 1] + scaled.digits[i]
  IN value

\* What a written balance is worth in units of 10^-decimals.
Worth(scaled, decimals) ==
  Reading(scaled)[Len(scaled.digits)] * Power[decimals - Len(scaled.digits)]

\* The one way to write raw / 10^decimals.
Writes(scaled, raw, decimals) ==
  /\ Len(scaled.digits) <= decimals
  /\ Worth(scaled, decimals) = raw
  /\ scaled.digits # <<>> => scaled.digits[Len(scaled.digits)] # 0
=============================================================================
