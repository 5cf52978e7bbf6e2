---------------------------- MODULE Identifiers ----------------------------
(***************************************************************************)
(* Algerian identifiers and card numbers: the key check of the structural  *)
(* detector (detectors/countries/algeria.py) and the generators of         *)
(* synthetic ones (substitution/synthetic.py).                             *)
(*                                                                         *)
(* Abstractions.  A number is the sequence of its digits.  A generator is  *)
(* given the digits that _digit_string_for takes from sha256: the hash can *)
(* be any digit string of that length.                                     *)
(***************************************************************************)
EXTENDS Lists, FiniteSetsExt, SequencesExt

NIN_DIGITS == 18
NIF_DIGITS == 15
RIB_DIGITS == 20
RIB_BODY == RIB_DIGITS - 2
CARD_BODY == 15

Digit == 0 .. 9
Zeros(n) == [i \in 1 .. n |-> 0]

\* int(digits) % m, digit by digit.
Mod(digits, m) == Loop(LAMBDA r, d : (10 * r + d) % m, 0, digits)

\* f"{n:02d}"
TwoDigits(n) == <<n \div 10, n % 10>>

\* Mutant: the remainder is taken modulo 90.
RibKey90(body) == 90 - Mod(body \o Zeros(2), 90)

\* 97 - (int(body + "00") % 97): from 1 to 97, never 0.
RibKey(body) == 97 - Mod(body \o Zeros(2), 97)

_rib_key_valid(rib) ==
  /\ Len(rib) = RIB_DIGITS
  /\ SubSeq(rib, RIB_BODY + 1, RIB_DIGITS) = TwoDigits(RibKey(SubSeq(rib, 1, RIB_BODY)))

-----------------------------------------------------------------------------
\* Mutant: the key of a body without remainder is 00.
RibForWrapped(body) ==
  LET key == (97 - Mod(body \o Zeros(2), 97)) % 97
  IN  body \o TwoDigits(key)

\* The generator computes the key by itself; it does not call the validator.
_rib_for(body) ==
  LET key == 97 - Mod(body \o Zeros(2), 97)
  IN  body \o TwoDigits(key)

Total(terms) == Loop(LAMBDA s, t : s + t, 0, terms)

\* The sum runs over the reversed digits, from the one next to the check digit,
\* which is doubled.
_luhn_for(base) ==
  LET value(i) == LET digit == base[Len(base) + 1 - i]
                      doubled == 2 * digit
                  IN  IF i % 2 = 0 THEN digit
                      ELSE IF doubled > 9 THEN doubled - 9 ELSE doubled
      s == Total([i \in 1 .. Len(base) |-> value(i)])
  IN  Append(base, (10 - (s % 10)) % 10)

-----------------------------------------------------------------------------
\* The standard a card number is held to: with every second digit from the
\* right doubled and the digits of the products added up, a multiple of ten.
LuhnHolds(card) ==
  LET weighed(k) == IF (Len(card) - k) % 2 = 1 THEN 2 * card[k] ELSE card[k]
  IN  Total([k \in 1 .. Len(card) |-> (weighed(k) \div 10) + (weighed(k) % 10)]) % 10 = 0

\* What a typist gets wrong: one digit, or the order of two neighbours.
Mistyped(number) ==
  {[number EXCEPT ![p[1]] = p[2]] : p \in (DOMAIN number) \X Digit}
    \cup {[number EXCEPT ![k] = number[k + 1], ![k + 1] = number[k]] :
            k \in 1 .. Len(number) - 1}
=============================================================================
