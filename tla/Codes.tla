------------------------------- MODULE Codes -------------------------------
(***************************************************************************)
(* Redeem codes (app/domain/codes.py): a code carries seven symbols of an  *)
(* alphabet of 32 and a control symbol, the weighted sum of the seven      *)
(* modulo 32.  A code is read off and typed in by a person; a control      *)
(* symbol that does not fit is refused without asking the database.        *)
(*                                                                         *)
(* A symbol is its index in the alphabet.  Case, hyphens and the prefix,   *)
(* which do not matter, are left out.                                      *)
(***************************************************************************)
EXTENDS Integers

CONSTANT Payloads    \* the payloads the source of randomness may yield

Radix == 32
Symbols == 0 .. Radix - 1
PayloadLength == 7
Positions == 1 .. PayloadLength + 1

\* A character that is not in the alphabet, such as I, O, 0 and 1.
Alien == Radix

ASSUME PayloadsAssumption == Payloads \subseteq [1 .. PayloadLength -> Symbols]

VARIABLES
    generated,   \* the code that was generated
    typed,    \* what the user typed
    answer    \* what became of it

codesVars == <<generated, typed, answer>>

Code == [Positions -> Symbols]
Typed == [Positions -> Symbols \union {Alien}]
NoCode == [i \in Positions |-> Alien]

CodesTypeOK ==
    /\ generated \in Code \union {NoCode}
    /\ typed \in Typed
    /\ answer \in {"none", "invalid_code", "looked_up"}

CodesInit ==
    /\ generated = NoCode
    /\ typed = NoCode
    /\ answer = "none"

---------------------------------------------------------------------------
\* Variant: weights in order, among which are even ones.
WeightsInOrder == <<1, 2, 3, 4, 5, 6, 7>>

\* Odd, thus prime to 32.
Weights == <<1, 3, 5, 7, 9, 11, 13>>

Weighted(code, i) == Weights[i] * code[i]

ChecksumChar(code) ==
    (Weighted(code, 1) + Weighted(code, 2) + Weighted(code, 3) + Weighted(code, 4)
        + Weighted(code, 5) + Weighted(code, 6) + Weighted(code, 7)) % Radix

\* normalize_code: a character outside the alphabet makes it no code at all.
Normalizable(code) == \A i \in Positions : code[i] # Alien

ChecksumOk(code) ==
    /\ Normalizable(code)
    /\ code[PayloadLength + 1] = ChecksumChar(code)

GenerateCode(payload) ==
    /\ generated = NoCode
    /\ generated' = [i \in Positions |-> IF i <= PayloadLength THEN payload[i]
                                      ELSE ChecksumChar(payload)]
    /\ typed' = generated'
    /\ UNCHANGED answer

---------------------------------------------------------------------------
(* The user: one symbol mistaken for another, or two neighbours swapped.   *)

Swapped(code, i) == [code EXCEPT ![i] = code[i + 1], ![i + 1] = code[i]]

Mistype(i, symbol) ==
    /\ generated # NoCode
    /\ typed = generated
    /\ answer = "none"
    /\ typed' = [typed EXCEPT ![i] = symbol]
    /\ UNCHANGED <<generated, answer>>

SwapNeighbours(i) ==
    /\ generated # NoCode
    /\ typed = generated
    /\ answer = "none"
    /\ typed' = Swapped(typed, i)
    /\ UNCHANGED <<generated, answer>>

Redeem ==
    /\ generated # NoCode
    /\ answer = "none"
    /\ answer' = IF ChecksumOk(typed) THEN "looked_up" ELSE "invalid_code"
    /\ UNCHANGED <<generated, typed>>

CodesNext ==
    \/ \E payload \in Payloads : GenerateCode(payload)
    \/ \E i \in Positions, symbol \in Symbols \union {Alien} : Mistype(i, symbol)
    \/ \E i \in 1 .. PayloadLength : SwapNeighbours(i)
    \/ Redeem

CodesSpec == CodesInit /\ [][CodesNext]_codesVars

---------------------------------------------------------------------------
(* Property.                                                               *)

Apart(a, b) == IF a < b THEN b - a ELSE a - b

\* What the header of codes.py says of the control symbol: one wrong symbol is
\* always noticed, also when it is the control symbol itself; two neighbours
\* swapped are, unless they are exactly 16 apart.  A code typed as it was issued
\* is never refused.
MistakesNoticed ==
    /\ answer = "invalid_code" => typed # generated
    /\ answer = "looked_up" /\ typed # generated =>
           \E i \in 1 .. PayloadLength :
               typed = Swapped(generated, i) /\ Apart(generated[i], generated[i + 1]) = 16
=============================================================================
