---------------------------- MODULE ScalarFunctions ----------------------------
(***************************************************************************)
(* The scalar functions that the industry packs add to SQL: check digits   *)
(* and the parts of account and phone numbers.  A character is a number: 0 *)
(* to 9 are the digits, 10 to 35 the letters, Space separates.  One number *)
(* is typed digit by digit and every function is applied to what is there. *)
(***************************************************************************)
EXTENDS Integers, Sequences, SequencesExt, FiniteSetsExt

CONSTANTS LeadDigits,   \* the first digits of a number, ...
          Leads,        \* ... how many of them, ...
          FillDigit,    \* ... and the digit that follows them
          MaxDigits     \* bound: digits of a number; an IBAN has 20 after its check digits

ASSUME NumberAssumption ==
    /\ LeadDigits \subseteq 0 .. 9 /\ FillDigit \in 0 .. 9
    /\ Leads \in Nat /\ MaxDigits \in Nat

VARIABLE number         \* what was typed so far, digits only

NumberInit == number = <<>>
TypeDigit(d) ==
    /\ Len(number) < MaxDigits
    /\ d \in (IF Len(number) < Leads THEN LeadDigits ELSE {FillDigit})
    /\ number' = Append(number, d)
NumberNext == \E d \in LeadDigits \cup {FillDigit} : TypeDigit(d)

NumberSpec == NumberInit /\ [][NumberNext]_number

Space == -1
IsDigit(c) == c \in 0 .. 9

\* The characters of the text that are among these; Space is all but letters
\* and digits.
Only(text, chars) ==
    LET kept[i \in 0 .. Len(text)] ==
            IF i = 0 THEN <<>>
            ELSE IF text[i] \in chars THEN Append(kept[i - 1], text[i]) ELSE kept[i - 1]
    IN kept[Len(text)]
Cleaned(text) == Only(text, 0 .. 35)
DigitsOf(text) == Only(text, 0 .. 9)
Slice(s, from, upto) == SubSeq(s, from + 1, upto)      \* as s[from..upto]
From(s, at) == SubSeq(s, at + 1, Len(s))
StartsWith(s, prefix) == IsPrefix(prefix, s)

-------------------------------------------------------------------------------
\* Banking: IBAN, SWIFT and card numbers.

\* A letter stands for the two digits of its value.
Mod97(text) ==
    LET rest[i \in 0 .. Len(text)] ==
            IF i = 0 THEN 0
            ELSE (rest[i - 1] * (IF IsDigit(text[i]) THEN 10 ELSE 100) + text[i]) % 97
    IN rest[Len(text)]

ValidIban(text) ==
    LET c == Cleaned(text) IN
    Len(c) >= 5 /\ Mod97(From(c, 4) \o Slice(c, 0, 4)) = 1

SE == <<28, 14>>
TwoDigits(n) == <<n \div 10, n % 10>>

\* Mutant: the complement to 97.
SwedishIban_Of97(bban) == SE \o TwoDigits(97 - Mod97(bban \o SE \o <<0, 0>>)) \o bban
SwedishIban(bban) == SE \o TwoDigits(98 - Mod97(bban \o SE \o <<0, 0>>)) \o bban

BankCodeLength(country) == CASE country = SE -> 3 [] country = <<13, 14>> -> 8
                             [] country = <<15, 27>> -> 5 [] OTHER -> 4
\* Shorter than five characters: four empty parts.
IbanParts(text) ==
    LET c == Cleaned(text)
        bank == Min({4 + BankCodeLength(Slice(c, 0, 2)), Len(c)})
    IN IF Len(c) < 5 THEN <<<<>>, <<>>, <<>>, <<>>>>
       ELSE <<Slice(c, 0, 2), Slice(c, 2, 4), Slice(c, 4, bank), From(c, bank)>>

IsLetter(c) == c \in 10 .. 35
ValidSwift(text) ==
    /\ Len(text) \in {8, 11}
    /\ \A i \in 1 .. 6 : IsLetter(text[i])
    /\ Space \notin Range(text)
XXX == <<33, 33, 33>>
SwiftParts(text) ==
    IF ~ValidSwift(text) THEN <<<<>>, <<>>, <<>>, <<>>>>
    ELSE <<Slice(text, 0, 4), Slice(text, 4, 6), Slice(text, 6, 8),
           IF Len(text) = 11 THEN From(text, 8) ELSE XXX>>

\* Every second digit from the right is doubled, and 9 taken off above 9.
Doubled(d) == IF 2 * d > 9 THEN 2 * d - 9 ELSE 2 * d
LuhnSum(digits) ==
    LET sum[i \in 0 .. Len(digits)] ==
            IF i = 0 THEN 0
            ELSE sum[i - 1] + (IF (Len(digits) - i) % 2 = 1 THEN Doubled(digits[i]) ELSE digits[i])
    IN sum[Len(digits)]
LuhnCheck(text) == Len(DigitsOf(text)) >= 2 /\ LuhnSum(DigitsOf(text)) % 10 = 0
\* The last digit of a generated card number.
LuhnDigit(digits) == (10 - (LuhnSum(Append(digits, 0)) % 10)) % 10

-------------------------------------------------------------------------------
\* Telecom: phone numbers, IMSI and IMEI.

ValidImsi(text) == Len(text) = 15 /\ \A i \in 1 .. 15 : IsDigit(text[i])
ValidImei(text) == ValidImsi(text) /\ LuhnSum(text) % 10 = 0

\* Digits of the country code: 46, 1 and 44 are known by their lengths.
CountryDigits(d) ==
    IF StartsWith(d, <<4, 6>>) /\ Len(d) >= 11 THEN 2
    ELSE IF StartsWith(d, <<1>>) /\ Len(d) = 11 THEN 1
    ELSE IF StartsWith(d, <<4, 4>>) /\ Len(d) >= 12 THEN 2
    ELSE IF Len(d) > 10 THEN Min({Len(d) - 10, 3})
    ELSE 0

\* Country code, area code and the last seven digits; under ten digits all
\* of them are the subscriber's.
MsisdnParts(text) ==
    LET d == DigitsOf(text)
        rest == From(d, CountryDigits(d))
        area == Max({Len(rest) - 7, 0})
    IN IF Len(d) < 10 THEN <<<<>>, <<>>, d>>
       ELSE <<Slice(d, 0, CountryDigits(d)), Slice(rest, 0, area), From(rest, area)>>

CallingCodes == [SE |-> <<4, 6>>, US |-> <<1>>, GB |-> <<4, 4>>, FI |-> <<3, 5, 8>>, other |-> <<>>]

\* Without the leading plus.  One zero is stripped, of 00 the first.
E164(text, country) ==
    LET d == DigitsOf(text) code == CallingCodes[country] IN
    IF StartsWith(d, code) THEN d
    ELSE IF StartsWith(d, <<0>>) THEN code \o From(d, 1)
    ELSE code \o d

-------------------------------------------------------------------------------
Changed(s, i, d) == [s EXCEPT ![i] = d]

\* A bank's identifier of as many letters as the number has digits.
Letters(digits) == [i \in DOMAIN digits |-> digits[i] + 10]
Joined(parts) == FlattenSeq(parts)

\* The module that computes check digits and the two that verify them
\* agree: every account number that is generated is valid, in groups too,
\* and none is when one digit is misread; a card number has one valid last
\* digit, and the Luhn checks of the two packs accept the same IMEIs.
CheckDigitsAgree ==
    /\ Len(number) = 20 =>
         LET iban == SwedishIban(number) IN
         /\ ValidIban(iban)
         /\ ValidIban(Slice(iban, 0, 4) \o <<Space>> \o From(iban, 4))
         /\ \A i \in 3 .. 24 : \A d \in 0 .. 9 \ {iban[i]} : ~ValidIban(Changed(iban, i, d))
    /\ Len(number) >= 2 =>
         {d \in 0 .. 9 : LuhnCheck(Changed(number, Len(number), d))} = {LuhnDigit(Front(number))}
    /\ Len(number) = 15 => (ValidImei(number) <=> LuhnCheck(number))

\* A number is taken apart without losing or repeating a digit, and one
\* that was formatted stays as it is when it is formatted again.
PartsKeepNumber ==
    /\ Joined(MsisdnParts(number)) = number
    /\ Len(number) > 2 => Joined(IbanParts(SE \o number)) = SE \o number
    /\ Len(number) = 8 => Joined(SwiftParts(Letters(number))) = Letters(number) \o XXX
    /\ Len(number) = 11 => Joined(SwiftParts(Letters(number))) = Letters(number)
    /\ \A country \in DOMAIN CallingCodes :
         E164(E164(number, country), country) = E164(number, country)

(* The functions of the two industry packs agree with each other and with  *)
(* the generator of sample accounts on every number: what one computes the *)
(* others accept, what they take apart can be put together, and formatted  *)
(* columns can be joined.                                                  *)
NumbersAgree == CheckDigitsAgree /\ PartsKeepNumber
=============================================================================
