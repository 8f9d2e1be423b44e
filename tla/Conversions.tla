---------------------------- MODULE Conversions -----------------------------
(***************************************************************************)
(* Numbers and text (shared/conversions.cpp): the decimal digits are       *)
(* written into a static buffer of the function from its end, and read     *)
(* back from the end; the hex ones go into a buffer of the caller.         *)
(*                                                                         *)
(* A text is the sequence of its character codes without the terminator.   *)
(* Words are Word numbers wide instead of 2^32, and the buffer is as much  *)
(* smaller; u_int_to_char takes a number of two words.  Floats are exact   *)
(* fractions of Parts.                                                     *)
(***************************************************************************)
EXTENDS Integers, Sequences

CONSTANTS
    Word,           \* numbers in an unsigned word
    Nibbles,        \* hex digits of a word, 8
    TextSize,       \* sizeof(text): the digits of a word, a sign, a zero, one more
    LongNumbers,    \* numbers of two words that u_int_to_char is given
    Parts           \* floats are whole numbers of 1/Parts

Power(base, n) ==
    LET power[k \in 0 .. n] == IF k = 0 THEN 1 ELSE base * power[k - 1] IN power[n]

ASSUME ConversionsAssumption ==
    /\ Nibbles \in Nat \ {0} /\ Word = Power(16, Nibbles)
    /\ TextSize \in Nat /\ TextSize >= 3 /\ Power(10, TextSize - 2) > Word \div 2
    /\ LongNumbers \subseteq 0 .. Word * Word - 1
    /\ Parts \in Nat \ {0}

Minus == 45
Zero == 48
Point == 46

\* Words hold these; arithmetic that leaves them wraps.
Signed == -(Word \div 2) .. Word \div 2 - 1
Unsigned == 0 .. Word - 1
AsUnsigned(i) == i % Word
AsSigned(i) == IF i % Word < Word \div 2 THEN i % Word ELSE (i % Word) - Word

\* The decimal digits of n >= 0, most significant first; none for 0.
Digits(n) ==
    LET digits[m \in 0 .. n] ==
            IF m = 0 THEN <<>> ELSE Append(digits[m \div 10], m % 10)
    IN  digits[n]

Numeral(digits) ==
    IF digits = <<>> THEN <<Zero>> ELSE [k \in DOMAIN digits |-> Zero + digits[k]]

\* Faulty variant: a negative number is negated, the least one too.
SIntToCharByNegation(i) ==
    LET n == IF i < 0 THEN AsSigned(-i) ELSE i
        digits == IF n < 0 THEN <<>> ELSE Digits(n)
    IN  (IF i < 0 THEN <<Minus>> ELSE <<>>) \o Numeral(digits)

\* s_int_to_char: a number that is not negative is negated, so that the loop
\* always takes digits off a number that is not positive.
SIntToChar(i) ==
    LET n == IF i >= 0 THEN AsSigned(-i) ELSE i
        digits == Digits(-n)
    IN  (IF i < 0 THEN <<Minus>> ELSE <<>>) \o Numeral(digits)

\* u_int_to_char, of a number of two words.
UIntToChar(i) == Numeral(Digits(i))

\* u_int32_to_hex: every nibble, the highest first.
HexDigit(d) == IF d < 10 THEN Zero + d ELSE 65 + d - 10

UInt32ToHex(num) ==
    [k \in 1 .. Nibbles |-> HexDigit((num \div Power(16, Nibbles - k)) % 16)]

\* -1 if the character is not a digit.
UCharToInt(c) == IF c > 57 \/ c < 48 THEN -1 ELSE c - Zero

\* The characters that are read as digits: all but a sign in front.
Number(text) == IF text[1] = Minus THEN Tail(text) ELSE text

CharValidSInt(text) ==
    /\ text # <<>>
    /\ text # <<Minus>>
    /\ Len(text) - 1 <= TextSize - 2
    /\ \A k \in DOMAIN Number(text) : UCharToInt(Number(text)[k]) # -1

\* char_to_s_int: digits are added from the last to the first.
CharToSInt(text) ==
    LET digits == Number(text)
        place[k \in 0 .. Len(digits)] ==
            IF k = 0 THEN 1 ELSE AsUnsigned(10 * place[k - 1])
        total[k \in 0 .. Len(digits)] ==
            IF k = 0 THEN 0
            ELSE AsSigned(total[k - 1] +
                          UCharToInt(digits[Len(digits) + 1 - k]) * place[k - 1])
    IN  IF \/ text = <<>> \/ text = <<Minus>>
           \/ \E k \in DOMAIN digits : UCharToInt(digits[k]) = -1
        THEN 0
        ELSE IF text[1] = Minus THEN AsSigned(-total[Len(digits)])
        ELSE total[Len(digits)]

\* s_float_to_char of num / Parts: the fraction is multiplied by ten until it
\* is whole or long enough, and its digits are written as a number.
Scaled(fraction, turns) ==
    LET after[i \in 0 .. turns] ==
            IF i = 0 THEN fraction
            ELSE IF after[i - 1] % Parts = 0 THEN after[i - 1] ELSE 10 * after[i - 1]
    IN  after[turns]

SFloatToChar(num, precision, round) ==
    LET scaled == Scaled(num % Parts, precision + IF round THEN 1 ELSE 0)
        digits == scaled \div Parts
        rounded == digits \div 10 + IF digits % 10 >= 5 THEN 1 ELSE 0
    IN  SIntToChar(num \div Parts) \o <<Point>> \o
            SIntToChar(IF round /\ scaled % Parts # 0 THEN rounded ELSE digits)

-----------------------------------------------------------------------------
(***************************************************************************)
(* A program's calls, one at a time.                                       *)
(***************************************************************************)
VARIABLES
    call,       \* what the program asked for
    number,     \* the number it gave
    text        \* the text it gave, or was returned

convVars == <<call, number, text>>

ConvInit == call = "none" /\ number = 0 /\ text = <<>>

Convert(what, i, t) ==
    /\ call = "none"
    /\ call' = what
    /\ number' = i
    /\ text' = t

\* Nothing looks whether the digits fit: those that do not are written before
\* the buffer, over what else is there, and no more is said of that program.
ConvertInBuffer(what, i, t) == Convert(IF Len(t) < TextSize THEN what ELSE "spilled", i, t)

ConvertSigned(i) == ConvertInBuffer("signed", i, SIntToChar(i))
ConvertUnsigned(i) == ConvertInBuffer("unsigned", i, UIntToChar(i))
ConvertHex(i) == Convert("hex", i, UInt32ToHex(i))
ConvertFloat(i, precision) == Convert("float", i, SFloatToChar(i, precision, FALSE))

\* A text that a user types, one character after the other.
Typed == {47, 48, 57, 58, Minus}
Type(c) ==
    /\ call \in {"none", "typed"}
    /\ Len(text) < TextSize
    /\ call' = "typed"
    /\ text' = Append(text, c)
    /\ UNCHANGED number

ConvReturn ==
    /\ call \notin {"none", "spilled"}
    /\ call' = "none" /\ number' = 0 /\ text' = <<>>

ConvNext ==
    \/ \E i \in Signed : ConvertSigned(i)
    \/ \E i \in Unsigned \cup LongNumbers : ConvertUnsigned(i)
    \/ \E i \in Unsigned : ConvertHex(i)
    \/ \E i \in 0 .. 4 * Parts - 1, precision \in {2, 3} : ConvertFloat(i, precision)
    \/ \E c \in Typed : Type(c)
    \/ ConvReturn

ConvSpec == ConvInit /\ [][ConvNext]_convVars
-----------------------------------------------------------------------------
\* The value of a text of digits, of such a text with or without a sign, and of
\* hex digits.
DigitOf(c) == IF c > 57 THEN c - 55 ELSE c - Zero

Reading(t, base) ==
    LET value[k \in 0 .. Len(t)] ==
            IF k = 0 THEN 0 ELSE base * value[k - 1] + DigitOf(t[k])
    IN  value[Len(t)]

ValueOf(t) == AsSigned(IF t[1] = Minus THEN -Reading(Number(t), 10) ELSE Reading(t, 10))

HexValueOf(t) == Reading(t, 16)

\* A text made from a number gives the number back, modulo the word: zero, the
\* least one, whose negation does not exist, unsigned ones that read as
\* negative, and those of two words.  It fits the buffer for every number of the
\* word, and for one of two words exactly if it has no more digits than the
\* buffer has room for.
NumbersComeBack ==
    /\ call = "signed" => CharValidSInt(text) /\ CharToSInt(text) = number
    /\ call = "unsigned" => CharToSInt(text) = AsSigned(number)
                            /\ number < Power(10, TextSize - 1)
    /\ call = "spilled" => number >= Word /\ number >= Power(10, TextSize - 1)
    /\ call = "hex" => HexValueOf(text) = number
    /\ call = "float" /\ number % Parts = 0 =>
            text = SIntToChar(number \div Parts) \o <<Point, Zero>>

\* What the check of a typed number lets through is read as the number it
\* shows, modulo the word, and what it refuses for its characters reads as 0.
AcceptedTextsAreNumbers ==
    call = "typed" =>
        IF CharValidSInt(text) THEN CharToSInt(text) = ValueOf(text)
        ELSE Len(text) = TextSize \/ CharToSInt(text) = 0

\* Numbers and texts agree, in both directions.
TextsAndNumbersAgree == NumbersComeBack /\ AcceptedTextsAreNumbers
=============================================================================
