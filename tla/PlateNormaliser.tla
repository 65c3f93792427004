--------------------------- MODULE PlateNormaliser ---------------------------
(***************************************************************************)
(* The positional corrections that turn what OCR read into a plate.  The    *)
(* server, the phone and the simulator have a copy each; along the way of   *)
(* a hit the plate is normalised up to four times.                          *)
(*                                                                         *)
(* A plate is a sequence of characters from which separators have been      *)
(* removed and which is in upper case.  Positions count from 1; those of    *)
(* the code count from 0.                                                   *)
(***************************************************************************)
EXTENDS Integers, Sequences

CONSTANTS
    Letters,           \* the characters of [A-Z]
    Digits,            \* the characters of [0-9]
    OtherLetters,      \* those that Python's isalpha accepts beyond [A-Z]
    OtherDigits,       \* those that Python's isdigit accepts beyond [0-9]
    DigitCorrections,  \* the digit that OCR took for a letter
    AlphaCorrections   \* the letter that OCR took for a digit

ASSUME CharacterAssumption ==
    /\ Letters \cap Digits = {}
    /\ (OtherLetters \cup OtherDigits) \cap (Letters \cup Digits) = {}
    /\ OtherLetters \cap OtherDigits = {}

ASSUME CorrectionAssumption ==
    /\ DOMAIN DigitCorrections \subseteq Letters
    /\ DOMAIN AlphaCorrections \subseteq Digits
    /\ DigitCorrections \in [DOMAIN DigitCorrections -> Digits]
    /\ AlphaCorrections \in [DOMAIN AlphaCorrections -> Letters]

Characters == Letters \cup Digits \cup OtherLetters \cup OtherDigits

MIN_PLATE_LENGTH == 6
STATE_CODE_LENGTH == 2
TRAILING_DIGIT_COUNT == 4

-----------------------------------------------------------------------------
\* The plate has the shape: two letters, one or two digits, one to three letters, four digits.
is_valid_plate(plate) ==
    \E rto \in 1..2, series \in 1..3 :
        /\ Len(plate) = STATE_CODE_LENGTH + rto + series + TRAILING_DIGIT_COUNT
        /\ \A i \in 1..Len(plate) :
              plate[i] \in IF \/ i <= STATE_CODE_LENGTH
                              \/ i \in (STATE_CODE_LENGTH + rto + 1)..(STATE_CODE_LENGTH + rto + series)
                           THEN Letters ELSE Digits

AtLeast(n, m) == IF n >= m THEN n ELSE m
AtMost(n, m) == IF n <= m THEN n ELSE m

\* The first position from "from" on with a character of "kind", or else "default".
FirstFrom(plate, from, kind, default) ==
    LET found == {i \in from..Len(plate) : plate[i] \in kind} IN
    IF found = {} THEN default ELSE CHOOSE i \in found : \A j \in found : i <= j

\* Where the RTO digits end and the series begins.
find_rto_end(plate, alpha) ==
    FirstFrom(plate, STATE_CODE_LENGTH + 1, alpha, AtMost(STATE_CODE_LENGTH + 2, Len(plate)) + 1)

\* Where the series ends and the number begins.
find_series_end(plate, start, digit) ==
    FirstFrom(plate, start, digit, AtLeast(0, Len(plate) - TRAILING_DIGIT_COUNT) + 1)

\* What is expected at each position.  The digits of the RTO code are set last.
infer_plate_structure(plate, alpha, digit) ==
    LET series == find_rto_end(plate, alpha)
        number == find_series_end(plate, series, digit) IN
    [i \in 1..Len(plate) |->
        IF i \in (STATE_CODE_LENGTH + 1)..(series - 1) \/ i >= number THEN "digit" ELSE "alpha"]

\* Mutant: a character is corrected whatever is expected at its position.
correct_any(character, expected) ==
    IF character \in DOMAIN DigitCorrections
    THEN DigitCorrections[character]
    ELSE IF character \in DOMAIN AlphaCorrections
    THEN AlphaCorrections[character]
    ELSE character

correct_character(character, expected) ==
    IF expected = "digit" /\ character \in DOMAIN DigitCorrections
    THEN DigitCorrections[character]
    ELSE IF expected = "alpha" /\ character \in DOMAIN AlphaCorrections
    THEN AlphaCorrections[character]
    ELSE character

Corrected(plate, alpha, digit) ==
    LET expected == infer_plate_structure(plate, alpha, digit) IN
    [i \in 1..Len(plate) |-> correct_character(plate[i], expected[i])]

\* A plate that is valid already, or too short, is left alone.
Normalised(plate, alpha, digit) ==
    IF is_valid_plate(plate) \/ Len(plate) < MIN_PLATE_LENGTH
    THEN plate
    ELSE Corrected(plate, alpha, digit)

\* normalise_plate of the server and of the simulator.
normalise_plate(plate) == Normalised(plate, Letters \cup OtherLetters, Digits \cup OtherDigits)

\* normalisePlate of the phone, whose classes are those of its regular expressions.
normalisePlate(plate) == Normalised(plate, Letters, Digits)
=============================================================================
