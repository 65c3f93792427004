---------------------------- MODULE ScannerProofs ----------------------------
(***************************************************************************)
(* Theorems about the corrections of PlateNormaliser, for strings of any    *)
(* length over any alphabet that meets the assumptions, and about Scanner,  *)
(* for any views, alphabets, thresholds and bounds.                         *)
(*                                                                         *)
(* The scanner refines HotlistSync, whose invariant therefore holds of it:  *)
(* a list holds only plates that have been on the hotlist.  The scanner's    *)
(* copy is such a list, of some moment (IInv), and in fact the list of this  *)
(* moment (CopyInv); what it matches, queues and sends comes from            *)
(* there.  A plate is looked up and sent in one form only because a second   *)
(* correction changes nothing (NormalisedOnce).                             *)
(***************************************************************************)
EXTENDS Scanner, HotlistSyncProofs

-----------------------------------------------------------------------------
(* The corrections of PlateNormaliser.                                      *)

\* The character classes of one of the copies: they contain [A-Z] and [0-9] and are apart.
Classes(alpha, digit) ==
    Letters \subseteq alpha /\ Digits \subseteq digit /\ alpha \cap digit = {}

\* A set of naturals has a smallest element.
LEMMA SmallestElement ==
    ASSUME NEW T \in SUBSET Nat, T # {}
    PROVE  \E x \in T : \A y \in T : x <= y
<1>. DEFINE less == {ss \in Nat \X Nat : ss[1] < ss[2]}
<1>1. IsWellFoundedOn(less, Nat)
    BY NatLessThanWellFounded DEF OpToRel
<1>2. PICK x \in T : \A y \in T : ~(<<y, x>> \in less)
    BY <1>1, WFMin
<1>3. SUFFICES ASSUME NEW y \in T, y < x PROVE FALSE
    BY <1>2
<1>4. <<y, x>> \in Nat \X Nat /\ <<y, x>>[1] < <<y, x>>[2]
    BY <1>3
<1>5. <<y, x>> \in less
    BY <1>4, Zenon
<1>. QED
    BY <1>2, <1>5

\* What FirstFrom returns: the first position of the kind, or the default when there is none.
LEMMA FirstFromFact ==
    ASSUME NEW plate \in Seq(Characters), NEW from \in Nat, NEW kind, NEW default,
           NEW first, first = FirstFrom(plate, from, kind, default)
    PROVE  \/ /\ first \in from..Len(plate) /\ plate[first] \in kind
              /\ \A i \in from..(first - 1) : plate[i] \notin kind
           \/ /\ first = default
              /\ \A i \in from..Len(plate) : plate[i] \notin kind
<1>. DEFINE found == {i \in from..Len(plate) : plate[i] \in kind}
<1>1. CASE found = {}
    BY <1>1 DEF FirstFrom
<1>2. CASE found # {}
    <2>1. found \in SUBSET Nat
        OBVIOUS
    <2>2. \E x \in found : \A y \in found : x <= y
        BY <1>2, <2>1, SmallestElement
    <2>3. first \in found /\ \A y \in found : first <= y
        BY <1>2, <2>2 DEF FirstFrom
    <2>. QED
        BY <2>3
<1>. QED
    BY <1>1, <1>2

-----------------------------------------------------------------------------
(* Where the parts of a string begin, and what the corrections change.     *)

\* Where the series and the number of a string begin.
LEMMA Structure ==
    ASSUME NEW plate \in Seq(Characters), Len(plate) >= MIN_PLATE_LENGTH, NEW alpha, NEW digit,
           NEW series, series = find_rto_end(plate, alpha),
           NEW number, number = find_series_end(plate, series, digit)
    PROVE  /\ series \in Nat /\ series >= 3 /\ number \in Nat /\ number >= 3
           /\ \/ /\ series \in 3..Len(plate) /\ plate[series] \in alpha
                 /\ \A i \in 3..(series - 1) : plate[i] \notin alpha
              \/ series = 5 /\ \A i \in 3..Len(plate) : plate[i] \notin alpha
           /\ \/ /\ number \in series..Len(plate) /\ plate[number] \in digit
                 /\ \A i \in series..(number - 1) : plate[i] \notin digit
              \/ number = Len(plate) - 3 /\ \A i \in series..Len(plate) : plate[i] \notin digit
<1>. Len(plate) \in Nat /\ Len(plate) >= 6
    BY DEF MIN_PLATE_LENGTH
<1>1. series = FirstFrom(plate, 3, alpha, 5)
    BY DEF find_rto_end, AtMost, STATE_CODE_LENGTH
<1>2. number = FirstFrom(plate, series, digit, Len(plate) - 3)
    BY DEF find_series_end, AtLeast, TRAILING_DIGIT_COUNT
<1>3. \/ /\ series \in 3..Len(plate) /\ plate[series] \in alpha
         /\ \A i \in 3..(series - 1) : plate[i] \notin alpha
      \/ series = 5 /\ \A i \in 3..Len(plate) : plate[i] \notin alpha
    BY <1>1, FirstFromFact
<1>4. series \in Nat /\ series >= 3
    BY <1>3
<1>5. \/ /\ number \in series..Len(plate) /\ plate[number] \in digit
         /\ \A i \in series..(number - 1) : plate[i] \notin digit
      \/ number = Len(plate) - 3 /\ \A i \in series..Len(plate) : plate[i] \notin digit
    BY <1>2, <1>4, FirstFromFact
<1>6. number \in Nat /\ number >= 3
    BY <1>4, <1>5
<1>. QED
    BY <1>3, <1>4, <1>5, <1>6

\* Only the state code and the number are changed: what is between them is of the expected
\* kind by the way it is found.
LEMMA CorrectedAt ==
    ASSUME NEW plate \in Seq(Characters), Len(plate) >= MIN_PLATE_LENGTH,
           NEW alpha, NEW digit, Classes(alpha, digit),
           NEW series, series = find_rto_end(plate, alpha),
           NEW number, number = find_series_end(plate, series, digit),
           NEW corrected, corrected = Corrected(plate, alpha, digit)
    PROVE  /\ corrected \in Seq(Characters) /\ Len(corrected) = Len(plate)
           /\ \A i \in 1..Len(plate) :
                corrected[i] = IF i < 3 THEN correct_character(plate[i], "alpha")
                               ELSE IF i < number THEN plate[i]
                               ELSE correct_character(plate[i], "digit")
<1>. Len(plate) \in Nat /\ Len(plate) >= 6
    BY DEF MIN_PLATE_LENGTH
<1>. DEFINE expected == infer_plate_structure(plate, alpha, digit)
<1>1. expected = [i \in 1..Len(plate) |-> IF i \in 3..(series - 1) \/ i >= number THEN "digit" ELSE "alpha"]
    BY DEF infer_plate_structure, STATE_CODE_LENGTH
<1>2. corrected = [i \in 1..Len(plate) |-> correct_character(plate[i], expected[i])]
    BY DEF Corrected
<1>3. /\ series \in Nat /\ series >= 3 /\ number \in Nat /\ number >= 3
      /\ \A i \in 3..Len(plate) : i < series => plate[i] \notin alpha
      /\ \A i \in series..Len(plate) : i < number => plate[i] \notin digit
    BY Structure
<1>4. \A i \in 1..Len(plate) : plate[i] \in Characters
    OBVIOUS
<1>5. ASSUME NEW character \in Characters, NEW kind
      PROVE  /\ correct_character(character, kind) \in Characters
             /\ character \notin Letters => correct_character(character, "digit") = character
             /\ character \notin Digits => correct_character(character, "alpha") = character
    BY CorrectionAssumption DEF correct_character, Characters
<1>6. ASSUME NEW i \in 1..Len(plate)
      PROVE  corrected[i] = IF i < 3 THEN correct_character(plate[i], "alpha")
                            ELSE IF i < number THEN plate[i]
                            ELSE correct_character(plate[i], "digit")
    <2>1. corrected[i] = correct_character(plate[i], expected[i])
        BY <1>2
    <2>2. CASE i < 3
        BY <1>1, <1>3, <2>1, <2>2
    <2>3. CASE i >= 3 /\ i < number /\ i < series
        <3>1. plate[i] \notin Letters
            BY <1>3, <2>3 DEF Classes
        <3>2. expected[i] = "digit"
            BY <1>1, <1>3, <2>3
        <3>. QED
            BY <1>4, <1>5, <2>1, <2>3, <3>1, <3>2
    <2>4. CASE i >= 3 /\ i < number /\ i >= series
        <3>1. plate[i] \notin Digits
            BY <1>3, <2>4 DEF Classes
        <3>2. expected[i] = "alpha"
            BY <1>1, <1>3, <2>4
        <3>. QED
            BY <1>4, <1>5, <2>1, <2>4, <3>1, <3>2
    <2>5. CASE i >= 3 /\ i >= number
        BY <1>1, <1>3, <2>1, <2>5
    <2>. QED
        BY <1>3, <2>2, <2>3, <2>4, <2>5
<1>7. corrected \in Seq(Characters) /\ Len(corrected) = Len(plate)
    BY <1>2, <1>4, <1>5
<1>. QED
    BY <1>6, <1>7

-----------------------------------------------------------------------------
(* Correcting twice.                                                       *)

\* A letter that stands in for a digit, or a digit for a letter, is not left where the
\* correction put it right.
LEMMA CorrectedCharacter ==
    ASSUME NEW character \in Characters
    PROVE  /\ correct_character(character, "alpha") \notin DOMAIN AlphaCorrections
           /\ correct_character(character, "digit") \notin DOMAIN DigitCorrections
    BY CorrectionAssumption, CharacterAssumption DEF correct_character

\* A corrected string is not changed by a second correction, although its series and its
\* number may begin elsewhere.
LEMMA CorrectedTwice ==
    ASSUME NEW plate \in Seq(Characters), Len(plate) >= MIN_PLATE_LENGTH,
           NEW alpha, NEW digit, Classes(alpha, digit)
    PROVE  Corrected(Corrected(plate, alpha, digit), alpha, digit) = Corrected(plate, alpha, digit)
<1>. DEFINE once == Corrected(plate, alpha, digit)
            twice == Corrected(once, alpha, digit)
            s1 == find_rto_end(plate, alpha)
            n1 == find_series_end(plate, s1, digit)
            s2 == find_rto_end(once, alpha)
            n2 == find_series_end(once, s2, digit)
<1>. Len(plate) \in Nat /\ Len(plate) >= 6
    BY DEF MIN_PLATE_LENGTH
<1>1. /\ once \in Seq(Characters) /\ Len(once) = Len(plate)
      /\ \A i \in 1..Len(plate) :
            once[i] = IF i < 3 THEN correct_character(plate[i], "alpha")
                      ELSE IF i < n1 THEN plate[i]
                      ELSE correct_character(plate[i], "digit")
    BY CorrectedAt
<1>2. /\ twice \in Seq(Characters) /\ Len(twice) = Len(plate)
      /\ \A i \in 1..Len(plate) :
            twice[i] = IF i < 3 THEN correct_character(once[i], "alpha")
                       ELSE IF i < n2 THEN once[i]
                       ELSE correct_character(once[i], "digit")
    BY <1>1, CorrectedAt
<1>3. /\ s1 \in Nat /\ s1 >= 3 /\ n1 \in Nat /\ n1 >= 3
      /\ \/ /\ s1 \in 3..Len(plate) /\ plate[s1] \in alpha
            /\ \A i \in 3..(s1 - 1) : plate[i] \notin alpha
         \/ s1 = 5 /\ \A i \in 3..Len(plate) : plate[i] \notin alpha
      /\ \/ /\ n1 \in s1..Len(plate) /\ plate[n1] \in digit
            /\ \A i \in s1..(n1 - 1) : plate[i] \notin digit
         \/ n1 = Len(plate) - 3 /\ \A i \in s1..Len(plate) : plate[i] \notin digit
    BY Structure
<1>. HIDE DEF once
<1>4a. Len(once) >= MIN_PLATE_LENGTH
    BY <1>1
<1>4b. /\ s2 \in Nat /\ s2 >= 3 /\ n2 \in Nat /\ n2 >= 3
      /\ \/ /\ s2 \in 3..Len(once) /\ once[s2] \in alpha
            /\ \A i \in 3..(s2 - 1) : once[i] \notin alpha
         \/ s2 = 5 /\ \A i \in 3..Len(once) : once[i] \notin alpha
      /\ \/ /\ n2 \in s2..Len(once) /\ once[n2] \in digit
            /\ \A i \in s2..(n2 - 1) : once[i] \notin digit
         \/ n2 = Len(once) - 3 /\ \A i \in s2..Len(once) : once[i] \notin digit
    BY <1>1, <1>4a, Structure
<1>4. /\ s2 \in Nat /\ s2 >= 3 /\ n2 \in Nat /\ n2 >= 3
      /\ \/ /\ s2 \in 3..Len(plate) /\ once[s2] \in alpha
            /\ \A i \in 3..(s2 - 1) : once[i] \notin alpha
         \/ s2 = 5 /\ \A i \in 3..Len(plate) : once[i] \notin alpha
      /\ \/ /\ n2 \in s2..Len(plate) /\ once[n2] \in digit
            /\ \A i \in s2..(n2 - 1) : once[i] \notin digit
         \/ n2 = Len(plate) - 3 /\ \A i \in s2..Len(plate) : once[i] \notin digit
    BY <1>1, <1>4b
<1>. HIDE DEF twice, s1, n1, s2, n2
<1>5. \A c \in digit : correct_character(c, "digit") = c
    BY CorrectionAssumption DEF correct_character, Classes
<1>6. ASSUME NEW i \in 3..Len(plate), n2 <= i, i < n1
      PROVE  plate[i] \notin alpha
    <2>1. CASE i < s1
        BY <1>3, <1>6, <2>1
    <2>2. CASE i >= s1 /\ plate[s1] \in alpha
        <3>1. s1 < n1 /\ s1 \in 3..Len(plate) /\ \A j \in 3..(s1 - 1) : plate[j] \notin alpha
            BY <1>3, <1>6, <2>2
        <3>2. \A j \in 3..(n1 - 1) : j \in 1..Len(plate) /\ once[j] = plate[j]
            BY <1>1, <1>3
        <3>3. s2 = s1
            <4>1. once[s1] \in alpha /\ \A j \in 3..(s1 - 1) : once[j] \notin alpha
                BY <1>3, <2>2, <3>1, <3>2
            <4>2. s2 \in 3..Len(plate) /\ once[s2] \in alpha /\ \A j \in 3..(s2 - 1) : once[j] \notin alpha
                BY <1>4, <3>1, <4>1
            <4>. QED
                BY <3>1, <4>1, <4>2
        <3>4. n2 \notin s1..Len(plate) \/ once[n2] \notin digit
            BY <1>3, <1>4, <1>6, <3>2
        <3>5. n2 = Len(plate) - 3 /\ \A j \in s1..Len(plate) : once[j] \notin digit
            BY <1>4, <3>3, <3>4
        <3>6. n1 \in 1..Len(plate) /\ plate[n1] \in digit /\ n1 \in s1..Len(plate)
            BY <1>3, <1>6, <3>1, <3>5
        <3>7. once[n1] = plate[n1]
            BY <1>1, <1>3, <1>5, <3>6
        <3>. QED
            BY <3>5, <3>6, <3>7
    <2>3. CASE plate[s1] \notin alpha
        BY <1>3, <2>3
    <2>. QED
        BY <1>3, <2>1, <2>2, <2>3
<1>7. ASSUME NEW i \in 1..Len(plate)
      PROVE  twice[i] = once[i]
    <2>1. plate[i] \in Characters /\ once[i] \in Characters
        BY <1>1
    <2>2. CASE i < 3
        <3>1. once[i] \notin DOMAIN AlphaCorrections
            BY <1>1, <2>1, <2>2, CorrectedCharacter
        <3>. QED
            BY <1>2, <2>2, <3>1 DEF correct_character
    <2>3. CASE i >= 3 /\ i < n2
        BY <1>2, <1>4, <2>3
    <2>4. CASE i >= 3 /\ i >= n2
        <3>1. once[i] \notin DOMAIN DigitCorrections
            <4>1. CASE i >= n1
                BY <1>1, <1>3, <2>1, <2>4, <4>1, CorrectedCharacter
            <4>2. CASE i < n1
                <5>1. plate[i] \notin Letters
                    BY <1>4, <1>6, <2>4, <4>2 DEF Classes
                <5>. QED
                    BY <1>1, <2>4, <4>2, <5>1, CorrectionAssumption
            <4>. QED
                BY <1>3, <4>1, <4>2
        <3>. QED
            BY <1>2, <1>4, <2>4, <3>1 DEF correct_character
    <2>. QED
        BY <1>4, <2>2, <2>3, <2>4
<1>8. twice = once
    BY <1>1, <1>2, <1>7
<1>. QED
    BY <1>8 DEF once, twice

\* A plate is normalised by the detect endpoint, by the phone, by its scanner and by the
\* sightings endpoint: each copy of the code leaves alone what it made itself.
THEOREM NormalisedOnce ==
    ASSUME NEW plate \in Seq(Characters)
    PROVE  /\ normalise_plate(normalise_plate(plate)) = normalise_plate(plate)
           /\ normalisePlate(normalisePlate(plate)) = normalisePlate(plate)
<1>1. ASSUME NEW alpha, NEW digit, Classes(alpha, digit)
      PROVE  Normalised(Normalised(plate, alpha, digit), alpha, digit) = Normalised(plate, alpha, digit)
    <2>1. CASE is_valid_plate(plate) \/ Len(plate) < MIN_PLATE_LENGTH
        BY <2>1 DEF Normalised
    <2>2. CASE ~(is_valid_plate(plate) \/ Len(plate) < MIN_PLATE_LENGTH)
        <3>1. Normalised(plate, alpha, digit) = Corrected(plate, alpha, digit)
            BY <2>2 DEF Normalised
        <3>2. Len(plate) >= MIN_PLATE_LENGTH
            BY <2>2 DEF MIN_PLATE_LENGTH
        <3>3. Corrected(Corrected(plate, alpha, digit), alpha, digit) = Corrected(plate, alpha, digit)
            BY <1>1, <3>2, CorrectedTwice
        <3>. QED
            BY <3>1, <3>3 DEF Normalised
    <2>. QED
        BY <2>1, <2>2
<1>2. Classes(Letters \cup OtherLetters, Digits \cup OtherDigits) /\ Classes(Letters, Digits)
    BY CharacterAssumption DEF Classes
<1>. QED
    BY <1>1, <1>2 DEF normalise_plate, normalisePlate

-----------------------------------------------------------------------------
(* Two copies of the code.                                                 *)

\* Where every character is one of [A-Z0-9] the classes of the two copies are the same.
LEMMA SameOnPlain ==
    ASSUME NEW plate \in Seq(Characters), \A i \in 1..Len(plate) : plate[i] \in Letters \cup Digits
    PROVE  normalise_plate(plate) = normalisePlate(plate)
<1>. DEFINE alpha == Letters \cup OtherLetters
            digit == Digits \cup OtherDigits
<1>1. ASSUME NEW from \in Nat, from >= 1, NEW default
      PROVE  /\ FirstFrom(plate, from, alpha, default) = FirstFrom(plate, from, Letters, default)
             /\ FirstFrom(plate, from, digit, default) = FirstFrom(plate, from, Digits, default)
    <2>. DEFINE Least(found) == IF found = {} THEN default ELSE CHOOSE i \in found : \A j \in found : i <= j
    <2>0. \A kind : FirstFrom(plate, from, kind, default) = Least({i \in from..Len(plate) : plate[i] \in kind})
        BY DEF FirstFrom
    <2>. HIDE DEF Least
    <2>1. {i \in from..Len(plate) : plate[i] \in alpha} = {i \in from..Len(plate) : plate[i] \in Letters}
        BY <1>1, CharacterAssumption
    <2>2. {i \in from..Len(plate) : plate[i] \in digit} = {i \in from..Len(plate) : plate[i] \in Digits}
        BY <1>1, CharacterAssumption
    <2>. QED
        BY <2>0, <2>1, <2>2
<1>. HIDE DEF alpha, digit
<1>2. find_rto_end(plate, alpha) = find_rto_end(plate, Letters)
    BY <1>1 DEF find_rto_end, STATE_CODE_LENGTH
<1>3. CASE Len(plate) >= MIN_PLATE_LENGTH
    <2>1. find_rto_end(plate, Letters) \in Nat /\ find_rto_end(plate, Letters) >= 3
        BY <1>3, Structure
    <2>2. find_series_end(plate, find_rto_end(plate, Letters), digit)
             = find_series_end(plate, find_rto_end(plate, Letters), Digits)
        BY <1>1, <2>1 DEF find_series_end
    <2>3. Corrected(plate, alpha, digit) = Corrected(plate, Letters, Digits)
        BY <1>2, <2>2 DEF Corrected, infer_plate_structure
    <2>. QED
        BY <2>3 DEF normalise_plate, normalisePlate, Normalised, alpha, digit
<1>4. CASE Len(plate) < MIN_PLATE_LENGTH
    BY <1>4 DEF normalise_plate, normalisePlate, Normalised
<1>. QED
    BY <1>3, <1>4 DEF MIN_PLATE_LENGTH

\* A valid plate has no other characters.
LEMMA ValidIsPlain ==
    ASSUME NEW plate \in Seq(Characters), is_valid_plate(plate)
    PROVE  \A i \in 1..Len(plate) : plate[i] \in Letters \cup Digits
    BY DEF is_valid_plate

\* A correction makes no plate out of a string with other characters.
LEMMA ValidFromPlain ==
    ASSUME NEW plate \in Seq(Characters), NEW alpha, NEW digit, Classes(alpha, digit),
           is_valid_plate(Normalised(plate, alpha, digit))
    PROVE  \A i \in 1..Len(plate) : plate[i] \in Letters \cup Digits
<1>1. CASE Normalised(plate, alpha, digit) = plate
    BY <1>1, ValidIsPlain
<1>2. CASE Normalised(plate, alpha, digit) # plate
    <2>. DEFINE once == Corrected(plate, alpha, digit)
    <2>1. once = Normalised(plate, alpha, digit) /\ Len(plate) >= MIN_PLATE_LENGTH
        BY <1>2 DEF Normalised, MIN_PLATE_LENGTH
    <2>2. once \in Seq(Characters) /\ Len(once) = Len(plate)
        BY <2>1, CorrectedAt
    <2>3. \A i \in 1..Len(plate) : \/ once[i] = plate[i]
                                   \/ once[i] = correct_character(plate[i], "alpha")
                                   \/ once[i] = correct_character(plate[i], "digit")
        BY <2>1, CorrectedAt
    <2>. HIDE DEF once
    <2>4. \A i \in 1..Len(plate) : once[i] \in Letters \cup Digits
        BY <2>1, <2>2, ValidIsPlain
    <2>5. ASSUME NEW i \in 1..Len(plate)
          PROVE  once[i] = plate[i] \/ plate[i] \in Letters \cup Digits
        BY <2>3, CorrectionAssumption DEF correct_character
    <2>. QED
        BY <2>4, <2>5
<1>. QED
    BY <1>1, <1>2

\* The copies of the server and of the phone agree wherever one of them arrives at a plate
\* that is valid.  (They may differ on what is no plate: isalpha and isdigit accept more
\* than the phone's regular expressions.)
THEOREM CopiesAgree ==
    ASSUME NEW plate \in Seq(Characters),
           is_valid_plate(normalise_plate(plate)) \/ is_valid_plate(normalisePlate(plate))
    PROVE  normalise_plate(plate) = normalisePlate(plate)
<1>1. Classes(Letters \cup OtherLetters, Digits \cup OtherDigits) /\ Classes(Letters, Digits)
    BY CharacterAssumption DEF Classes
<1>2. \A i \in 1..Len(plate) : plate[i] \in Letters \cup Digits
    BY <1>1, ValidFromPlain DEF normalise_plate, normalisePlate
<1>. QED
    BY <1>2, SameOnPlain

-----------------------------------------------------------------------------
(* The inductive invariant.                                                *)

\* A row of the hotlist was of this plate, at some time.
WasListed(p) == \E r \in Rows : PlateOf[r] = p /\ row[r].status # "absent"

\* The way of a plate from the list to the server.
HitInv ==
    /\ \A p \in copy : WasListed(p)
    /\ frame.at = "matched" => frame.plate \in matched
    /\ \A p \in matched \cup sent : WasListed(p) /\ is_valid_plate(p)
    /\ \A item \in queue : item.kind = "hit" => WasListed(item.plate)
    /\ errors \in Nat

\* The rest of TypeOK, without the types of HotlistSync.
ScreenTypeOK ==
    /\ frame \in [at : {"idle", "detecting", "handling", "matched", "resending"},
                  plate : DetectedPlates \cup {<<>>}, rest : Seq(DetectedPlates)]
    /\ frame.at \in {"idle", "detecting"} <=> frame.plate = <<>>
    /\ reads \in [DetectedPlates -> 0..TEMPORAL_WINDOW_SIZE]
    /\ matched \subseteq confirmed
    /\ confirmed \subseteq {p \in DetectedPlates : reads[p] >= TEMPORAL_VOTE_THRESHOLD}
    /\ frame.at \in {"matched", "resending"} => frame.plate \in confirmed
    /\ copy \subseteq Plates /\ shown \in Times
    /\ resentAt \in [DetectedPlates -> (-ResendInterval)..MaxTime]
    /\ queue \subseteq [plate : DetectedPlates, kind : {"hit", "update"}, at : Times]
    /\ \A p \in sent : \E item \in queue : item.plate = p

ScanInv == ScreenTypeOK /\ HitInv /\ MatchIsQueued

IInv == SyncIInv /\ ScanInv

-----------------------------------------------------------------------------
(* The plates.                                                             *)

\* A correction keeps the length.
LEMMA NormalisedLength ==
    ASSUME NEW plate \in Seq(Characters), NEW alpha, NEW digit, Classes(alpha, digit)
    PROVE  /\ Normalised(plate, alpha, digit) \in Seq(Characters)
           /\ Len(Normalised(plate, alpha, digit)) = Len(plate)
  <1>1. CASE is_valid_plate(plate) \/ Len(plate) < MIN_PLATE_LENGTH
    BY <1>1 DEF Normalised
  <1>2. CASE ~(is_valid_plate(plate) \/ Len(plate) < MIN_PLATE_LENGTH)
    <2>1. Len(plate) >= MIN_PLATE_LENGTH
      BY <1>2 DEF MIN_PLATE_LENGTH
    <2>2. Corrected(plate, alpha, digit) \in Seq(Characters) /\ Len(Corrected(plate, alpha, digit)) = Len(plate)
      BY <2>1, CorrectedAt
    <2> QED
      BY <1>2, <2>2 DEF Normalised
  <1> QED
    BY <1>1, <1>2

\* What is detected is a plate that the phone's correction leaves as it is.
LEMMA DetectedFact ==
    ASSUME NEW p \in DetectedPlates
    PROVE  p \in Seq(Characters) /\ p # <<>> /\ normalisePlate(p) = p
  <1>a. PICK view \in Views : \E i \in DOMAIN view : p = Detected(view[i])
    BY DEF DetectedPlates
  <1>1. PICK i \in DOMAIN view : p = Detected(view[i])
    BY <1>a
  <1> DEFINE read == view[i]
             once == normalise_plate(read)
             twice == normalisePlate(once)
  <1>2. read \in Seq(Characters) /\ read # <<>> /\ Len(read) # 0
    BY <1>1, ViewsAssumption
  <1>3. Classes(Letters \cup OtherLetters, Digits \cup OtherDigits) /\ Classes(Letters, Digits)
    BY CharacterAssumption DEF Classes
  <1> HIDE DEF read
  <1>4. once \in Seq(Characters) /\ Len(once) = Len(read)
    BY <1>2, <1>3, NormalisedLength DEF normalise_plate
  <1> HIDE DEF once
  <1>5. twice \in Seq(Characters) /\ Len(twice) = Len(once)
    BY <1>3, <1>4, NormalisedLength DEF normalisePlate
  <1>6. normalisePlate(twice) = twice
    BY <1>4, NormalisedOnce
  <1>7. p = twice
    BY <1>1, <1>6 DEF Detected, once, read
  <1> HIDE DEF twice
  <1> QED
    BY <1>2, <1>4, <1>5, <1>6, <1>7

\* A plate of a view is one of the plates that may be detected.
LEMMA ViewFact ==
    ASSUME NEW view \in Views
    PROVE  /\ Len(view) \in Nat /\ Len(view) >= 1
           /\ \A i \in 1..Len(view) : Detected(view[i]) \in DetectedPlates
  <1>1. view # <<>> /\ view \in Seq(Seq(Characters) \ {<<>>})
    BY ViewsAssumption
  <1>2. Len(view) \in Nat /\ Len(view) >= 1 /\ DOMAIN view = 1..Len(view)
    BY <1>1
  <1>3. \A i \in DOMAIN view : Detected(view[i]) \in {Detected(view[j]) : j \in DOMAIN view}
    OBVIOUS
  <1>4. \A i \in DOMAIN view : Detected(view[i]) \in DetectedPlates
    BY <1>3 DEF DetectedPlates
  <1> QED
    BY <1>2, <1>4

\* TypeOK is what the two parts of the invariant say of types.
LEMMA TypesTogether ==
    TypeOK <=> SyncTypeOK /\ ScreenTypeOK
  BY DEF TypeOK, ScreenTypeOK

-----------------------------------------------------------------------------
(* The lists.                                                              *)

\* A step of HotlistSync writes at most one row, and never makes it absent.
LEMMA RowsAreWritten ==
    ASSUME SyncTypeOK, [SyncNext]_syncVars
    PROVE  \/ UNCHANGED row
           \/ \E r \in Rows, status \in Statuses \ {"absent"}, stamp \in 1..now :
                 row' = [row EXCEPT ![r] = [status |-> status, updated_at |-> stamp]]
  <1>1. CASE UNCHANGED syncVars
    BY <1>1 DEF syncVars, serverVars
  <1>2. CASE ServerStep
    <2>1. ASSUME NEW r \in Rows, list_row(r) \/ change_row(r)
          PROVE  \E status \in Statuses \ {"absent"}, stamp \in 1..now :
                    row' = [row EXCEPT ![r] = [status |-> status, updated_at |-> stamp]]
      <3>1. \E status \in Statuses \ {"absent"} : write_row(r, status)
        BY <2>1 DEF list_row, change_row, SyncTypeOK, Statuses, Active
      <3> QED
        BY <3>1 DEF write_row
    <2>2. CASE Tick \/ (\E d \in Devices : revoke_device(d))
      BY <2>2 DEF Tick, revoke_device
    <2>3. CASE \E s \in Syncs : collect_active_plates(s) \/ answer_sync(s)
      BY <2>3 DEF collect_active_plates, answer_sync, serverVars
    <2> QED
      BY <1>2, <2>1, <2>2, <2>3 DEF ServerStep
  <1>3. CASE PhoneStep
    <2>1. UNCHANGED serverVars
      BY <1>3 DEF PhoneStep, start_sync, receive_payload, decrypted, receive_refusal, clear_device_key,
         sync_fails, registration_fails, store_token, store_key, start_clearing, clear_key, clear_token
    <2> QED
      BY <2>1 DEF serverVars
  <1>4. CASE ScreenStep
    BY <1>4 DEF ScreenStep, start_registration, end_clearing, restart, serverVars
  <1> QED
    BY <1>1, <1>2, <1>3, <1>4 DEF SyncNext

\* What has been listed stays so.
LEMMA ListedForever ==
    ASSUME SyncTypeOK, [SyncNext]_syncVars, NEW p, WasListed(p)
    PROVE  WasListed(p)'
  <1>1. PICK r \in Rows : PlateOf[r] = p /\ row[r].status # "absent"
    BY DEF WasListed
  <1>2. row'[r].status # "absent"
    BY <1>1, RowsAreWritten DEF SyncTypeOK
  <1> QED
    BY <1>1, <1>2 DEF WasListed

\* A list that the phone caches holds nothing else.
LEMMA CacheWasListed ==
    ASSUME SyncIInv
    PROVE  /\ cache.plates \subseteq Plates /\ cache.version \in Times
           /\ \A p \in cache.plates : WasListed(p)
  <1> USE SyncAssumption
  <1>1. cache.plates \subseteq Plates /\ cache.version \in Times
    BY DEF SyncIInv, SyncTypeOK, Lists, Times
  <1>2. \A p \in cache.plates : WasListed(p)
    BY DEF SyncIInv, ReadInv, Exact, WasListed
  <1> QED
    BY <1>1, <1>2

\* Every step of the scanner is one of HotlistSync, or none.
LEMMA StepRefinesSync ==
    [Next]_allVars => [SyncNext]_syncVars
  <1> SUFFICES ASSUME [Next]_allVars PROVE [SyncNext]_syncVars
    OBVIOUS
  <1>1. CASE ScannerStep
    <2>1. ASSUME NEW g \in Registrations, mount(g) PROVE SyncNext
      BY <2>1 DEF mount, SyncNext, ScreenStep
    <2>2. CASE sign_out_end \/ app_restart
      BY <2>2 DEF sign_out_end, app_restart, SyncNext, ScreenStep
    <2>3. CASE process_frame \/ nothing_detected \/ (\E view \in Views : detected(view))
      BY <2>3 DEF process_frame, nothing_detected, detected
    <2>4. CASE handle_detection
      BY <2>4 DEF handle_detection
    <2>5. CASE raise_hit \/ enqueue_location_update \/ frame_fails
      BY <2>5 DEF raise_hit, enqueue_location_update, frame_fails
    <2> QED
      BY <1>1, <2>1, <2>2, <2>3, <2>4, <2>5 DEF ScannerStep
  <1>2. CASE (ServerStep \/ PhoneStep) /\ UNCHANGED scannerVars
    BY <1>2 DEF SyncNext
  <1>3. CASE UNCHANGED allVars
    BY <1>3 DEF allVars
  <1> QED
    BY <1>1, <1>2, <1>3 DEF Next

\* Rendering copies the phone's list, or leaves the copy as it is.
LEMMA RenderFact ==
    ASSUME SyncIInv, ScreenTypeOK, HitInv, NEW version \in Times, Render(version, cache.plates)
    PROVE  /\ copy' \subseteq Plates /\ shown' \in Times
           /\ \A p \in copy' : WasListed(p)
  BY CacheWasListed DEF Render, ScreenTypeOK, HitInv

\* After a detection comes the next one of the frame, or the frame is over.
LEMMA NextDetectionFact ==
    ASSUME IInv, frame.at \notin {"idle", "detecting"}, NextDetection
    PROVE  /\ frame' \in [at : {"idle", "handling"}, plate : DetectedPlates \cup {<<>>},
                           rest : Seq(DetectedPlates)]
           /\ frame'.at = "idle" <=> frame'.plate = <<>>
           /\ copy' \subseteq Plates /\ shown' \in Times
           /\ \A p \in copy' : WasListed(p)
  <1>1. CASE frame.rest = <<>>
    <2>1. frame' = NoFrame /\ Render(cache.version, cache.plates)
      BY <1>1 DEF NextDetection, EndFrame
    <2>2. NoFrame \in [at : {"idle", "handling"}, plate : DetectedPlates \cup {<<>>},
                       rest : Seq(DetectedPlates)]
      BY DEF NoFrame
    <2>3. cache.version \in Times
      BY CacheWasListed DEF IInv
    <2> QED
      BY <2>1, <2>2, <2>3, RenderFact DEF IInv, ScanInv, NoFrame
  <1>2. CASE frame.rest # <<>>
    <2>1. frame.rest \in Seq(DetectedPlates)
      BY DEF IInv, ScanInv, ScreenTypeOK
    <2>2. Head(frame.rest) \in DetectedPlates /\ Tail(frame.rest) \in Seq(DetectedPlates)
      BY <1>2, <2>1
    <2>3. Head(frame.rest) # <<>>
      BY <2>2, DetectedFact
    <2>4. /\ frame' = [at |-> "handling", plate |-> Head(frame.rest), rest |-> Tail(frame.rest)]
          /\ UNCHANGED <<copy, shown>>
      BY <1>2 DEF NextDetection
    <2> QED
      BY <2>2, <2>3, <2>4 DEF IInv, ScanInv, ScreenTypeOK, HitInv
  <1> QED
    BY <1>1, <1>2

-----------------------------------------------------------------------------
(* One lemma per action of the screen, in the order of the module.         *)

\* What has been listed stays so in this step.
ListedStays == \A p : WasListed(p) => WasListed(p)'

\* A new screen knows nothing but the list it copies.
LEMMA Screen_mount ==
    ASSUME IInv, ListedStays, NEW g \in Registrations, mount(g)
    PROVE  ScanInv'
  <1> USE ScannerAssumption
  <1>1. cache.plates \subseteq Plates /\ \A p \in cache.plates : WasListed(p)
    BY CacheWasListed DEF IInv
  <1>2. ScreenTypeOK'
    BY <1>1, SyncAssumption DEF IInv, ScanInv, ScreenTypeOK, mount, NoFrame, Times
  <1>3. HitInv'
    BY <1>1 DEF IInv, ScanInv, HitInv, mount, NoFrame, ListedStays
  <1>4. MatchIsQueued'
    BY DEF MatchIsQueued, mount
  <1> QED
    BY <1>2, <1>3, <1>4 DEF ScanInv

\* A frame begins.
LEMMA Screen_process_frame ==
    ASSUME IInv, ListedStays, process_frame
    PROVE  ScanInv'
  <1>1. ScreenTypeOK'
    BY DEF IInv, ScanInv, ScreenTypeOK, process_frame, NoFrame, votes
  <1>2. HitInv'
    BY DEF IInv, ScanInv, HitInv, process_frame, NoFrame, ListedStays, votes
  <1>3. MatchIsQueued'
    BY DEF IInv, ScanInv, MatchIsQueued, process_frame, NoFrame, votes
  <1> QED
    BY <1>1, <1>2, <1>3 DEF ScanInv

\* A frame ends without a plate.
LEMMA Screen_nothing_detected ==
    ASSUME IInv, ListedStays, nothing_detected
    PROVE  ScanInv'
  <1>1. frame' = NoFrame /\ Render(cache.version, cache.plates) /\ cache.version \in Times
    BY CacheWasListed DEF IInv, nothing_detected, EndFrame
  <1>2. copy' \subseteq Plates /\ shown' \in Times /\ \A p \in copy' : WasListed(p)
    BY <1>1, RenderFact DEF IInv, ScanInv
  <1>3. ScreenTypeOK'
    BY <1>1, <1>2 DEF IInv, ScanInv, ScreenTypeOK, nothing_detected, NoFrame, votes
  <1>4. HitInv'
    BY <1>1, <1>2 DEF IInv, ScanInv, HitInv, nothing_detected, NoFrame, ListedStays, votes
  <1>5. MatchIsQueued'
    BY <1>1 DEF IInv, ScanInv, MatchIsQueued, nothing_detected, NoFrame, votes
  <1> QED
    BY <1>3, <1>4, <1>5 DEF ScanInv

\* The plates of a frame are of those that may be detected.
LEMMA Screen_detected ==
    ASSUME IInv, ListedStays, NEW view \in Views, detected(view)
    PROVE  ScanInv'
  <1> DEFINE first == Detected(Head(view))
             others == [i \in 1..(Len(view) - 1) |-> Detected(view[i + 1])]
  <1>1. /\ frame' = [at |-> "handling", plate |-> first, rest |-> others]
        /\ UNCHANGED <<syncVars, reads, confirmed, matched, copy, shown, resentAt, queue, sent, errors>>
    BY DEF detected, votes
  <1>2. Head(view) = view[1]
    BY ViewsAssumption
  <1>3. first \in DetectedPlates /\ first # <<>>
    BY <1>2, ViewFact, DetectedFact
  <1>4. others \in Seq(DetectedPlates)
    <2>1. Len(view) - 1 \in Nat /\ \A i \in 1..(Len(view) - 1) : Detected(view[i + 1]) \in DetectedPlates
      BY ViewFact
    <2> QED
      BY <2>1
  <1> HIDE DEF first, others
  <1>5. ScreenTypeOK'
    BY <1>1, <1>3, <1>4 DEF IInv, ScanInv, ScreenTypeOK
  <1>6. HitInv'
    BY <1>1 DEF IInv, ScanInv, HitInv, ListedStays
  <1>7. MatchIsQueued'
    BY <1>1, detected(view) DEF IInv, ScanInv, MatchIsQueued, detected
  <1> QED
    BY <1>5, <1>6, <1>7 DEF ScanInv

\* A plate that matches is valid and on the copy; one that is matched already is decided.
LEMMA Screen_handle_detection ==
    ASSUME IInv, ListedStays, handle_detection
    PROVE  ScanInv'
  <1> USE ScannerAssumption
  <1> DEFINE plate == frame.plate
             agreed == reads'[plate] >= TEMPORAL_VOTE_THRESHOLD
             match == agreed /\ plate \notin confirmed /\ isPlateHotlisted(plate)
             resend == agreed /\ plate \in confirmed /\ now - resentAt[plate] >= ResendInterval
  <1>1. frame.at = "handling" /\ plate \in DetectedPlates /\ normalisePlate(plate) = plate /\ plate # <<>>
    <2>1. frame.at = "handling"
      BY DEF handle_detection
    <2>2. plate \in DetectedPlates
      BY <2>1 DEF IInv, ScanInv, ScreenTypeOK
    <2> QED
      BY <2>1, <2>2, DetectedFact
  <1>2. reads' \in [DetectedPlates -> 0..TEMPORAL_WINDOW_SIZE] /\ \A p \in DetectedPlates : reads'[p] >= reads[p]
    BY <1>1 DEF handle_detection, IInv, ScanInv, ScreenTypeOK, AtMost
  <1>3. /\ confirmed' = (IF agreed THEN confirmed \cup {plate} ELSE confirmed)
        /\ matched' = (IF match THEN matched \cup {plate} ELSE matched)
        /\ UNCHANGED <<syncVars, resentAt, queue, sent, errors>>
    BY DEF handle_detection
  <1>4. \/ match /\ Await("matched")
        \/ ~match /\ resend /\ Await("resending")
        \/ ~match /\ NextDetection
    BY DEF handle_detection
  <1>5. match => plate \in copy /\ is_valid_plate(plate) /\ agreed
    BY <1>1 DEF isPlateHotlisted
  <1>6. resend => agreed
    OBVIOUS
  <1>7. /\ \A p \in confirmed : p \in DetectedPlates /\ reads'[p] >= TEMPORAL_VOTE_THRESHOLD
        /\ matched \subseteq confirmed
    BY <1>2 DEF IInv, ScanInv, ScreenTypeOK
  <1> HIDE DEF match, resend, agreed
  <1>8. confirmed' \subseteq {p \in DetectedPlates : reads'[p] >= TEMPORAL_VOTE_THRESHOLD}
    BY <1>1, <1>3, <1>7 DEF agreed
  <1>9. matched' \subseteq confirmed'
    BY <1>3, <1>5, <1>7
  <1>10. CASE Await("matched") /\ match
    <2>1. frame' = [frame EXCEPT !.at = "matched"] /\ UNCHANGED <<copy, shown>>
      BY <1>10 DEF Await
    <2>2. /\ frame' \in [at : {"matched"}, plate : DetectedPlates, rest : Seq(DetectedPlates)]
          /\ frame'.at = "matched" /\ frame'.plate = plate
      BY <1>1, <2>1 DEF IInv, ScanInv, ScreenTypeOK
    <2>3. ScreenTypeOK'
      BY <1>1, <1>2, <1>3, <1>5, <1>8, <1>9, <1>10, <2>1, <2>2 DEF IInv, ScanInv, ScreenTypeOK
    <2>4. HitInv'
      BY <1>3, <1>5, <1>10, <2>1, <2>2 DEF IInv, ScanInv, HitInv, ListedStays
    <2>5. MatchIsQueued'
      BY <1>1, <1>3, <2>1, <2>2 DEF IInv, ScanInv, MatchIsQueued
    <2> QED
      BY <2>3, <2>4, <2>5 DEF ScanInv
  <1>11. CASE Await("resending") /\ resend /\ ~match
    <2>1. frame' = [frame EXCEPT !.at = "resending"] /\ UNCHANGED <<copy, shown>>
      BY <1>11 DEF Await
    <2>2. /\ frame' \in [at : {"resending"}, plate : DetectedPlates, rest : Seq(DetectedPlates)]
          /\ frame'.at = "resending" /\ frame'.plate = plate
      BY <1>1, <2>1 DEF IInv, ScanInv, ScreenTypeOK
    <2>3. ScreenTypeOK'
      BY <1>1, <1>2, <1>3, <1>6, <1>8, <1>9, <1>11, <2>1, <2>2 DEF IInv, ScanInv, ScreenTypeOK
    <2>4. HitInv'
      BY <1>3, <1>11, <2>1, <2>2 DEF IInv, ScanInv, HitInv, ListedStays
    <2>5. MatchIsQueued'
      BY <1>1, <1>3, <1>11, <2>1, <2>2 DEF IInv, ScanInv, MatchIsQueued
    <2> QED
      BY <2>3, <2>4, <2>5 DEF ScanInv
  <1>12. CASE NextDetection /\ ~match
    <2>1. /\ frame' \in [at : {"idle", "handling"}, plate : DetectedPlates \cup {<<>>},
                          rest : Seq(DetectedPlates)]
          /\ frame'.at = "idle" <=> frame'.plate = <<>>
          /\ copy' \subseteq Plates /\ shown' \in Times
          /\ \A p \in copy' : WasListed(p)
      BY <1>1, <1>12, NextDetectionFact
    <2>2. ScreenTypeOK'
      BY <1>2, <1>3, <1>8, <1>9, <2>1 DEF IInv, ScanInv, ScreenTypeOK
    <2>3. HitInv'
      BY <1>3, <1>12, <2>1 DEF IInv, ScanInv, HitInv, ListedStays
    <2>4. MatchIsQueued'
      BY <1>1, <1>3, <1>12, <2>1 DEF IInv, ScanInv, MatchIsQueued
    <2> QED
      BY <2>2, <2>3, <2>4 DEF ScanInv
  <1> QED
    BY <1>4, <1>10, <1>11, <1>12

\* What is raised was matched, so it is a valid plate that has been listed.
LEMMA Screen_raise_hit ==
    ASSUME IInv, ListedStays, raise_hit
    PROVE  ScanInv'
  <1>1. /\ frame' \in [at : {"idle", "handling"}, plate : DetectedPlates \cup {<<>>},
                        rest : Seq(DetectedPlates)]
        /\ frame'.at = "idle" <=> frame'.plate = <<>>
        /\ copy' \subseteq Plates /\ shown' \in Times
        /\ \A p \in copy' : WasListed(p)
    BY NextDetectionFact DEF raise_hit
  <1> DEFINE item == Row("hit")
  <1>2. /\ queue' = queue \cup {item} /\ sent' \subseteq sent \cup {frame.plate}
        /\ UNCHANGED <<reads, confirmed, matched, resentAt, errors>>
    BY DEF raise_hit, votes
  <1>3. frame.at = "matched" /\ frame.plate \in matched /\ frame.plate \in DetectedPlates
    BY DEF raise_hit, IInv, ScanInv, ScreenTypeOK, HitInv
  <1>4. /\ item \in [plate : DetectedPlates, kind : {"hit", "update"}, at : Times]
        /\ item.plate = frame.plate /\ item.kind = "hit"
    BY <1>3 DEF Row, IInv, SyncIInv, SyncTypeOK
  <1> HIDE DEF item
  <1>5. ScreenTypeOK'
    <2>1. queue' \subseteq [plate : DetectedPlates, kind : {"hit", "update"}, at : Times]
      BY <1>2, <1>4 DEF IInv, ScanInv, ScreenTypeOK
    <2>2. \A p \in sent' : \E i \in queue' : i.plate = p
      BY <1>2, <1>4 DEF IInv, ScanInv, ScreenTypeOK
    <2> QED
      BY <1>1, <1>2, <2>1, <2>2 DEF IInv, ScanInv, ScreenTypeOK
  <1>6. HitInv'
    BY <1>1, <1>2, <1>3, <1>4 DEF IInv, ScanInv, HitInv, ListedStays
  <1>7. MatchIsQueued'
    BY <1>2, <1>3, <1>4 DEF IInv, ScanInv, MatchIsQueued
  <1> QED
    BY <1>5, <1>6, <1>7 DEF ScanInv

\* A location update is no hit.
LEMMA Screen_enqueue_location_update ==
    ASSUME IInv, ListedStays, enqueue_location_update
    PROVE  ScanInv'
  <1> USE SyncAssumption, ScannerAssumption
  <1>1. /\ frame' \in [at : {"idle", "handling"}, plate : DetectedPlates \cup {<<>>},
                        rest : Seq(DetectedPlates)]
        /\ frame'.at = "idle" <=> frame'.plate = <<>>
        /\ copy' \subseteq Plates /\ shown' \in Times
        /\ \A p \in copy' : WasListed(p)
    BY NextDetectionFact DEF enqueue_location_update
  <1> DEFINE item == Row("update")
  <1>2. /\ queue' = queue \cup {item} /\ resentAt' = [resentAt EXCEPT ![frame.plate] = now]
        /\ UNCHANGED <<reads, confirmed, matched, sent, errors>>
    BY DEF enqueue_location_update, votes
  <1>3. frame.at = "resending" /\ frame.plate \in DetectedPlates /\ now \in Times
    BY DEF enqueue_location_update, IInv, ScanInv, ScreenTypeOK, SyncIInv, SyncTypeOK
  <1>4. /\ item \in [plate : DetectedPlates, kind : {"hit", "update"}, at : Times]
        /\ item.kind = "update"
    BY <1>3 DEF Row
  <1> HIDE DEF item
  <1>5. ScreenTypeOK'
    <2>1. queue' \subseteq [plate : DetectedPlates, kind : {"hit", "update"}, at : Times]
      BY <1>2, <1>4 DEF IInv, ScanInv, ScreenTypeOK
    <2>2. \A p \in sent' : \E i \in queue' : i.plate = p
      BY <1>2 DEF IInv, ScanInv, ScreenTypeOK
    <2>3. resentAt' \in [DetectedPlates -> (-ResendInterval)..MaxTime]
      BY <1>2, <1>3 DEF IInv, ScanInv, ScreenTypeOK, Times
    <2> QED
      BY <1>1, <1>2, <2>1, <2>2, <2>3 DEF IInv, ScanInv, ScreenTypeOK
  <1>6. HitInv'
    BY <1>1, <1>2, <1>4 DEF IInv, ScanInv, HitInv, ListedStays
  <1>7. MatchIsQueued'
    BY <1>2, <1>3 DEF IInv, ScanInv, MatchIsQueued
  <1> QED
    BY <1>5, <1>6, <1>7 DEF ScanInv

\* After an error MatchIsQueued promises nothing.
LEMMA Screen_frame_fails ==
    ASSUME IInv, ListedStays, frame_fails
    PROVE  ScanInv'
  <1>1. ScreenTypeOK'
    BY DEF IInv, ScanInv, ScreenTypeOK, frame_fails, NoFrame, votes
  <1>2. HitInv'
    BY DEF IInv, ScanInv, HitInv, frame_fails, NoFrame, ListedStays, votes
  <1>3. MatchIsQueued'
    BY DEF IInv, ScanInv, HitInv, MatchIsQueued, frame_fails
  <1> QED
    BY <1>1, <1>2, <1>3 DEF ScanInv

\* The end of a sign-out renders the list.
LEMMA Screen_sign_out_end ==
    ASSUME IInv, ListedStays, sign_out_end
    PROVE  ScanInv'
  <1>1. Render(0, cache.plates) /\ 0 \in Times
    BY SyncAssumption DEF sign_out_end, Times
  <1>2. copy' \subseteq Plates /\ shown' \in Times /\ \A p \in copy' : WasListed(p)
    BY <1>1, RenderFact DEF IInv, ScanInv
  <1>3. ScreenTypeOK'
    BY <1>2 DEF IInv, ScanInv, ScreenTypeOK, sign_out_end, votes
  <1>4. HitInv'
    BY <1>2 DEF IInv, ScanInv, HitInv, sign_out_end, ListedStays, votes
  <1>5. MatchIsQueued'
    BY DEF IInv, ScanInv, MatchIsQueued, sign_out_end, votes
  <1> QED
    BY <1>3, <1>4, <1>5 DEF ScanInv

\* What is on disk stays.
LEMMA Screen_app_restart ==
    ASSUME IInv, ListedStays, app_restart
    PROVE  ScanInv'
  <1> USE SyncAssumption, ScannerAssumption
  <1>1. ScreenTypeOK'
    BY DEF IInv, ScanInv, ScreenTypeOK, app_restart, NoFrame, Times
  <1>2. HitInv'
    BY DEF IInv, ScanInv, HitInv, app_restart, NoFrame, ListedStays
  <1>3. MatchIsQueued'
    BY DEF MatchIsQueued, app_restart
  <1> QED
    BY <1>1, <1>2, <1>3 DEF ScanInv

-----------------------------------------------------------------------------
(* The copy and the version that the screen shows.                         *)

\* Without an overlap, a phone without a key has no list, and a list that comes is newer
\* than the one it replaces.  The copy is the list of the version shown, or a newer list
\* has come; or the list was wiped, and then no sync brings another one before the screen
\* has shown version 0: the key is gone, and the token that stays keeps the phone from
\* registering until a sign-out is over.
CopyInv ==
    ~overlapped =>
        /\ ~Busy /\ key = 0 => cache.version = 0
        /\ \A s \in Syncs :
              /\ sync[s].at = "forgetting" => cache.version = 0
              /\ sync[s].at = "decrypting" => sync[s].payload.version > cache.version
        /\ \A g \in Registrations : registering[g].at # "idle" => cache.version = 0 /\ shown = 0
        /\ clearing # "no" => cache.version = 0
        /\ shown # 0 =>
              \/ shown <= cache.version /\ (shown = cache.version => copy = cache.plates)
              \/ /\ cache.version = 0
                 /\ \/ clearing # "no"
                    \/ \E s \in Syncs : sync[s].at = "forgetting"
                    \/ key = 0 /\ token # 0

\* The types that the steps below need.
LEMMA CopyTypes ==
    ASSUME IInv
    PROVE  /\ cache.version \in Nat /\ shown \in Nat
           /\ sync \in [Syncs -> SyncCall] /\ registering \in [Registrations -> [at : {"idle", "granted", "stored"}, device : 0..MaxDevices]]
           /\ \A s \in Syncs : sync[s].payload.version \in Nat
           /\ overlapped \in BOOLEAN
  BY SyncAssumption DEF IInv, SyncIInv, SyncTypeOK, SyncCall, Lists, ScanInv, ScreenTypeOK, Times

\* The list, the calls and the store are as before: what the screen shows decides.
LEMMA ScreenAlone ==
    ASSUME IInv, CopyInv, UNCHANGED <<token, key, cache, sync, registering, clearing, overlapped>>,
           \/ UNCHANGED <<copy, shown>>
           \/ shown' = 0
           \/ Render(cache.version, cache.plates)
    PROVE  CopyInv'
  <1>1. Busy' = Busy
    BY DEF Busy
  <1>2. cache.version \in Nat
    BY CopyTypes
  <1>3. shown' # 0 /\ ~UNCHANGED <<copy, shown>> =>
            shown' = cache.version /\ copy' = IF cache.version # shown THEN cache.plates ELSE copy
    BY DEF Render
  <1>4. shown' # 0 /\ ~overlapped =>
            \/ shown' <= cache.version /\ (shown' = cache.version => copy' = cache.plates)
            \/ /\ cache.version = 0
               /\ \/ clearing # "no"
                  \/ \E s \in Syncs : sync[s].at = "forgetting"
                  \/ key = 0 /\ token # 0
    BY <1>2, <1>3 DEF CopyInv
  <1>5. ASSUME ~overlapped, NEW g \in Registrations, registering[g].at # "idle"
        PROVE  cache.version = 0 /\ shown' = 0
    BY <1>5, <1>3 DEF CopyInv
  <1> QED
    BY <1>1, <1>4, <1>5 DEF CopyInv

\* Nothing moves but the server.
LEMMA Copy_server ==
    ASSUME IInv, CopyInv, UNCHANGED scannerVars, Tick \/ (\E r \in Rows : list_row(r) \/ change_row(r))
                                                  \/ (\E d \in Devices : revoke_device(d))
    PROVE  CopyInv'
  <1>1. UNCHANGED <<token, key, cache, sync, registering, clearing, overlapped>>
    BY DEF Tick, list_row, change_row, write_row, revoke_device, phoneVars, storeVars
  <1> QED
    BY <1>1, ScreenAlone DEF scannerVars

\* The two reads of the server.
LEMMA Copy_reads ==
    ASSUME IInv, CopyInv, UNCHANGED scannerVars, NEW s \in Syncs,
           collect_active_plates(s) \/ answer_sync(s)
    PROVE  CopyInv'
  <1>1. /\ UNCHANGED <<token, key, cache, registering, clearing, overlapped, shown, copy>>
        /\ sync \in [Syncs -> SyncCall]
    BY CopyTypes DEF collect_active_plates, answer_sync, storeVars, scannerVars
  <1>2. sync[s].at \in {"asked", "listed"}
    BY DEF collect_active_plates, answer_sync
  <1>3. /\ \A t \in Syncs : t # s => sync'[t] = sync[t]
        /\ sync'[s].at \in {"listed", "refused", "answered"}
    BY <1>1 DEF collect_active_plates, answer_sync, Advance, SyncCall
  <1>4. ~overlapped => Busy /\ Busy'
    BY <1>2, <1>3 DEF Busy
  <1> QED
    BY <1>1, <1>2, <1>3, <1>4 DEF CopyInv

\* A sync begins with a key, and so after no wipe.
LEMMA Copy_start_sync ==
    ASSUME IInv, CopyInv, UNCHANGED scannerVars, NEW s \in Syncs, start_sync(s)
    PROVE  CopyInv'
  <1>1. /\ UNCHANGED <<token, key, cache, registering, clearing, shown, copy>>
        /\ sync \in [Syncs -> SyncCall] /\ key # 0 /\ overlapped \in BOOLEAN
    BY CopyTypes DEF start_sync, storeVars, scannerVars
  <1>2. ~overlapped' => ~overlapped /\ ~Busy
    BY DEF start_sync
  <1>3. sync'[s].at = "asked" /\ \A t \in Syncs : t # s => sync'[t] = sync[t]
    BY <1>1 DEF start_sync
  <1>4. Busy'
    BY <1>3 DEF Busy
  <1> QED
    BY <1>1, <1>2, <1>3, <1>4 DEF CopyInv, Busy

\* The payload that is decrypted is newer than the list.
LEMMA Copy_receive_payload ==
    ASSUME IInv, CopyInv, UNCHANGED scannerVars, NEW s \in Syncs, receive_payload(s)
    PROVE  CopyInv'
  <1>1. /\ UNCHANGED <<token, key, cache, registering, clearing, overlapped, shown, copy>>
        /\ sync \in [Syncs -> SyncCall] /\ sync[s].at = "answered" /\ cache.version \in Nat
    BY CopyTypes DEF receive_payload, storeVars, scannerVars
  <1>2. \A t \in Syncs : t # s => sync'[t] = sync[t]
    BY <1>1 DEF receive_payload, Return, Advance
  <1>3. \/ sync'[s].at = "idle"
        \/ sync'[s].at = "decrypting" /\ sync'[s].payload.version > cache.version
    <2>1. sync[s].payload.version \in Nat
      BY CopyTypes
    <2> QED
      BY <1>1, <2>1 DEF receive_payload, Return, Advance, NoSync, SyncCall
  <1>4. ~overlapped => key # 0
    BY <1>1 DEF IInv, SyncIInv, AloneInv
  <1> QED
    BY <1>1, <1>2, <1>3, <1>4 DEF CopyInv

\* A newer list replaces the one whose version was shown.
LEMMA Copy_decrypted ==
    ASSUME IInv, CopyInv, UNCHANGED scannerVars, NEW s \in Syncs, decrypted(s)
    PROVE  CopyInv'
  <1>1. /\ UNCHANGED <<token, key, registering, clearing, overlapped, shown, copy>>
        /\ sync \in [Syncs -> SyncCall] /\ sync[s].at = "decrypting"
        /\ cache.version \in Nat /\ shown \in Nat /\ sync[s].payload.version \in Nat
    BY CopyTypes DEF decrypted, storeVars, scannerVars
  <1>2. cache' = cache \/ cache' = sync[s].payload
    BY DEF decrypted
  <1>3. sync'[s].at = "idle" /\ \A t \in Syncs : t # s => sync'[t] = sync[t]
    BY <1>1 DEF decrypted, Return, NoSync
  <1>4. ~overlapped =>
            /\ key # 0 /\ clearing = "no"
            /\ \A t \in Syncs : t # s => sync[t].at = "idle"
            /\ \A g \in Registrations : registering[g].at = "idle"
    BY <1>1 DEF IInv, SyncIInv, AloneInv, OneCall
  <1>5. ~overlapped => sync[s].payload.version > cache.version
    BY <1>1 DEF CopyInv
  <1>6. ~overlapped /\ shown # 0 => shown <= cache.version /\ (shown = cache.version => copy = cache.plates)
    BY <1>1, <1>4 DEF CopyInv
  <1>7. ~overlapped /\ shown # 0 => shown <= cache'.version /\ (shown = cache'.version => copy = cache'.plates)
    BY <1>1, <1>2, <1>5, <1>6
  <1> QED
    BY <1>1, <1>3, <1>4, <1>7 DEF CopyInv

\* A refusal wipes the list, and the sync goes on to forget the key.
LEMMA Copy_receive_refusal ==
    ASSUME IInv, CopyInv, UNCHANGED scannerVars, NEW s \in Syncs, receive_refusal(s)
    PROVE  CopyInv'
  <1>1. /\ UNCHANGED <<token, key, registering, clearing, overlapped, shown, copy>>
        /\ sync \in [Syncs -> SyncCall] /\ sync[s].at = "refused"
        /\ cache'.version = 0
    BY CopyTypes DEF receive_refusal, storeVars, scannerVars, Empty
  <1>2. sync'[s].at = "forgetting" /\ \A t \in Syncs : t # s => sync'[t] = sync[t]
    BY <1>1 DEF receive_refusal, Advance, SyncCall
  <1>3. ~overlapped => \A t \in Syncs : t # s => sync[t].at = "idle"
    BY <1>1 DEF IInv, SyncIInv, AloneInv, OneCall
  <1> QED
    BY <1>1, <1>2, <1>3 DEF CopyInv

\* The key goes and the token stays.
LEMMA Copy_clear_device_key ==
    ASSUME IInv, CopyInv, UNCHANGED scannerVars, NEW s \in Syncs, clear_device_key(s)
    PROVE  CopyInv'
  <1>1. /\ UNCHANGED <<token, cache, registering, clearing, overlapped, shown, copy>>
        /\ sync \in [Syncs -> SyncCall] /\ sync[s].at = "forgetting" /\ key' = 0
    BY CopyTypes DEF clear_device_key, storeVars, scannerVars
  <1>2. sync'[s].at = "idle" /\ \A t \in Syncs : t # s => sync'[t] = sync[t]
    BY <1>1 DEF clear_device_key, Return, NoSync
  <1>3. ~overlapped =>
            /\ token # 0 /\ cache.version = 0
            /\ \A t \in Syncs : t # s => sync[t].at = "idle"
    BY <1>1 DEF IInv, SyncIInv, AloneInv, OneCall, CopyInv
  <1> QED
    BY <1>1, <1>2, <1>3 DEF CopyInv

\* A sync that fails leaves what it found.
LEMMA Copy_sync_fails ==
    ASSUME IInv, CopyInv, UNCHANGED scannerVars, NEW s \in Syncs, sync_fails(s)
    PROVE  CopyInv'
  <1>1. /\ UNCHANGED <<token, key, cache, registering, clearing, overlapped, shown, copy>>
        /\ sync \in [Syncs -> SyncCall] /\ sync[s].at \notin {"idle", "forgetting"}
    BY CopyTypes DEF sync_fails, storeVars, scannerVars
  <1>2. sync'[s].at = "idle" /\ \A t \in Syncs : t # s => sync'[t] = sync[t]
    BY <1>1 DEF sync_fails, Return, NoSync
  <1>3. ~overlapped => key # 0
    BY <1>1 DEF IInv, SyncIInv, AloneInv
  <1> QED
    BY <1>1, <1>2, <1>3 DEF CopyInv

\* A registration runs on a screen that shows version 0, and without a list.
LEMMA Copy_registration ==
    ASSUME IInv, CopyInv, UNCHANGED scannerVars, NEW g \in Registrations,
           registration_fails(g) \/ store_token(g) \/ store_key(g)
    PROVE  CopyInv'
  <1>1. /\ UNCHANGED <<cache, sync, clearing, overlapped, shown, copy>>
        /\ registering[g].at # "idle"
        /\ registering \in [Registrations -> [at : {"idle", "granted", "stored"}, device : 0..MaxDevices]]
    BY CopyTypes DEF registration_fails, store_token, store_key, scannerVars
  <1>2. \A h \in Registrations : h # g => registering'[h] = registering[h]
    BY <1>1 DEF registration_fails, store_token, store_key
  <1>3. ~overlapped => cache.version = 0 /\ shown = 0
    BY <1>1 DEF CopyInv
  <1> QED
    BY <1>1, <1>2, <1>3 DEF CopyInv

\* A sign-out wipes the list first, and goes on until the screen shows version 0.
LEMMA Copy_clearing ==
    ASSUME IInv, CopyInv, UNCHANGED scannerVars, start_clearing \/ clear_key \/ clear_token
    PROVE  CopyInv'
  <1>1. /\ UNCHANGED <<sync, registering, shown, copy>> /\ clearing' # "no"
        /\ ~overlapped' => ~overlapped
    BY CopyTypes DEF start_clearing, clear_key, clear_token, scannerVars
  <1>2. ~overlapped' => cache'.version = 0
    BY <1>1 DEF start_clearing, clear_key, clear_token, CopyInv, Empty
  <1>3. ~overlapped' => \A s \in Syncs : sync[s].at = "idle"
    <2>1. CASE start_clearing
      BY <2>1 DEF start_clearing, Busy
    <2>2. CASE clear_key \/ clear_token
      BY <1>1, <2>2 DEF clear_key, clear_token, IInv, SyncIInv, AloneInv, OneCall
    <2> QED
      BY <2>1, <2>2
  <1> QED
    BY <1>1, <1>2, <1>3 DEF CopyInv, Busy

\* A new screen shows version 0 until its first frame is over.
LEMMA Copy_mount ==
    ASSUME IInv, CopyInv, NEW g \in Registrations, mount(g)
    PROVE  CopyInv'
  <1>1. /\ start_registration(g) /\ shown' = 0
        /\ UNCHANGED <<token, key, cache, sync, clearing>>
        /\ registering \in [Registrations -> [at : {"idle", "granted", "stored"}, device : 0..MaxDevices]]
    BY CopyTypes DEF mount, start_registration
  <1>2. CASE token # 0
    BY <1>1, <1>2 DEF start_registration, CopyInv, Busy
  <1>3. CASE token = 0
    <2>1. /\ overlapped' = (overlapped \/ Busy)
          /\ \A h \in Registrations : h # g => registering'[h] = registering[h]
          /\ registering'[g].at = "granted"
      BY <1>1, <1>3 DEF start_registration
    <2>2. ~overlapped' => ~overlapped /\ ~Busy
      BY <2>1
    <2>3. ~overlapped' => key = 0 /\ cache.version = 0
      BY <1>3, <2>2 DEF IInv, SyncIInv, AloneInv, CopyInv
    <2> QED
      BY <1>1, <2>1, <2>2, <2>3 DEF CopyInv, Busy
  <1> QED
    BY <1>2, <1>3

\* The end of a sign-out shows version 0.
LEMMA Copy_sign_out_end ==
    ASSUME IInv, CopyInv, sign_out_end
    PROVE  CopyInv'
  BY DEF sign_out_end, end_clearing, Render, CopyInv, Busy

\* A new start of the app has no list and shows version 0.
LEMMA Copy_app_restart ==
    ASSUME IInv, CopyInv, app_restart
    PROVE  CopyInv'
  BY DEF app_restart, restart, CopyInv, NoSync, NoRegistration, Empty

\* The other steps of the screen render the list, or nothing.
LEMMA Copy_screen ==
    ASSUME IInv, CopyInv,
           \/ process_frame \/ nothing_detected \/ (\E view \in Views : detected(view))
           \/ handle_detection \/ raise_hit \/ enqueue_location_update \/ frame_fails
    PROVE  CopyInv'
  <1>1. UNCHANGED syncVars
    BY DEF process_frame, nothing_detected, detected, handle_detection, raise_hit,
       enqueue_location_update, frame_fails
  <1>2. UNCHANGED <<copy, shown>> \/ Render(cache.version, cache.plates)
    <2>1. NextDetection => UNCHANGED <<copy, shown>> \/ Render(cache.version, cache.plates)
      BY DEF NextDetection, EndFrame
    <2>2. CASE handle_detection
      BY <2>1, <2>2 DEF handle_detection, Await
    <2> QED
      BY <2>1, <2>2 DEF process_frame, nothing_detected, detected, EndFrame, raise_hit,
         enqueue_location_update, frame_fails
  <1> QED
    BY <1>1, <1>2, ScreenAlone DEF syncVars, phoneVars, storeVars

\* Every step keeps it.
LEMMA CopyNext ==
    IInv /\ CopyInv /\ [Next]_allVars => CopyInv'
  <1> SUFFICES ASSUME IInv, CopyInv, [Next]_allVars PROVE CopyInv'
    OBVIOUS
  <1>1. CASE ScannerStep
    BY <1>1, Copy_mount, Copy_sign_out_end, Copy_app_restart, Copy_screen DEF ScannerStep
  <1>2. CASE ServerStep /\ UNCHANGED scannerVars
    BY <1>2, Copy_server, Copy_reads DEF ServerStep
  <1>3. CASE PhoneStep /\ UNCHANGED scannerVars
    BY <1>3, Copy_start_sync, Copy_receive_payload, Copy_decrypted, Copy_receive_refusal,
       Copy_clear_device_key, Copy_sync_fails, Copy_registration, Copy_clearing DEF PhoneStep
  <1>4. CASE UNCHANGED allVars
    BY <1>4, ScreenAlone DEF allVars, syncVars, phoneVars, storeVars, scannerVars
  <1> QED
    BY <1>1, <1>2, <1>3, <1>4 DEF Next

-----------------------------------------------------------------------------
(* The theorems.                                                           *)

\* The invariant holds at the start.
LEMMA InitIInv ==
    Init => IInv
  <1> USE SyncAssumption, ScannerAssumption
  <1> SUFFICES ASSUME Init PROVE IInv
    OBVIOUS
  <1>1. SyncIInv
    BY SyncInitIInv DEF Init
  <1>2. NoFrame \in [at : {"idle"}, plate : {<<>>}, rest : Seq(DetectedPlates)]
    BY DEF NoFrame
  <1>3. ScreenTypeOK
    BY <1>2 DEF Init, ScreenTypeOK, Times
  <1>4. HitInv
    BY <1>2 DEF Init, HitInv
  <1>5. MatchIsQueued
    BY DEF Init, MatchIsQueued
  <1> QED
    BY <1>1, <1>3, <1>4, <1>5 DEF IInv, ScanInv

\* Every step keeps it.
LEMMA NextIInv ==
    IInv /\ [Next]_allVars => IInv'
  <1> SUFFICES ASSUME IInv, [Next]_allVars PROVE IInv'
    OBVIOUS
  <1>1. SyncIInv'
    BY StepRefinesSync, SyncNextIInv DEF IInv
  <1>2. ListedStays
    BY StepRefinesSync, ListedForever DEF IInv, SyncIInv, ListedStays
  <1>3. CASE ScannerStep
    BY <1>1, <1>2, <1>3, Screen_mount, Screen_process_frame, Screen_nothing_detected, Screen_detected,
       Screen_handle_detection, Screen_raise_hit, Screen_enqueue_location_update, Screen_frame_fails,
       Screen_sign_out_end, Screen_app_restart DEF ScannerStep, IInv
  <1>4. CASE UNCHANGED scannerVars
    <2>1. ScreenTypeOK'
      BY <1>4 DEF IInv, ScanInv, ScreenTypeOK, scannerVars
    <2>2. HitInv'
      BY <1>2, <1>4 DEF IInv, ScanInv, HitInv, ListedStays, scannerVars
    <2>3. MatchIsQueued'
      BY <1>4 DEF IInv, ScanInv, MatchIsQueued, scannerVars
    <2> QED
      BY <1>1, <2>1, <2>2, <2>3 DEF IInv, ScanInv
  <1> QED
    BY <1>3, <1>4 DEF Next, allVars

\* The invariant holds in every reachable state.
LEMMA Invariance ==
    Spec => []IInv
  BY InitIInv, NextIInv, PTL DEF Spec

\* The scanner's behaviours are behaviours of HotlistSync: what the screen does with the
\* list never gets in the way of how the list comes to the phone.
THEOREM ScannerImplementsSync ==
    Spec => SyncSpec
  <1>1. Init => SyncInit
    BY DEF Init
  <1> QED
    BY <1>1, StepRefinesSync, PTL DEF Spec, SyncSpec

\* Everything is of its type, and a plate that was sent was queued before.
THEOREM TypeCorrect ==
    Spec => []TypeOK
  <1>1. IInv => TypeOK
    BY TypesTogether DEF IInv, SyncIInv, ScanInv
  <1> QED
    BY <1>1, Invariance, PTL

\* Whatever OCR reads, and however the list changes or is wiped under the scanner, only
\* plates that have been on the hotlist leave the phone.
THEOREM OthersStayOnThePhone ==
    Spec => []OnlyListedIsSent
  <1>1. IInv => OnlyListedIsSent
    BY DEF IInv, ScanInv, HitInv, OnlyListedIsSent, WasListed
  <1> QED
    BY <1>1, Invariance, PTL

\* A match is queued in every interleaving without an exception in a frame.
THEOREM MatchesAreQueued ==
    Spec => []MatchIsQueued
  <1>1. IInv => MatchIsQueued
    BY DEF IInv, ScanInv
  <1> QED
    BY <1>1, Invariance, PTL

\* The server finds a hit under the very plate the phone sent.
THEOREM OneFormOfAPlate ==
    Spec => []PlateStaysTheSame
  <1>1. ASSUME IInv, NEW p \in sent PROVE normalise_plate(p) = p
    BY <1>1 DEF IInv, ScanInv, HitInv, normalise_plate, Normalised
  <1>2. ASSUME IInv, NEW p \in confirmed PROVE normalisePlate(p) = p
    BY <1>2, DetectedFact DEF IInv, ScanInv, ScreenTypeOK
  <1>3. IInv => PlateStaysTheSame
    BY <1>1, <1>2 DEF PlateStaysTheSame
  <1> QED
    BY <1>3, Invariance, PTL

\* As long as the phone's functions do not overlap, the plates the scanner matches against
\* are those of the list whose version it shows, however often the list is replaced, wiped
\* and fetched again.
THEOREM CopyIsCurrent ==
    Spec => []CopyIsTheList
  <1>1. Init => CopyInv
    BY DEF Init, SyncInit, CopyInv, NoSync, NoRegistration, Empty
  <1>2. Spec => []CopyInv
    BY <1>1, Invariance, CopyNext, PTL DEF Spec
  <1>3. IInv /\ CopyInv => CopyIsTheList
    BY CopyTypes DEF CopyInv, CopyIsTheList
  <1> QED
    BY <1>2, <1>3, Invariance, PTL
=============================================================================
