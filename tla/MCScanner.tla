----------------------------- MODULE MCScanner -----------------------------
(* Instances of Scanner for TLC.                                           *)
EXTENDS Scanner, TLC

CONSTANT r1

Listed == <<"A", "A", "0", "O", "A", "0", "8", "0", "0">>

OneRow == {r1}
OnePlate == r1 :> Listed
OneSync == {1}
OneRegistration == {1}

\* The listed plate with a digit taken for a letter, and a part of it; a frame may hold
\* both, and one of them twice.
Misread == [Listed EXCEPT ![7] = "B"]
Part == SubSeq(Misread, 1, 7)
SomeViews == {<<Misread>>, <<Misread, Part, Misread>>}

MCLetters == {"A", "B", "O"}
MCDigits == {"0", "8"}
MCOtherLetters == {"accented"}
MCOtherDigits == {"superscript"}
MCDigitCorrections == "O" :> "0" @@ "B" :> "8"
MCAlphaCorrections == "0" :> "O"

\* A frame that fails is followed in runs where nothing else goes wrong: the app is not
\* killed and no two of the phone's functions overlap.
FailedFrameBound == errors = 0 \/ (restarts = 0 /\ ~overlapped)
=============================================================================
