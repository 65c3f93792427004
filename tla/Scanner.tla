------------------------------ MODULE Scanner ------------------------------
(***************************************************************************)
(* The scanner screen of the phone: frames, votes, its own copy of the      *)
(* hotlist, hits and location updates, together with the functions of       *)
(* HotlistSync that change the list under it and with the corrections of    *)
(* PlateNormaliser that a plate passes through on its way.                  *)
(*                                                                         *)
(* What a post of a hit does from the queue on is HitDelivery; here it is   *)
(* the set of plates that left the phone.                                   *)
(***************************************************************************)
EXTENDS HotlistSync, PlateNormaliser

CONSTANTS
    Views,             \* what OCR may read in a frame: sequences of one read or more
    TEMPORAL_WINDOW_SIZE,
    TEMPORAL_VOTE_THRESHOLD,
    ResendInterval,    \* LOCATION_RESEND_INTERVAL_MS, in units of the clock
    MaxFrames,         \* bound on the frames processed
    MaxFrameErrors     \* bound on frames that end in an exception

ASSUME ScannerAssumption ==
    /\ TEMPORAL_WINDOW_SIZE \in Nat /\ TEMPORAL_VOTE_THRESHOLD \in 1..TEMPORAL_WINDOW_SIZE
    /\ ResendInterval \in Nat
    /\ MaxFrames \in Nat /\ MaxFrameErrors \in Nat

\* An empty read is passed over by the server and by the phone.
ASSUME ViewsAssumption ==
    \A view \in Views : view # <<>> /\ view \in Seq(Seq(Characters) \ {<<>>})

VARIABLES
    frame,     \* the frame being processed: how far, the plate it is about, the plates left
    reads,     \* trackerVotes: how many reads of a plate its window holds
    confirmed, \* trackerVotes: plates whose vote has been decided
    matched,   \* those of them that were on the scanner's copy of the list
    copy,      \* hotlistRef
    shown,     \* hotlistVersion, the version the screen shows
    resentAt,  \* lastResendAt
    queue,     \* rows of the offline queue: plate, kind and time
    sent,      \* plates posted to the server
    frames, errors

scannerVars == <<frame, reads, confirmed, matched, copy, shown, resentAt, queue, sent, frames, errors>>
votes == <<reads, confirmed, matched>>
allVars == <<syncVars, scannerVars>>

-----------------------------------------------------------------------------
\* The detect endpoint corrects what it read, the phone corrects the answer, and
\* handleDetection corrects it once more.
Detected(read) == normalisePlate(normalisePlate(normalise_plate(read)))

DetectedPlates == UNION {{Detected(view[i]) : i \in DOMAIN view} : view \in Views}

NoFrame == [at |-> "idle", plate |-> <<>>, rest |-> <<>>]

Init ==
    /\ SyncInit
    /\ frame = NoFrame
    /\ reads = [p \in DetectedPlates |-> 0]
    /\ confirmed = {} /\ matched = {}
    /\ copy = {} /\ shown = 0
    /\ resentAt = [p \in DetectedPlates |-> -ResendInterval]
    /\ queue = {} /\ sent = {}
    /\ frames = 0 /\ errors = 0

-----------------------------------------------------------------------------
(* The screen.                                                             *)

\* Mutant: the effect runs when the screen is opened and not again.
Render_once(version, list) ==
    /\ shown' = version
    /\ copy' = copy

\* A render with another version runs the effect that copies the list.
Render(version, list) ==
    /\ shown' = version
    /\ copy' = IF version # shown THEN list ELSE copy

\* The screen is opened: its refs are new, the list is copied, the version is not shown
\* yet, and the device is registered.
mount(g) ==
    /\ frame = NoFrame
    /\ start_registration(g)
    /\ reads' = [p \in DetectedPlates |-> 0]
    /\ confirmed' = {} /\ matched' = {}
    /\ copy' = cache.plates /\ shown' = 0
    /\ resentAt' = [p \in DetectedPlates |-> -ResendInterval]
    /\ UNCHANGED <<frame, queue, sent, frames, errors>>

\* processFrame does nothing while a frame is in progress.
process_frame ==
    /\ frame = NoFrame
    /\ frames < MaxFrames
    /\ frames' = frames + 1
    /\ frame' = [NoFrame EXCEPT !.at = "detecting"]
    /\ UNCHANGED <<syncVars, votes, copy, shown, resentAt, queue, sent, errors>>

EndFrame ==
    /\ frame' = NoFrame
    /\ Render(cache.version, cache.plates)

\* The loop over the detections of a frame.
NextDetection ==
    IF frame.rest = <<>>
    THEN EndFrame
    ELSE /\ frame' = [at |-> "handling", plate |-> Head(frame.rest), rest |-> Tail(frame.rest)]
         /\ UNCHANGED <<copy, shown>>

\* The detect endpoint refuses the device or finds nothing, and the frame is over.
nothing_detected ==
    /\ frame.at = "detecting"
    /\ EndFrame
    /\ UNCHANGED <<syncVars, votes, resentAt, queue, sent, frames, errors>>

\* Mutant: any valid plate will do.
isPlateValid(plate) == is_valid_plate(normalisePlate(plate))

isPlateHotlisted(plate) ==
    /\ is_valid_plate(normalisePlate(plate))
    /\ normalisePlate(plate) \in copy

\* detectPlates asks with the header that the sync sends.
detected(view) ==
    /\ frame.at = "detecting"
    /\ SendsToken /\ authenticated(token)
    /\ frame' = [at |-> "handling", plate |-> Detected(Head(view)),
                 rest |-> [i \in 1..(Len(view) - 1) |-> Detected(view[i + 1])]]
    /\ UNCHANGED <<syncVars, votes, copy, shown, resentAt, queue, sent, frames, errors>>

Await(at) == frame' = [frame EXCEPT !.at = at] /\ UNCHANGED <<copy, shown>>

\* handleDetection up to its first await.  The window of a plate holds only reads of
\* that plate.  The vote is decided once; further reads of a decided plate, listed or
\* not, are location updates.
handle_detection ==
    /\ frame.at = "handling"
    /\ reads' = [reads EXCEPT ![frame.plate] = AtMost(@ + 1, TEMPORAL_WINDOW_SIZE)]
    /\ LET plate == frame.plate
           agreed == reads'[plate] >= TEMPORAL_VOTE_THRESHOLD
           match == agreed /\ plate \notin confirmed /\ isPlateHotlisted(plate)
           resend == agreed /\ plate \in confirmed /\ now - resentAt[plate] >= ResendInterval
       IN /\ confirmed' = IF agreed THEN confirmed \cup {plate} ELSE confirmed
          /\ matched' = IF match THEN matched \cup {plate} ELSE matched
          /\ CASE match -> Await("matched")
               [] resend -> Await("resending")
               [] OTHER -> NextDetection
    /\ UNCHANGED <<syncVars, resentAt, queue, sent, frames, errors>>

Row(kind) == [plate |-> frame.plate, kind |-> kind, at |-> now]

\* Mutant: a hit is queued only when it cannot be posted.
raise_hit_unqueued ==
    /\ frame.at = "matched"
    /\ IF deviceToken # 0
       THEN sent' = sent \cup {frame.plate} /\ UNCHANGED queue
       ELSE queue' = queue \cup {Row("hit")} /\ UNCHANGED sent
    /\ NextDetection
    /\ UNCHANGED <<syncVars, votes, resentAt, frames, errors>>

\* Mutant: without a token the hit is not queued.
raise_hit_with_token ==
    /\ frame.at = "matched"
    /\ IF deviceToken # 0
       THEN queue' = queue \cup {Row("hit")} /\ sent' = sent \cup {frame.plate}
       ELSE UNCHANGED <<queue, sent>>
    /\ NextDetection
    /\ UNCHANGED <<syncVars, votes, resentAt, frames, errors>>

\* raiseHit and deliverHit: the row is queued, and posted if the scanner has a token.
raise_hit ==
    /\ frame.at = "matched"
    /\ queue' = queue \cup {Row("hit")}
    /\ sent' = IF deviceToken # 0 THEN sent \cup {frame.plate} ELSE sent
    /\ NextDetection
    /\ UNCHANGED <<syncVars, votes, resentAt, frames, errors>>

\* A location update is queued and not posted.
enqueue_location_update ==
    /\ frame.at = "resending"
    /\ queue' = queue \cup {Row("update")}
    /\ resentAt' = [resentAt EXCEPT ![frame.plate] = now]
    /\ NextDetection
    /\ UNCHANGED <<syncVars, votes, sent, frames, errors>>

\* An exception anywhere in the frame is swallowed: what is left of it does not happen.
frame_fails ==
    /\ frame.at # "idle"
    /\ errors < MaxFrameErrors
    /\ errors' = errors + 1
    /\ frame' = NoFrame
    /\ UNCHANGED <<syncVars, votes, copy, shown, resentAt, queue, sent, frames>>

\* The last step of handleRevocation shows version 0.
sign_out_end ==
    /\ end_clearing
    /\ Render(0, cache.plates)
    /\ UNCHANGED <<frame, votes, resentAt, queue, sent, frames, errors>>

\* The app is killed; the queue is on disk.
app_restart ==
    /\ restart
    /\ frame' = NoFrame
    /\ reads' = [p \in DetectedPlates |-> 0]
    /\ confirmed' = {} /\ matched' = {}
    /\ copy' = {} /\ shown' = 0
    /\ resentAt' = [p \in DetectedPlates |-> -ResendInterval]
    /\ UNCHANGED <<queue, sent, frames, errors>>

-----------------------------------------------------------------------------
ScannerStep ==
    \/ \E g \in Registrations : mount(g)
    \/ process_frame
    \/ nothing_detected
    \/ \E view \in Views : detected(view)
    \/ handle_detection
    \/ raise_hit
    \/ enqueue_location_update
    \/ frame_fails
    \/ sign_out_end
    \/ app_restart

\* What happens behind the screen leaves it alone until its next frame.
Next ==
    \/ ServerStep /\ UNCHANGED scannerVars
    \/ PhoneStep /\ UNCHANGED scannerVars
    \/ ScannerStep

Spec == Init /\ [][Next]_allVars

-----------------------------------------------------------------------------
(* Types.                                                                  *)

\* The phone's list and secrets are of their types; a plate that is decided had its reads,
\* a match was decided, and a plate that was sent was queued.
TypeOK ==
    /\ SyncTypeOK
    /\ frame \in [at : {"idle", "detecting", "handling", "matched", "resending"},
                 plate : DetectedPlates \cup {<<>>}, rest : Seq(DetectedPlates)]
    /\ frame.at \in {"idle", "detecting"} <=> frame.plate = <<>>
    /\ reads \in [DetectedPlates -> 0..TEMPORAL_WINDOW_SIZE]
    /\ matched \subseteq confirmed
    /\ confirmed \subseteq {p \in DetectedPlates : reads[p] >= TEMPORAL_VOTE_THRESHOLD}
    /\ frame.at \in {"matched", "resending"} => frame.plate \in confirmed
    /\ copy \subseteq Plates /\ shown \in Times
    /\ resentAt \in [DetectedPlates -> (-ResendInterval)..MaxTime]
    /\ queue \subseteq [plate : DetectedPlates, kind : {"hit", "update"}, at : Times]
    /\ sent \subseteq {item.plate : item \in queue}

(* Hits.                                                                   *)

\* As long as no two of the phone's functions were under way at once, the scanner matches
\* against the list whose version it shows; version 0 is also shown by a screen that was
\* opened on a list and has not finished a frame.
CopyIsTheList ==
    (~overlapped /\ shown # 0 /\ shown = cache.version) => copy = cache.plates

\* Nothing leaves the phone but plates that have been on the hotlist: a plate that never
\* was listed is at most queued as a location update.
OnlyListedIsSent ==
    \A p \in sent \cup {item.plate : item \in {i \in queue : i.kind = "hit"}} :
        \E r \in Rows : PlateOf[r] = p /\ row[r].status # "absent"

\* A plate that was found on the list is queued as a hit, unless the frame failed.
MatchIsQueued ==
    \A p \in matched :
        \/ frame.at = "matched" /\ frame.plate = p
        \/ errors > 0
        \/ \E item \in queue : item.plate = p /\ item.kind = "hit"

\* The server, which normalises once more, finds a hit under the plate the phone sent, and
\* the number of times the phone normalises makes no difference.
PlateStaysTheSame ==
    /\ \A p \in sent : normalise_plate(p) = p
    /\ \A p \in confirmed : normalisePlate(p) = p
=============================================================================
