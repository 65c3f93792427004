---------------------------- MODULE HitDelivery ----------------------------
(***************************************************************************)
(* From a matched plate on a device to a row of the sightings table: the   *)
(* SQLite queues of the clients, a network that delays, loses and cuts     *)
(* off, and the ingest endpoint of SightingIngest.                         *)
(*                                                                         *)
(* The two clients differ.  A phone posts a hit once, right after it was   *)
(* raised; a hit that was not answered stays in its queue, and nothing in  *)
(* the app flushes that queue.  The simulator only queues, and every few   *)
(* seconds posts the whole queue, oldest first; a row that gets no 200     *)
(* waits for the next flush.  When its video is over, unless it was told   *)
(* to loop, it flushes once more and exits.                                *)
(***************************************************************************)
EXTENDS SightingIngest, FiniteSets

CONSTANTS
    Phones,       \* devices that run the app
    Simulators,   \* devices that run device_simulator.py
    MaxHits,      \* bound on the hits of all the devices
    MaxProblems   \* bound on network errors, timeouts and interrupted simulators

ASSUME ClientAssumption == Devices = Phones \cup Simulators /\ Phones \cap Simulators = {}
ASSUME SingleAssumption == MaxBatch >= 1
ASSUME ProblemAssumption == MaxHits \in Nat /\ MaxProblems \in Nat

VARIABLES
    queue,     \* hit_queue / pending_hits of every device
    playing,   \* simulators in the loop over their video
    pass,      \* the rows a running flush of the simulator still has to send
    call,      \* the request a device waits for
    reply,     \* the answer that is on its way to it
    wire,      \* requests sent and not yet taken up by the server
    admitted,  \* those that passed get_current_device
    serving,   \* the request whose batch is being processed
    revoked,   \* devices.revoked
    captured,  \* every hit so far, with its device
    settled,   \* rows deleted from a queue, with the verdict they were deleted for
    problems   \* network errors, timeouts and interruptions so far

clientVars == <<queue, playing, pass, call, reply, captured, settled, problems>>
netVars == <<wire, admitted, serving, revoked>>
deliveryVars == <<vars, clientVars, netVars>>

-----------------------------------------------------------------------------
Verdicts == Reasons \cup {"accepted"}

Hit == [device : Devices, event : Event]

Request == [device : Devices, event : Event, number : Nat]

ASSUME NoRequestAssumption == None \notin Request

DeliveryInit ==
    /\ Init
    /\ queue = [d \in Devices |-> {}]
    /\ playing = {}
    /\ pass = [d \in Devices |-> {}]
    /\ call = [d \in Devices |-> None]
    /\ reply = [d \in Devices |-> "none"]
    /\ wire = {}
    /\ admitted = {}
    /\ serving = None
    /\ revoked = {}
    /\ captured = {}
    /\ settled = {}
    /\ problems = 0

-----------------------------------------------------------------------------
(* Devices.                                                                *)

\* Requests that may still have an effect on the server.
UnderWay == wire \cup admitted \cup {serving}

\* Device d records a hit of plate p in its queue.
Enqueue(d, ev) ==
    /\ call[d] = None /\ pass[d] = {}
    /\ Cardinality(captured) < MaxHits
    /\ [device |-> d, event |-> ev] \notin captured
    /\ captured' = captured \cup {[device |-> d, event |-> ev]}
    /\ queue' = [queue EXCEPT ![d] = @ \cup {ev}]

\* A request of its own, also when an earlier one for the same row is still under way.
Post(d, ev) ==
    \E n \in 0..MaxProblems :
        LET r == [device |-> d, event |-> ev, number |-> n] IN
        /\ r \notin UnderWay
        /\ \A m \in 0..(n - 1) : [r EXCEPT !.number = m] \in UnderWay
        /\ call' = [call EXCEPT ![d] = r]
        /\ wire' = wire \cup {r}

Seen(p) == [plate |-> p, captured_at |-> now]

\* raiseHit and deliverHit: enqueue, then post at once.
raise_hit(d, p) ==
    /\ d \in Phones
    /\ Enqueue(d, Seen(p))
    /\ Post(d, Seen(p))
    /\ UNCHANGED <<vars, playing, pass, reply, admitted, serving, revoked, settled, problems>>

\* deliverHit without a device token, and every enqueueLocationUpdate: the row is
\* written and not sent.  The simulator's queue_hit does the same with a frame of its video.
queue_hit(d, p) ==
    /\ d \in Phones \cup playing
    /\ Enqueue(d, Seen(p))
    /\ UNCHANGED <<vars, playing, pass, call, reply, netVars, settled, problems>>

\* The simulator is started, or started again with the token it had: its queue is in a file.
run_simulation(d) ==
    /\ d \in Simulators \ playing
    /\ call[d] = None /\ pass[d] = {}
    /\ playing' = playing \cup {d}
    /\ UNCHANGED <<vars, queue, pass, call, reply, netVars, captured, settled, problems>>

\* A flush starts with the rows of that moment.
StartFlush(d) ==
    /\ d \in playing
    /\ call[d] = None /\ pass[d] = {}
    /\ pass' = [pass EXCEPT ![d] = queue[d]]
    /\ UNCHANGED <<vars, queue, call, reply, netVars, captured, settled, problems>>

\* A flush between two frames; phones have no such loop.
flush_queue(d) ==
    /\ queue[d] # {}
    /\ StartFlush(d)
    /\ UNCHANGED playing

\* Mutant: the loop is left without the last flush.
end_video_unflushed(d) ==
    /\ d \in playing
    /\ call[d] = None /\ pass[d] = {}
    /\ playing' = playing \ {d}
    /\ UNCHANGED <<vars, queue, pass, call, reply, netVars, captured, settled, problems>>

\* The video is over and is not played again: one more flush, then the simulator exits.
end_video(d) ==
    /\ StartFlush(d)
    /\ playing' = playing \ {d}

Oldest(rows) == {ev \in rows : \A other \in rows : ev.captured_at <= other.captured_at}

send_hit(d) ==
    /\ call[d] = None
    /\ \E ev \in Oldest(pass[d]) : Post(d, ev)
    /\ UNCHANGED <<vars, queue, playing, pass, reply, admitted, serving, revoked, captured, settled, problems>>

\* The row is deleted, with the verdict it got.
Delete(d, verdict) ==
    /\ queue' = [queue EXCEPT ![d] = @ \ {call[d].event}]
    /\ settled' = settled \cup {[device |-> d, event |-> call[d].event, verdict |-> verdict]}

\* The call is over; a flush goes on with the next row.
Return(d) ==
    /\ call' = [call EXCEPT ![d] = None]
    /\ reply' = [reply EXCEPT ![d] = "none"]
    /\ pass' = [pass EXCEPT ![d] = @ \ {call[d].event}]

\* Mutant: a row is deleted only when the event was accepted.
take_accepted(d) ==
    /\ reply[d] # "none"
    /\ IF reply[d] = "accepted"
       THEN Delete(d, reply[d])
       ELSE UNCHANGED <<queue, settled>>
    /\ Return(d)
    /\ UNCHANGED <<vars, playing, netVars, captured, problems>>

\* A 200 deletes the row whatever it says of the event; a 4xx deletes it on the
\* phone only; after a 5xx it is kept.
take_reply(d) ==
    /\ reply[d] # "none"
    /\ IF reply[d] \in Verdicts \/ (reply[d] = "refused" /\ d \in Phones)
       THEN Delete(d, reply[d])
       ELSE UNCHANGED <<queue, settled>>
    /\ Return(d)
    /\ UNCHANGED <<vars, playing, netVars, captured, problems>>

\* A network error or a timeout: the row is kept.  The request may be lost, or
\* still arrive, or have been served already.
give_up(d) ==
    /\ call[d] # None
    /\ problems < MaxProblems
    /\ problems' = problems + 1
    /\ wire' \in {wire, wire \ {call[d]}}
    /\ Return(d)
    /\ UNCHANGED <<vars, queue, playing, admitted, serving, revoked, captured, settled>>

\* A key, an exception or a video that cannot be opened again ends the simulator at
\* once; a request that it waits for may still arrive.
interrupt(d) ==
    /\ d \in playing \/ pass[d] # {}
    /\ problems < MaxProblems
    /\ problems' = problems + 1
    /\ playing' = playing \ {d}
    /\ call' = [call EXCEPT ![d] = None]
    /\ reply' = [reply EXCEPT ![d] = "none"]
    /\ pass' = [pass EXCEPT ![d] = {}]
    /\ wire' \in {wire, wire \ {call[d]}}
    /\ UNCHANGED <<vars, queue, admitted, serving, revoked, captured, settled>>

-----------------------------------------------------------------------------
(* The server.                                                             *)

revoke_device(d) ==
    /\ d \notin revoked
    /\ revoked' = revoked \cup {d}
    /\ UNCHANGED <<vars, clientVars, wire, admitted, serving>>

\* Mutant: an answer is taken for the answer to the request at hand.
AnswerAny(r, answer) ==
    reply' = IF call[r.device] # None THEN [reply EXCEPT ![r.device] = answer] ELSE reply

\* An answer reaches the device if it still waits for that request.
Answer(r, answer) ==
    reply' = IF call[r.device] = r THEN [reply EXCEPT ![r.device] = answer] ELSE reply

\* get_current_device, on a worker thread.
get_current_device(r) ==
    /\ r \in wire
    /\ wire' = wire \ {r}
    /\ \/ r.device \in revoked /\ Answer(r, "refused") /\ UNCHANGED admitted
       \/ r.device \notin revoked /\ admitted' = admitted \cup {r} /\ UNCHANGED reply
    /\ UNCHANGED <<vars, queue, playing, pass, call, serving, revoked, captured, settled, problems>>

\* The batch of one event starts on the event loop.
begin_batch(r) ==
    /\ r \in admitted
    /\ ingest_sightings(r.device, <<r.event>>)
    /\ admitted' = admitted \ {r}
    /\ serving' = r
    /\ UNCHANGED <<clientVars, wire, revoked>>

\* Mutant: the connection of the answered request is not released.
end_batch_held ==
    /\ respond
    /\ Answer(serving, current.done[1])
    /\ UNCHANGED <<queue, playing, pass, call, captured, settled, problems, netVars>>

end_batch ==
    /\ respond
    /\ Answer(serving, current.done[1])
    /\ serving' = None
    /\ UNCHANGED <<queue, playing, pass, call, captured, settled, problems, wire, admitted, revoked>>

fail_batch ==
    /\ ingest_aborts
    /\ Answer(serving, "failed")
    /\ serving' = None
    /\ UNCHANGED <<queue, playing, pass, call, captured, settled, problems, wire, admitted, revoked>>

Surroundings == Tick \/ HotlistStep

WithinBatch ==
    \/ resolve_captured_at
    \/ find_active_hotlist
    \/ check_throttle
    \/ store_photo
    \/ persist_sighting

-----------------------------------------------------------------------------
Requests == wire \cup admitted

Server ==
    \/ \E r \in Requests : get_current_device(r) \/ begin_batch(r)
    \/ WithinBatch /\ UNCHANGED <<clientVars, netVars>>
    \/ end_batch

DeliveryNext ==
    \/ Surroundings /\ UNCHANGED <<clientVars, netVars>>
    \/ \E d \in Devices, p \in Plates : raise_hit(d, p) \/ queue_hit(d, p)
    \/ \E d \in Devices : \/ run_simulation(d) \/ flush_queue(d) \/ end_video(d) \/ interrupt(d)
                          \/ send_hit(d) \/ take_reply(d) \/ give_up(d)
                          \/ revoke_device(d)
    \/ Server
    \/ fail_batch

DeliverySpec == DeliveryInit /\ [][DeliveryNext]_deliveryVars

\* The server serves what it has received, and a device takes up its answers.  A simulator
\* that plays its video flushes again or comes to the end of it: nothing says which, and
\* only with --loop is it always the first.
FairDelivery ==
    /\ DeliverySpec
    /\ \A d \in Devices : /\ WF_deliveryVars(flush_queue(d) \/ end_video(d))
                          /\ WF_deliveryVars(send_hit(d))
                          /\ WF_deliveryVars(take_reply(d))
                          /\ WF_deliveryVars(\E r \in Requests : r.device = d /\ get_current_device(r))
                          /\ WF_deliveryVars(\E r \in Requests : r.device = d /\ begin_batch(r))
    /\ WF_deliveryVars(WithinBatch /\ UNCHANGED <<clientVars, netVars>>)
    /\ WF_deliveryVars(end_batch)

-----------------------------------------------------------------------------
(* Types.                                                                  *)

\* The queues hold rows the device captured, the calls and the network hold requests
\* for them, and the server serves one of them while its batch is in progress.
DeliveryTypeOK ==
    /\ captured \subseteq Hit
    /\ \A d \in Devices : /\ queue[d] \subseteq {h.event : h \in captured}
                          /\ pass[d] \subseteq queue[d]
                          /\ call[d] \in Request \cup {None}
                          /\ reply[d] \in Verdicts \cup {"none", "refused", "failed"}
    /\ playing \subseteq Simulators
    /\ wire \cup admitted \subseteq Request
    /\ serving \in Request \cup {None}
    /\ (serving = None) <=> (current = Waiting)
    /\ revoked \subseteq Devices
    /\ \A s \in settled : [device |-> s.device, event |-> s.event] \in captured
    /\ problems \in 0..MaxProblems

(* Safety.                                                                 *)

StoredFor(d, ev) ==
    {i \in DOMAIN sightings : /\ sightings[i].device_id = d
                              /\ PlateOf[sightings[i].hotlist_id] = ev.plate
                              /\ sightings[i].captured_at = ev.captured_at}

\* A row deleted as accepted is in the sightings table, and a sighting in the table
\* comes from a hit the device really had: no answer is taken for another row's.
AcceptedIsStored ==
    /\ \A s \in settled : s.verdict = "accepted" => StoredFor(s.device, s.event) # {}
    /\ \A i \in DOMAIN sightings : \E h \in captured : i \in StoredFor(h.device, h.event)

\* A simulator that has come to the end of its video leaves no row behind unless a failure
\* explains it: the last flush asks for every row there is, and only a revocation, a failure
\* of the server, a network error or an interruption keeps a row from an answer of 200.
LeftOverOnlyByFailure ==
    \A d \in Simulators \ playing :
        queue[d] # pass[d] => d \in revoked \/ failures > 0 \/ problems > 0

\* A hit deleted as throttled is covered by a stored one: a sighting of the same device
\* and plate, let through so shortly before that the two cannot be further apart than
\* the timestamp tolerance on one side and the throttle window on the other.
NoLoss ==
    \A s \in settled : s.verdict = "throttled" =>
        \E i \in DOMAIN sightings :
            /\ sightings[i].device_id = s.device
            /\ PlateOf[sightings[i].hotlist_id] = s.event.plate
            /\ s.event.captured_at >= sightings[i].throttled_at - Tolerance
            /\ s.event.captured_at < sightings[i].throttled_at + ThrottleTtl

(* Refinement: what is promised of a hit, without the way it takes.        *)

\* The hit that a sighting is about.
StoredHit(i) == [device |-> sightings[i].device_id,
                 event |-> [plate |-> PlateOf[sightings[i].hotlist_id],
                            captured_at |-> sightings[i].captured_at]]

HitsKept == {h \in Hit : h.event \in queue[h.device]}

HitsStored == [i \in DOMAIN sightings |-> StoredHit(i)]

Promise == INSTANCE HitPromise WITH
    Hits <- Hit,
    OnceOnly <- {h \in Hit : h.device \in Phones},
    Answers <- Verdicts \cup {"refused"},
    kept <- HitsKept,
    table <- HitsStored

\* Whatever times out, arrives late or again, is revoked or fails: a hit stays in its queue
\* until submitQueuedHit or flush_queue has an answer for it, it is deleted as accepted only
\* when it is in the table, the table only grows, and a hit of a phone is in it once.
KeepsPromise == Promise!Spec

(* Liveness.                                                               *)

\* A row that a simulator holds gets an answer, or the simulator comes to its end, last
\* flush included, or its device is revoked: neither a row that the throttle turns away
\* nor a timeout or a failure keeps it flushing for nothing.
SimulatorDrains ==
    \A d \in Simulators, p \in Plates, t \in Times :
        LET ev == [plate |-> p, captured_at |-> t]
            Over == d \notin playing /\ pass[d] = {} IN
        (ev \in queue[d]) ~> (ev \notin queue[d] \/ Over \/ d \in revoked)

\* The phone's queue drains, by its documentation.
PhoneDrains ==
    \A d \in Phones, p \in Plates, t \in Times :
        LET ev == [plate |-> p, captured_at |-> t] IN
        (ev \in queue[d]) ~> (ev \notin queue[d] \/ d \in revoked)
=============================================================================
