------------------------- MODULE HitDeliveryProofs -------------------------
(***************************************************************************)
(* Theorems about the clients, the network and the server together, for    *)
(* any number of devices, hits, problems and failures.                     *)
(*                                                                         *)
(* First, the composition does nothing to the database, Redis and the      *)
(* files but what SightingIngest describes: every behaviour of             *)
(* DeliverySpec is one of Spec, so the theorems of SightingIngestProofs    *)
(* hold of it.  Then a hit is followed from the device's queue to the      *)
(* table: DeliveryIInv ties every row, request, answer and sighting to a   *)
(* captured hit (CaptureInv), every answer to what it says of the table    *)
(* (VerdictInv, ServeInv), the requests of a phone to one each (PhoneInv), *)
(* and every key in Redis to the sighting it stands for (KeyHeld).         *)
(* LeftInv gives every row a simulator leaves behind its reason.           *)
(* Last, every step of the path is a step of HitPromise or is not seen     *)
(* there.                                                                  *)
(***************************************************************************)
EXTENDS HitDelivery, SightingIngestProofs

-----------------------------------------------------------------------------
\* Rows and requests carry events that the endpoint accepts, and only simulators play.
RequestInv ==
    /\ now \in Times
    /\ queue \in [Devices -> SUBSET Event]
    /\ pass \in [Devices -> SUBSET Event]
    /\ wire \cup admitted \subseteq Request
    /\ playing \subseteq Simulators

\* A hit that is seen now is an event.
LEMMA SeenType == ASSUME RequestInv, NEW p \in Plates PROVE Seen(p) \in Event
  BY DEF RequestInv, Seen, Event

\* A post puts a request for the given event on the wire.
LEMMA PostType ==
    ASSUME RequestInv, NEW d \in Devices, NEW ev \in Event, Post(d, ev)
    PROVE  wire' \subseteq Request
  <1>1. PICK n \in 0..MaxProblems :
           wire' = wire \cup {[device |-> d, event |-> ev, number |-> n]}
    BY DEF Post
  <1>2. n \in Nat
    BY ProblemAssumption
  <1> QED
    BY <1>1, <1>2 DEF RequestInv, Request

\* Every step of the composition keeps RequestInv.
LEMMA NextRequests == RequestInv /\ [DeliveryNext]_deliveryVars => RequestInv'
  <1> SUFFICES ASSUME RequestInv, [DeliveryNext]_deliveryVars PROVE RequestInv'
    OBVIOUS
  <1>1. CASE Surroundings /\ UNCHANGED <<clientVars, netVars>>
    BY <1>1, LimitAssumption
    DEF RequestInv, Surroundings, Tick, HotlistStep, list_row, change_rows, clientVars, netVars, Times
  <1>2. ASSUME NEW d \in Devices, NEW p \in Plates, raise_hit(d, p) PROVE RequestInv'
    <2>1. Seen(p) \in Event
      BY SeenType
    <2>2. wire' \subseteq Request
      BY <1>2, <2>1, PostType DEF raise_hit
    <2>3. queue' \in [Devices -> SUBSET Event]
      BY <1>2, <2>1 DEF raise_hit, Enqueue, RequestInv
    <2> QED
      BY <1>2, <2>2, <2>3 DEF raise_hit, vars, RequestInv
  <1>3. ASSUME NEW d \in Devices, NEW p \in Plates, queue_hit(d, p) PROVE RequestInv'
    <2>1. queue' \in [Devices -> SUBSET Event]
      BY <1>3, SeenType DEF queue_hit, Enqueue, RequestInv
    <2> QED
      BY <1>3, <2>1 DEF queue_hit, vars, netVars, RequestInv
  <1>4. ASSUME NEW d \in Devices, run_simulation(d) \/ flush_queue(d) \/ end_video(d)
        PROVE  RequestInv'
    BY <1>4 DEF run_simulation, flush_queue, end_video, StartFlush, vars, netVars, RequestInv
  <1>5. ASSUME NEW d \in Devices, send_hit(d) PROVE RequestInv'
    <2>1. PICK ev \in Oldest(pass[d]) : Post(d, ev)
      BY <1>5 DEF send_hit
    <2>2. ev \in Event
      BY <2>1 DEF Oldest, RequestInv
    <2>3. wire' \subseteq Request
      BY <2>1, <2>2, PostType
    <2> QED
      BY <1>5, <2>3 DEF send_hit, vars, RequestInv
  <1>6. ASSUME NEW d \in Devices, take_reply(d) PROVE RequestInv'
    BY <1>6 DEF take_reply, Delete, Return, vars, netVars, RequestInv
  <1>7. ASSUME NEW d \in Devices, give_up(d) \/ interrupt(d) PROVE RequestInv'
    BY <1>7 DEF give_up, interrupt, Return, vars, RequestInv
  <1>8. ASSUME NEW d \in Devices, revoke_device(d) PROVE RequestInv'
    BY <1>8 DEF revoke_device, vars, clientVars, RequestInv
  <1>9. CASE Server
    <2>1. ASSUME NEW r \in Requests, get_current_device(r) PROVE RequestInv'
      BY <2>1 DEF get_current_device, vars, RequestInv
    <2>2. ASSUME NEW r \in Requests, begin_batch(r) PROVE RequestInv'
      BY <2>2 DEF begin_batch, ingest_sightings, clientVars, RequestInv
    <2>3. CASE WithinBatch /\ UNCHANGED <<clientVars, netVars>>
      BY <2>3 DEF WithinBatch, resolve_captured_at, find_active_hotlist, check_throttle,
                  store_photo, persist_sighting, clientVars, netVars, RequestInv
    <2>4. CASE end_batch
      BY <2>4 DEF end_batch, respond, RequestInv
    <2> QED
      BY <1>9, <2>1, <2>2, <2>3, <2>4 DEF Server
  <1>10. CASE fail_batch
    BY <1>10 DEF fail_batch, ingest_aborts, RequestInv
  <1>11. CASE UNCHANGED deliveryVars
    BY <1>11 DEF deliveryVars, vars, clientVars, netVars, RequestInv
  <1> QED
    BY <1>1, <1>2, <1>3, <1>4, <1>5, <1>6, <1>7, <1>8, <1>9, <1>10, <1>11 DEF DeliveryNext

\* A request of one event is a batch.
LEMMA SingleBatch == ASSUME NEW ev \in Event PROVE <<ev>> \in Batches
  <1>1. <<ev>> \in [1..1 -> Event]
    OBVIOUS
  <1>2. 1 \in 1..MaxBatch
    BY LimitAssumption, SingleAssumption
  <1> QED
    BY <1>1, <1>2 DEF Batches

\* Every step of the composition is a step of the endpoint or leaves its variables.
LEMMA StepIsIngest == RequestInv /\ [DeliveryNext]_deliveryVars => [Next]_vars
  <1> SUFFICES ASSUME RequestInv, DeliveryNext, ~UNCHANGED vars PROVE Next
    BY DEF deliveryVars
  <1>1. CASE Surroundings
    BY <1>1 DEF Surroundings, Next
  <1>2. ASSUME NEW d \in Devices,
               \/ \E p \in Plates : raise_hit(d, p) \/ queue_hit(d, p)
               \/ run_simulation(d) \/ flush_queue(d) \/ end_video(d) \/ interrupt(d)
               \/ send_hit(d) \/ take_reply(d) \/ give_up(d) \/ revoke_device(d)
        PROVE  FALSE
    BY <1>2 DEF raise_hit, queue_hit, run_simulation, flush_queue, end_video, StartFlush, interrupt,
                send_hit, take_reply, give_up, revoke_device
  <1>3. ASSUME NEW r \in Requests, get_current_device(r) PROVE FALSE
    BY <1>3 DEF get_current_device
  <1>4. ASSUME NEW r \in Requests, begin_batch(r) PROVE Next
    <2>1. r.device \in Devices /\ r.event \in Event
      BY DEF Requests, RequestInv, Request
    <2>2. <<r.event>> \in Batches
      BY <2>1, SingleBatch
    <2> QED
      BY <1>4, <2>1, <2>2 DEF begin_batch, Next
  <1>5. CASE WithinBatch \/ end_batch \/ fail_batch
    BY <1>5 DEF WithinBatch, end_batch, fail_batch, Next, Process
  <1> QED
    BY <1>1, <1>2, <1>3, <1>4, <1>5 DEF DeliveryNext, Server

\* Whatever the clients and the network do, the server's data evolve as SightingIngest
\* says: the composition implements the endpoint's specification.
THEOREM DeliveryImplementsIngest == DeliverySpec => Spec
  <1>1. DeliveryInit => RequestInv /\ Init
    BY LimitAssumption DEF DeliveryInit, Init, RequestInv, Times
  <1> QED
    BY <1>1, NextRequests, StepIsIngest, PTL DEF DeliverySpec, Spec

\* The throttle of Redis holds over the whole system: late, lost and repeated requests of
\* phones and simulators never get a second hit of a plate stored within the window.
THEOREM ThrottleHoldsEndToEnd == DeliverySpec => []ThrottleHolds
  BY DeliveryImplementsIngest, ThrottleIsRespected, PTL

-----------------------------------------------------------------------------
(* The inductive invariant: from a hit to its row in the table.            *)

\* The hit that a row of a queue, a request or a sighting is about.
HitAt(d, ev) == [device |-> d, event |-> ev]
HitOf(r) == HitAt(r.device, r.event)

Served == wire \cup admitted \cup ({serving} \ {None})

\* The device's side of a request: its row stays in the queue until it has an answer.
CallInv ==
    /\ call \in [Devices -> Request \cup {None}]
    /\ reply \in [Devices -> Verdicts \cup {"none", "refused", "failed"}]
    /\ \A d \in Devices :
          /\ pass[d] \subseteq queue[d]
          /\ d \in Phones => pass[d] = {}
          /\ call[d] # None => call[d].device = d /\ call[d].event \in queue[d]
          /\ reply[d] # "none" => call[d] # None

\* Every row, request and sighting goes back to a hit, and no hit is of the future.
CaptureInv ==
    /\ captured \subseteq Hit /\ \A h \in captured : h.event.captured_at <= now
    /\ \A d \in Devices : \A ev \in queue[d] : HitAt(d, ev) \in captured
    /\ \A d \in Devices : call[d] # None => HitOf(call[d]) \in captured
    /\ \A r \in Served : HitOf(r) \in captured
    /\ \A s \in settled : HitOf(s) \in captured
    /\ \A i \in DOMAIN sightings : StoredHit(i) \in captured

\* A stored sighting that accounts for a hit which the throttle turned away.
Covered(d, ev) ==
    \E i \in DOMAIN sightings :
        /\ sightings[i].device_id = d
        /\ PlateOf[sightings[i].hotlist_id] = ev.plate
        /\ ev.captured_at >= sightings[i].throttled_at - Tolerance
        /\ ev.captured_at < sightings[i].throttled_at + ThrottleTtl

\* What a verdict says of the table.
Backed(verdict, h) ==
    /\ verdict = "accepted" => \E i \in DOMAIN sightings : StoredHit(i) = h
    /\ verdict = "throttled" /\ failures = 0 => Covered(h.device, h.event)

\* Every answer that is on its way or was taken is true.
VerdictInv ==
    /\ \A d \in Devices : reply[d] # "none" => Backed(reply[d], HitOf(call[d]))
    /\ \A s \in settled : Backed(s.verdict, HitOf(s))

\* A request is in one place only.
NetInv ==
    /\ wire \cap admitted = {} /\ serving \notin wire \cup admitted
    /\ serving \in Request \cup {None}
    /\ revoked \subseteq Devices /\ problems \in 0..MaxProblems

\* The batch in progress is the event of the request that is served, or its result.
ServeInv ==
    /\ (serving = None) <=> (current = Waiting)
    /\ serving # None =>
          /\ current.device = serving.device
          /\ \/ current.todo = <<serving.event>> /\ current.done = <<>>
             \/ \E answer \in Reasons \cup {"accepted"} :
                   /\ current.todo = <<>> /\ current.done = <<answer>>
                   /\ Backed(answer, HitOf(serving))

\* A hit of a phone is posted once, and is not in the table before it is served.
PhoneInv ==
    /\ \A r, q \in Served : r.device \in Phones /\ HitOf(r) = HitOf(q) => r = q
    /\ \A r \in Served : r.device \in Phones /\ (r = serving => current.todo # <<>>) =>
          \A i \in DOMAIN sightings : StoredHit(i) # HitOf(r)
    /\ \A i, j \in DOMAIN sightings :
          sightings[i].device_id \in Phones /\ StoredHit(i) = StoredHit(j) => i = j

\* Without a failure, a key in Redis belongs to a stored sighting or to the event at hand;
\* the event that meets a key was not captured too long before what set it.
KeyHeld ==
    /\ \A i \in DOMAIN sightings : sightings[i].throttled_at <= now
    /\ current.stage = "throttle" =>
          \A i \in DOMAIN sightings : event.captured_at >= sightings[i].throttled_at - Tolerance
    /\ failures = 0 => \A d \in Devices, p \in Plates : throttle[<<d, p>>] # 0 =>
          \/ \E i \in DOMAIN sightings :
                /\ sightings[i].device_id = d /\ PlateOf[sightings[i].hotlist_id] = p
                /\ throttle[<<d, p>>] = sightings[i].throttled_at + ThrottleTtl
          \/ /\ current.stage \in {"persist", "commit"} /\ current.device = d /\ event.plate = p
             /\ throttle[<<d, p>>] = current.throttled_at + ThrottleTtl

IngestIInv == TypeOK /\ BatchInv /\ KeyHeld

DeliveryIInv ==
    /\ IngestIInv
    /\ RequestInv
    /\ CallInv
    /\ CaptureInv
    /\ VerdictInv
    /\ NetInv
    /\ ServeInv
    /\ PhoneInv

-----------------------------------------------------------------------------
(* The endpoint.                                                           *)

\* The table only grows, time does not run backwards, and failures are not undone.
Grows ==
    /\ DOMAIN sightings \subseteq DOMAIN sightings'
    /\ \A i \in DOMAIN sightings : sightings'[i] = sightings[i]
    /\ now' \in Times /\ now <= now'
    /\ failures \in Nat /\ failures' \in Nat /\ failures <= failures'

LEMMA IngestGrows ==
    ASSUME TypeOK, BatchInv, [Next]_vars
    PROVE  Grows
  <1> USE LimitAssumption DEF Times
  <1>1. now \in Times /\ failures \in Nat /\ now \in Nat
    BY DEF TypeOK
  <1>2. CASE UNCHANGED sightings
    <2>1. now' = now \/ (now' = now + 1 /\ now < MaxTime)
      BY DEF Next, vars, Tick, HotlistStep, list_row, change_rows, ingest_sightings, Process, resolve_captured_at,
         find_active_hotlist, check_throttle, store_photo, persist_sighting, respond, ingest_aborts
    <2>2. failures' = failures \/ failures' = failures + 1
      BY DEF Next, vars, Tick, HotlistStep, list_row, change_rows, ingest_sightings, Process, resolve_captured_at,
         find_active_hotlist, check_throttle, store_photo, persist_sighting, respond, ingest_aborts
    <2> QED
      BY <1>1, <1>2, <2>1, <2>2 DEF Grows
  <1>3. CASE persist_sighting
    BY <1>1, <1>3, Stored DEF Grows, persist_sighting
  <1>4. UNCHANGED sightings \/ persist_sighting
    BY DEF Next, vars, Tick, HotlistStep, list_row, change_rows, ingest_sightings, Process, resolve_captured_at,
       find_active_hotlist, check_throttle, store_photo, respond, ingest_aborts
  <1> QED
    BY <1>2, <1>3, <1>4

\* Every step of the endpoint keeps KeyHeld.
LEMMA NextKeyHeld ==
    IngestIInv /\ [Next]_vars => IngestIInv'
  <1> SUFFICES ASSUME TypeOK, BatchInv, KeyHeld, [Next]_vars PROVE KeyHeld'
    BY NextType DEF IngestIInv
  <1> USE DurationAssumption, LimitAssumption
  <1>1. Grows
    BY IngestGrows
  <1>2. /\ throttle \in [Devices \X Plates -> Nat] /\ now \in Nat /\ now' \in Nat
        /\ \A i \in DOMAIN sightings : sightings[i].throttled_at \in Nat
    BY <1>1, SightingFields DEF TypeOK, Times, Grows
  \* Nothing is stored, no key is touched, and the event at hand is the same or is dropped.
  <1>3. ASSUME UNCHANGED <<throttle, sightings>>,
               current'.stage \in {"throttle", "persist", "commit"} => current' = current,
               failures' = 0 => current' = current \/ current.stage \notin {"persist", "commit"}
        PROVE  KeyHeld'
    <2>1. \A i \in DOMAIN sightings : sightings[i].throttled_at <= now'
      BY <1>1, <1>2 DEF KeyHeld, Grows
    <2>2. failures' = 0 => failures = 0
      BY <1>1 DEF Grows
    <2> QED
      BY <1>3, <2>1, <2>2 DEF KeyHeld, event
  <1>4. ASSUME NEW reason, Drop(reason), UNCHANGED <<throttle, sightings>>,
               current.stage \in {"match", "throttle"}
        PROVE  KeyHeld'
    <2>1. current'.stage = "match"
      BY <1>4 DEF Drop, Finish, Waiting
    <2> QED
      BY <1>3, <1>4, <2>1
  <1>5. CASE Tick \/ HotlistStep \/ UNCHANGED vars
    BY <1>3, <1>5 DEF Tick, HotlistStep, list_row, change_rows, vars
  <1>6. CASE \E d \in Devices, batch \in Batches : ingest_sightings(d, batch)
    BY <1>3, <1>6 DEF ingest_sightings, Waiting
  <1>7. CASE resolve_captured_at
    BY <1>4, <1>7 DEF resolve_captured_at
  <1>8. CASE find_active_hotlist
    <2>1. CASE Drop("plate_not_hotlisted")
      BY <1>4, <1>8, <2>1 DEF find_active_hotlist
    <2>2. ASSUME NEW e \in ActiveRows(event.plate),
                 current' = [current EXCEPT !.stage = "throttle", !.entry = e]
          PROVE  KeyHeld'
      <3>1. current'.stage = "throttle" /\ event' = event /\ current.stage = "match" /\ current.todo # <<>>
        BY <1>8, <2>2 DEF TypeOK, Batch, event, find_active_hotlist
      <3>2. event.captured_at \in Nat /\ event.captured_at >= now - Tolerance
        <4>1. event.captured_at \in Nat
          BY <3>1, EventType DEF TypeOK, Event, Times
        <4>2. event.captured_at \in (now - Tolerance)..(now + Tolerance)
          BY <1>8 DEF find_active_hotlist, Timely
        <4> QED
          BY <1>2, <4>1, <4>2
      <3>3. UNCHANGED <<throttle, sightings, now, failures>>
        BY <1>8 DEF find_active_hotlist
      <3>4. \A i \in DOMAIN sightings : event.captured_at >= sightings[i].throttled_at - Tolerance
        BY <1>2, <3>2 DEF KeyHeld
      <3> QED
        BY <3>1, <3>3, <3>4 DEF KeyHeld
    <2> QED
      BY <1>8, <2>1, <2>2 DEF find_active_hotlist
  <1>9. CASE check_throttle
    <2> DEFINE key == <<current.device, event.plate>>
    <2>1. CASE Drop("throttled") /\ UNCHANGED throttle
      BY <1>4, <1>9, <2>1 DEF check_throttle
    <2>2. CASE /\ throttle' = [throttle EXCEPT ![key] = now + ThrottleTtl]
               /\ current' = [current EXCEPT !.stage = "persist", !.throttled_at = now]
      <3>1. /\ UNCHANGED <<sightings, now, failures>> /\ current.stage = "throttle"
            /\ current.todo # <<>>
        BY <1>9 DEF check_throttle, BatchInv
      <3>2. /\ current'.stage = "persist" /\ current'.device = current.device
            /\ current'.throttled_at = now /\ event' = event
        BY <2>2 DEF TypeOK, Batch, event
      <3>3. ASSUME failures = 0, NEW d \in Devices, NEW p \in Plates, throttle'[<<d, p>>] # 0
            PROVE  \/ \E i \in DOMAIN sightings :
                        /\ sightings[i].device_id = d /\ PlateOf[sightings[i].hotlist_id] = p
                        /\ throttle'[<<d, p>>] = sightings[i].throttled_at + ThrottleTtl
                   \/ /\ current'.device = d /\ event'.plate = p
                      /\ throttle'[<<d, p>>] = current'.throttled_at + ThrottleTtl
        <4>1. CASE <<d, p>> = key
          BY <1>2, <2>2, <3>2, <4>1
        <4>2. CASE <<d, p>> # key
          <5>1. throttle'[<<d, p>>] = throttle[<<d, p>>]
            BY <1>2, <2>2, <4>2
          <5> QED
            BY <3>1, <3>3, <5>1 DEF KeyHeld
        <4> QED
          BY <4>1, <4>2
      <3> QED
        BY <3>1, <3>2, <3>3 DEF KeyHeld
    <2> QED
      BY <1>9, <2>1, <2>2 DEF check_throttle
  <1>10. CASE store_photo
    <2>1. PICK c : current' = [current EXCEPT !.stage = "commit", !.photo = photos + 1, !.cluster = c]
      BY <1>10 DEF store_photo
    <2>2. /\ current'.stage = "commit" /\ current'.device = current.device
          /\ current'.throttled_at = current.throttled_at /\ event' = event
      BY <2>1 DEF TypeOK, Batch, event
    <2>3. UNCHANGED <<throttle, sightings, now, failures>> /\ current.stage = "persist"
      BY <1>10 DEF store_photo
    <2> QED
      BY <2>2, <2>3 DEF KeyHeld
  <1>11. CASE persist_sighting
    <2> DEFINE n == Len(sightings) + 1
    <2>1. /\ n \in DOMAIN sightings' /\ DOMAIN sightings' = DOMAIN sightings \cup {n}
          /\ sightings'[n].device_id = current.device
          /\ sightings'[n].hotlist_id = current.entry
          /\ sightings'[n].throttled_at = current.throttled_at
          /\ current'.stage = "match" /\ current.stage = "commit"
          /\ UNCHANGED <<throttle, now, failures>>
      BY <1>11, Stored DEF persist_sighting
    <2>2. PlateOf[current.entry] = event.plate /\ current.throttled_at \in 1..now
      BY <2>1 DEF BatchInv
    <2> HIDE DEF n
    <2>3. \A i \in DOMAIN sightings' : sightings'[i].throttled_at <= now
      BY <1>1, <1>2, <2>1, <2>2 DEF KeyHeld, Grows
    <2>4. ASSUME failures = 0, NEW d \in Devices, NEW p \in Plates, throttle[<<d, p>>] # 0
          PROVE  \E i \in DOMAIN sightings' :
                     /\ sightings'[i].device_id = d /\ PlateOf[sightings'[i].hotlist_id] = p
                     /\ throttle[<<d, p>>] = sightings'[i].throttled_at + ThrottleTtl
      <3>1. CASE \E i \in DOMAIN sightings :
                     /\ sightings[i].device_id = d /\ PlateOf[sightings[i].hotlist_id] = p
                     /\ throttle[<<d, p>>] = sightings[i].throttled_at + ThrottleTtl
        BY <1>1, <3>1 DEF Grows
      <3>2. CASE /\ current.device = d /\ event.plate = p
                 /\ throttle[<<d, p>>] = current.throttled_at + ThrottleTtl
        BY <2>1, <2>2, <3>2
      <3> QED
        BY <2>4, <3>1, <3>2 DEF KeyHeld
    <2> QED
      BY <2>1, <2>3, <2>4 DEF KeyHeld
  <1>12. CASE respond
    <2>1. current.stage = "match" /\ current'.stage = "idle" /\ UNCHANGED <<throttle, sightings>>
      BY <1>12 DEF respond, Waiting
    <2> QED
      BY <1>3, <2>1
  <1>13. CASE ingest_aborts
    <2>1. failures' # 0 /\ current'.stage = "idle" /\ UNCHANGED <<throttle, sightings>>
      BY <1>13 DEF ingest_aborts, Waiting, TypeOK
    <2> QED
      BY <1>3, <2>1
  <1> QED
    BY <1>5, <1>6, <1>7, <1>8, <1>9, <1>10, <1>11, <1>12, <1>13 DEF Next, Process

-----------------------------------------------------------------------------
(* What the steps of the composition rest on.                              *)

\* A step of the composition is one of the endpoint, with what that one keeps.
LEMMA IngestKept ==
    ASSUME DeliveryIInv, [DeliveryNext]_deliveryVars
    PROVE  IngestIInv' /\ Grows /\ RequestInv'
  BY StepIsIngest, NextKeyHeld, NextRequests, IngestGrows DEF DeliveryIInv, IngestIInv

\* What was true of a verdict stays true, until there is a failure.
LEMMA BackedStays ==
    ASSUME Grows, NEW verdict, NEW h, Backed(verdict, h)
    PROVE  Backed(verdict, h)'
  <1>1. ASSUME NEW i \in DOMAIN sightings
        PROVE  i \in DOMAIN sightings' /\ sightings'[i] = sightings[i] /\ StoredHit(i)' = StoredHit(i)
    BY DEF Grows, StoredHit, HitAt
  <1>2. failures' = 0 => failures = 0
    BY DEF Grows
  <1>3. Covered(h.device, h.event) => Covered(h.device, h.event)'
    BY <1>1 DEF Covered
  <1> QED
    BY <1>1, <1>2, <1>3 DEF Backed

\* Steps of a device or the network, which leave the endpoint's variables alone.
LEMMA VerdictsStay ==
    ASSUME DeliveryIInv, UNCHANGED vars
    PROVE  /\ \A verdict, h : Backed(verdict, h)' <=> Backed(verdict, h)
           /\ \A i : StoredHit(i)' = StoredHit(i)
           /\ DOMAIN sightings' = DOMAIN sightings /\ sightings' = sightings
           /\ now' = now /\ current' = current /\ failures' = failures
  BY DEF vars, Backed, Covered, StoredHit, HitAt

\* A post: the call waits for a request that is new on the wire.
LEMMA PostFact ==
    ASSUME DeliveryIInv, NEW d \in Devices, NEW ev \in Event, Post(d, ev)
    PROVE  \E r \in Request :
              /\ r.device = d /\ r.event = ev /\ r # None /\ r \notin UnderWay
              /\ call' = [call EXCEPT ![d] = r]
              /\ wire' = wire \cup {r}
  <1>1. PICK n \in 0..MaxProblems :
            LET r == [device |-> d, event |-> ev, number |-> n] IN
            /\ r \notin UnderWay
            /\ call' = [call EXCEPT ![d] = r]
            /\ wire' = wire \cup {r}
    BY DEF Post
  <1>2. n \in Nat
    BY ProblemAssumption
  <1> DEFINE r == [device |-> d, event |-> ev, number |-> n]
  <1>3. r \in Request /\ r # None
    BY <1>2, NoRequestAssumption DEF Request
  <1> QED
    BY <1>1, <1>3

-----------------------------------------------------------------------------
(* The devices.                                                            *)

\* A device records a hit that it has not had yet, and may post it at once.
LEMMA Device_captures ==
    ASSUME DeliveryIInv, NEW d \in Devices, NEW p \in Plates, Enqueue(d, Seen(p)),
           UNCHANGED <<vars, pass, reply, admitted, serving, revoked, settled, problems>>,
           \/ d \in Phones /\ Post(d, Seen(p))
           \/ UNCHANGED <<call, wire>>
    PROVE  CallInv' /\ CaptureInv' /\ VerdictInv' /\ NetInv' /\ ServeInv' /\ PhoneInv'
  <1> DEFINE ev == Seen(p)
             h == HitAt(d, ev)
  <1>1. ev \in Event /\ ev.captured_at = now /\ h \in Hit /\ h.device = d /\ h.event = ev /\ now \in Nat
    <2>1. ev \in Event /\ ev.captured_at = now
      BY SeenType DEF DeliveryIInv, Seen
    <2> QED
      BY <2>1 DEF HitAt, Hit, DeliveryIInv, RequestInv, Times
  <1>2. /\ call[d] = None /\ pass[d] = {} /\ h \notin captured
        /\ captured' = captured \cup {h}
        /\ queue' = [queue EXCEPT ![d] = @ \cup {ev}]
    BY DEF Enqueue, HitAt
  <1> HIDE DEF ev, h
  <1>3. /\ queue \in [Devices -> SUBSET Event] /\ call \in [Devices -> Request \cup {None}]
        /\ \A e \in Devices : queue[e] \subseteq queue'[e]
        /\ \A e \in Devices : \A x \in queue'[e] : x \in queue[e] \/ (e = d /\ x = ev)
    BY <1>2 DEF DeliveryIInv, RequestInv, CallInv
  <1>4. \/ /\ call' = call /\ wire' = wire
        \/ \E r \in Request :
              /\ d \in Phones
              /\ HitOf(r) = h /\ r.device = d /\ r # None /\ r \notin UnderWay
              /\ call' = [call EXCEPT ![d] = r]
              /\ wire' = wire \cup {r}
    <2>1. CASE d \in Phones /\ Post(d, Seen(p))
      BY <1>1, <2>1, PostFact DEF ev, h, HitOf
    <2> QED
      BY <2>1
  <1>5. PICK new \in SUBSET Request :
            /\ wire' = wire \cup new /\ Served' = Served \cup new
            /\ \A r \in new : HitOf(r) = h /\ r.device = d /\ r \notin UnderWay /\ d \in Phones
            /\ \A r, q \in new : r = q
            /\ \A e \in Devices : call'[e] = call[e] \/ (e = d /\ call'[e] \in new)
            /\ call' \in [Devices -> Request \cup {None}]
    <2>1. CASE call' = call /\ wire' = wire
      <3>1. Served' = Served \cup {} /\ wire' = wire \cup {}
        BY <2>1 DEF Served
      <3> WITNESS {} \in SUBSET Request
      <3> QED
        BY <1>3, <2>1, <3>1
    <2>2. ASSUME NEW r \in Request, d \in Phones,
                 HitOf(r) = h, r.device = d, r # None, r \notin UnderWay,
                 call' = [call EXCEPT ![d] = r], wire' = wire \cup {r}
          PROVE  \E new \in SUBSET Request :
                    /\ wire' = wire \cup new /\ Served' = Served \cup new
                    /\ \A q \in new : HitOf(q) = h /\ q.device = d /\ q \notin UnderWay /\ d \in Phones
                    /\ \A q, s \in new : q = s
                    /\ \A e \in Devices : call'[e] = call[e] \/ (e = d /\ call'[e] \in new)
                    /\ call' \in [Devices -> Request \cup {None}]
      <3>1. Served' = Served \cup {r}
        BY <2>2 DEF Served
      <3>2. /\ \A e \in Devices : call'[e] = call[e] \/ (e = d /\ call'[e] \in {r})
            /\ call' \in [Devices -> Request \cup {None}]
        BY <1>3, <2>2
      <3> WITNESS {r} \in SUBSET Request
      <3> QED
        BY <2>2, <3>1, <3>2
    <2> QED
      BY <1>4, <2>1, <2>2
  <1>6. CallInv'
    <2>1. \A r \in Request : HitOf(r) = h => r.event = ev
      BY <1>1 DEF HitOf, HitAt
    <2>2. ev \in queue'[d]
      BY <1>2, <1>3 DEF DeliveryIInv, RequestInv
    <2>3. \A e \in Devices : call'[e] # None =>
             call'[e].device = e /\ call'[e].event \in queue'[e]
      BY <1>2, <1>3, <1>5, <2>1, <2>2 DEF DeliveryIInv, CallInv
    <2> QED
      BY <1>2, <1>3, <1>5, <2>3 DEF DeliveryIInv, CallInv
  <1>7. CaptureInv'
    <2>1. now' = now /\ sightings' = sightings /\ \A i : StoredHit(i)' = StoredHit(i)
      BY VerdictsStay
    <2>2. \A e \in Devices : \A x \in queue'[e] : HitAt(e, x) \in captured'
      BY <1>2, <1>3 DEF DeliveryIInv, CaptureInv, h
    <2>3. \A e \in Devices : call'[e] # None => HitOf(call'[e]) \in captured'
      BY <1>2, <1>5 DEF DeliveryIInv, CaptureInv
    <2> QED
      BY <1>1, <1>2, <1>5, <2>1, <2>2, <2>3 DEF DeliveryIInv, CaptureInv
  <1>8. VerdictInv'
    <2>1. \A e \in Devices : reply[e] # "none" => call'[e] = call[e]
      BY <1>2, <1>5 DEF DeliveryIInv, CallInv
    <2> QED
      BY <2>1, VerdictsStay DEF DeliveryIInv, VerdictInv
  <1>9. NetInv' /\ ServeInv'
    BY <1>5, VerdictsStay DEF DeliveryIInv, NetInv, ServeInv, UnderWay
  <1>10. PhoneInv'
    <2>1. /\ \A r \in Served : HitOf(r) \in captured
          /\ \A i \in DOMAIN sightings : StoredHit(i) \in captured
      BY DEF DeliveryIInv, CaptureInv
    <2> QED
      BY <1>2, <1>5, <2>1, VerdictsStay DEF DeliveryIInv, PhoneInv
  <1> QED
    BY <1>6, <1>7, <1>8, <1>9, <1>10

\* A flush takes the queue as it is, also the last one.
LEMMA Device_flushes ==
    ASSUME DeliveryIInv, NEW d \in Devices, StartFlush(d)
    PROVE  CallInv' /\ CaptureInv' /\ VerdictInv' /\ NetInv' /\ ServeInv' /\ PhoneInv'
  <1>1. /\ pass' = [pass EXCEPT ![d] = queue[d]] /\ d \notin Phones
        /\ pass \in [Devices -> SUBSET Event]
        /\ UNCHANGED <<vars, queue, call, reply, wire, admitted, serving, revoked, captured, settled, problems>>
    BY ClientAssumption DEF StartFlush, netVars, DeliveryIInv, RequestInv
  <1>2. CallInv'
    BY <1>1 DEF DeliveryIInv, CallInv
  <1>3. CaptureInv' /\ VerdictInv'
    BY <1>1, VerdictsStay DEF DeliveryIInv, CaptureInv, VerdictInv, Served
  <1>4. NetInv' /\ ServeInv' /\ PhoneInv'
    BY <1>1, VerdictsStay DEF DeliveryIInv, NetInv, ServeInv, PhoneInv, Served
  <1> QED
    BY <1>2, <1>3, <1>4

\* Nothing but the loop of the simulator starts with it.
LEMMA Device_run_simulation ==
    ASSUME DeliveryIInv, NEW d \in Devices, run_simulation(d)
    PROVE  CallInv' /\ CaptureInv' /\ VerdictInv' /\ NetInv' /\ ServeInv' /\ PhoneInv'
  <1>1. UNCHANGED <<vars, queue, pass, call, reply, captured, settled, problems, wire, admitted, serving, revoked>>
    BY DEF run_simulation, netVars
  <1>2. CallInv' /\ CaptureInv' /\ VerdictInv'
    BY <1>1, VerdictsStay DEF DeliveryIInv, CallInv, CaptureInv, VerdictInv, Served
  <1>3. NetInv' /\ ServeInv' /\ PhoneInv'
    BY <1>1, VerdictsStay DEF DeliveryIInv, NetInv, ServeInv, PhoneInv, Served
  <1> QED
    BY <1>2, <1>3

\* The oldest row of a flush is posted: an earlier hit of the simulator, maybe once more.
LEMMA Device_send_hit ==
    ASSUME DeliveryIInv, NEW d \in Devices, send_hit(d)
    PROVE  CallInv' /\ CaptureInv' /\ VerdictInv' /\ NetInv' /\ ServeInv' /\ PhoneInv'
  <1>1. PICK ev \in Oldest(pass[d]) : Post(d, ev)
    BY DEF send_hit
  <1>2. /\ call[d] = None /\ ev \in pass[d]
        /\ UNCHANGED <<vars, queue, pass, reply, admitted, serving, revoked, captured, settled, problems>>
    BY <1>1 DEF send_hit, Oldest
  <1>3. ev \in Event /\ d \notin Phones /\ HitAt(d, ev) \in captured
    BY <1>2 DEF DeliveryIInv, RequestInv, CallInv, CaptureInv
  <1>4. PICK r \in Request :
            /\ r.device = d /\ r.event = ev /\ r # None /\ r \notin UnderWay
            /\ call' = [call EXCEPT ![d] = r]
            /\ wire' = wire \cup {r}
    BY <1>1, <1>3, PostFact
  <1>5. Served' = Served \cup {r} /\ HitOf(r) = HitAt(d, ev)
    BY <1>2, <1>4 DEF Served, HitOf
  <1>6. /\ call \in [Devices -> Request \cup {None}]
        /\ \A e \in Devices : call'[e] = IF e = d THEN r ELSE call[e]
    BY <1>4 DEF DeliveryIInv, CallInv
  <1>7. CallInv'
    BY <1>2, <1>4, <1>6 DEF DeliveryIInv, CallInv
  <1>8. CaptureInv'
    BY <1>2, <1>3, <1>5, <1>6, VerdictsStay DEF DeliveryIInv, CaptureInv
  <1>9. VerdictInv'
    BY <1>2, <1>6, VerdictsStay DEF DeliveryIInv, VerdictInv, CallInv
  <1>10. NetInv' /\ ServeInv'
    BY <1>2, <1>4, VerdictsStay DEF DeliveryIInv, NetInv, ServeInv, UnderWay
  <1>11. PhoneInv'
    <2>1. \A q \in Served' : q.device \in Phones => q \in Served /\ HitOf(q) # HitOf(r)
      BY <1>3, <1>4, <1>5 DEF HitOf, HitAt
    <2>2. \A x, q \in Served' : x.device \in Phones /\ HitOf(x) = HitOf(q) => x = q
      BY <1>5, <2>1 DEF DeliveryIInv, PhoneInv
    <2>3. \A q \in Served' : q.device \in Phones /\ (q = serving => current.todo # <<>>) =>
             \A i \in DOMAIN sightings : StoredHit(i) # HitOf(q)
      BY <2>1 DEF DeliveryIInv, PhoneInv
    <2>4. \A i, j \in DOMAIN sightings :
             sightings[i].device_id \in Phones /\ StoredHit(i) = StoredHit(j) => i = j
      BY DEF DeliveryIInv, PhoneInv
    <2> QED
      BY <1>2, <2>2, <2>3, <2>4, VerdictsStay DEF PhoneInv
  <1> QED
    BY <1>7, <1>8, <1>9, <1>10, <1>11

\* An answer ends a call: the row goes with the verdict, or stays.
LEMMA Device_take_reply ==
    ASSUME DeliveryIInv, NEW d \in Devices, take_reply(d)
    PROVE  CallInv' /\ CaptureInv' /\ VerdictInv' /\ NetInv' /\ ServeInv' /\ PhoneInv'
  <1> DEFINE s == [device |-> d, event |-> call[d].event, verdict |-> reply[d]]
  <1>1. /\ reply[d] # "none" /\ call[d] # None /\ call[d].device = d
        /\ Return(d) /\ UNCHANGED <<vars, netVars, captured, problems>>
        /\ call \in [Devices -> Request \cup {None}] /\ reply \in [Devices -> Verdicts \cup {"none", "refused", "failed"}]
        /\ queue \in [Devices -> SUBSET Event] /\ pass \in [Devices -> SUBSET Event]
    BY DEF take_reply, DeliveryIInv, CallInv, RequestInv
  <1>2. /\ queue' \in {queue, [queue EXCEPT ![d] = @ \ {call[d].event}]}
        /\ settled' \in {settled, settled \cup {s}}
    BY DEF take_reply, Delete
  <1>3. /\ call' = [call EXCEPT ![d] = None]
        /\ reply' = [reply EXCEPT ![d] = "none"]
        /\ pass' = [pass EXCEPT ![d] = @ \ {call[d].event}]
    BY <1>1 DEF Return
  <1>4. HitOf(s) = HitOf(call[d]) /\ s.verdict = reply[d]
    BY <1>1 DEF HitOf
  <1> HIDE DEF s
  <1>5. CallInv'
    <2>1. \A e \in Devices : pass'[e] \subseteq queue'[e]
      BY <1>1, <1>2, <1>3 DEF DeliveryIInv, CallInv
    <2>2. \A e \in Devices : call'[e] # None => call'[e] = call[e] /\ queue'[e] = queue[e]
      BY <1>1, <1>2, <1>3
    <2> QED
      BY <1>1, <1>3, <2>1, <2>2 DEF DeliveryIInv, CallInv
  <1>6. /\ \A e \in Devices : queue'[e] \subseteq queue[e]
        /\ \A e \in Devices : call'[e] # None => call'[e] = call[e]
        /\ \A e \in Devices : reply'[e] # "none" => reply'[e] = reply[e] /\ call'[e] = call[e]
    BY <1>1, <1>2, <1>3
  <1>7. CaptureInv'
    <2>1. HitOf(s) \in captured
      BY <1>1, <1>4 DEF DeliveryIInv, CaptureInv
    <2> QED
      BY <1>1, <1>2, <1>6, <2>1, VerdictsStay DEF DeliveryIInv, CaptureInv, netVars, Served
  <1>8. VerdictInv'
    <2>1. Backed(s.verdict, HitOf(s))
      BY <1>1, <1>4 DEF DeliveryIInv, VerdictInv
    <2> QED
      BY <1>1, <1>2, <1>6, <2>1, VerdictsStay DEF DeliveryIInv, VerdictInv
  <1>9. NetInv' /\ ServeInv' /\ PhoneInv'
    BY <1>1, VerdictsStay DEF DeliveryIInv, NetInv, ServeInv, PhoneInv, netVars, Served
  <1> QED
    BY <1>5, <1>7, <1>8, <1>9

\* A network error, a timeout or the end of the simulator ends a call and keeps the row.
LEMMA Device_stops_waiting ==
    ASSUME DeliveryIInv, NEW d \in Devices, give_up(d) \/ interrupt(d)
    PROVE  CallInv' /\ CaptureInv' /\ VerdictInv' /\ NetInv' /\ ServeInv' /\ PhoneInv'
  <1>1. /\ problems < MaxProblems /\ problems' = problems + 1
        /\ wire' \subseteq wire
        /\ UNCHANGED <<vars, queue, admitted, serving, revoked, captured, settled>>
        /\ call \in [Devices -> Request \cup {None}] /\ reply \in [Devices -> Verdicts \cup {"none", "refused", "failed"}]
        /\ queue \in [Devices -> SUBSET Event] /\ pass \in [Devices -> SUBSET Event]
    BY DEF give_up, interrupt, DeliveryIInv, CallInv, RequestInv
  <1>2. /\ call' = [call EXCEPT ![d] = None]
        /\ reply' = [reply EXCEPT ![d] = "none"]
        /\ \/ pass' = [pass EXCEPT ![d] = @ \ {call[d].event}]
           \/ pass' = [pass EXCEPT ![d] = {}]
    BY DEF give_up, interrupt, Return
  <1>3. Served' \subseteq Served
    BY <1>1 DEF Served
  <1>4. CallInv'
    <2>1. \A e \in Devices : pass'[e] \subseteq pass[e]
      BY <1>1, <1>2
    <2> QED
      BY <1>1, <1>2, <2>1 DEF DeliveryIInv, CallInv
  <1>5. /\ \A e \in Devices : call'[e] # None => call'[e] = call[e]
        /\ \A e \in Devices : reply'[e] # "none" => reply'[e] = reply[e] /\ call'[e] = call[e]
    BY <1>1, <1>2
  <1>6. CaptureInv' /\ VerdictInv'
    BY <1>1, <1>3, <1>5, VerdictsStay DEF DeliveryIInv, CaptureInv, VerdictInv
  <1>7. NetInv' /\ ServeInv'
    BY <1>1, VerdictsStay, ProblemAssumption DEF DeliveryIInv, NetInv, ServeInv
  <1>8. PhoneInv'
    BY <1>1, <1>3, VerdictsStay DEF DeliveryIInv, PhoneInv
  <1> QED
    BY <1>4, <1>6, <1>7, <1>8

\* A revocation changes nothing that is under way.
LEMMA Server_revoke_device ==
    ASSUME DeliveryIInv, NEW d \in Devices, revoke_device(d)
    PROVE  CallInv' /\ CaptureInv' /\ VerdictInv' /\ NetInv' /\ ServeInv' /\ PhoneInv'
  <1>1. /\ UNCHANGED <<vars, queue, pass, call, reply, captured, settled, problems, wire, admitted, serving>>
        /\ revoked' = revoked \cup {d}
    BY DEF revoke_device, clientVars
  <1>2. CallInv' /\ CaptureInv' /\ VerdictInv'
    BY <1>1, VerdictsStay DEF DeliveryIInv, CallInv, CaptureInv, VerdictInv, Served
  <1>3. NetInv' /\ ServeInv' /\ PhoneInv'
    BY <1>1, VerdictsStay DEF DeliveryIInv, NetInv, ServeInv, PhoneInv, Served
  <1> QED
    BY <1>2, <1>3

-----------------------------------------------------------------------------
(* The server.                                                             *)

\* An answer that is true of its request leaves every answer true.
LEMMA AnswerKept ==
    ASSUME DeliveryIInv, Grows, NEW r \in Request,
           NEW verdict \in Verdicts \cup {"refused", "failed"},
           Backed(verdict, HitOf(r))', Answer(r, verdict),
           UNCHANGED <<queue, pass, call, captured, settled>>
    PROVE  CallInv' /\ VerdictInv'
  <1>1. /\ reply \in [Devices -> Verdicts \cup {"none", "refused", "failed"}]
        /\ r.device \in Devices /\ r # None
    BY NoRequestAssumption DEF DeliveryIInv, CallInv, Request
  <1>2. /\ reply' \in [Devices -> Verdicts \cup {"none", "refused", "failed"}]
        /\ \A d \in Devices : \/ reply'[d] = reply[d]
                              \/ reply'[d] = verdict /\ call[d] = r
    BY <1>1 DEF Answer
  <1>3. CallInv'
    BY <1>1, <1>2 DEF DeliveryIInv, CallInv
  <1>4. \A d \in Devices : reply'[d] # "none" =>
            \E v, h : v = reply'[d] /\ h = HitOf(call'[d]) /\ Backed(v, h)'
    <2> SUFFICES ASSUME NEW d \in Devices, reply'[d] # "none"
                 PROVE  \E v, h : v = reply'[d] /\ h = HitOf(call[d]) /\ Backed(v, h)'
      OBVIOUS
    <2>1. CASE reply'[d] = reply[d]
      <3>1. PICK v, h : v = reply[d] /\ h = HitOf(call[d]) /\ Backed(v, h)
        BY <2>1 DEF DeliveryIInv, VerdictInv
      <3>2. Backed(v, h)'
        BY <3>1, BackedStays
      <3> QED
        BY <2>1, <3>1, <3>2
    <2>2. CASE reply'[d] = verdict /\ call[d] = r
      BY <2>2
    <2> QED
      BY <1>2, <2>1, <2>2
  <1>5. \A s \in settled' : Backed(s.verdict, HitOf(s))'
    BY BackedStays DEF DeliveryIInv, VerdictInv
  <1>6. VerdictInv'
    BY <1>4, <1>5 DEF VerdictInv
  <1> QED
    BY <1>3, <1>6

\* A request is refused, or waits for the event loop.
LEMMA Server_get_current_device ==
    ASSUME DeliveryIInv, NEW r \in Requests, get_current_device(r)
    PROVE  CallInv' /\ CaptureInv' /\ VerdictInv' /\ NetInv' /\ ServeInv' /\ PhoneInv'
  <1>1. /\ r \in Request /\ r \in wire /\ wire' = wire \ {r}
        /\ admitted' \in {admitted, admitted \cup {r}}
        /\ UNCHANGED <<vars, queue, pass, call, serving, revoked, captured, settled, problems>>
        /\ UNCHANGED reply \/ Answer(r, "refused")
    BY DEF get_current_device, DeliveryIInv, RequestInv
  <1>2. Served' \subseteq Served
    BY <1>1 DEF Served
  <1>3. CallInv' /\ VerdictInv'
    <2>1. CASE UNCHANGED reply
      BY <1>1, <2>1, VerdictsStay DEF DeliveryIInv, CallInv, VerdictInv
    <2>2. CASE Answer(r, "refused")
      <3>1. Grows
        BY <1>1, VerdictsStay DEF Grows, vars, DeliveryIInv, IngestIInv, TypeOK, Times
      <3>2. Backed("refused", HitOf(r))'
        BY DEF Backed
      <3> QED
        BY <1>1, <2>2, <3>1, <3>2, AnswerKept
    <2> QED
      BY <1>1, <2>1, <2>2
  <1>4. CaptureInv'
    BY <1>1, <1>2, VerdictsStay DEF DeliveryIInv, CaptureInv
  <1>5. NetInv' /\ ServeInv'
    BY <1>1, VerdictsStay DEF DeliveryIInv, NetInv, ServeInv
  <1>6. PhoneInv'
    BY <1>1, <1>2, VerdictsStay DEF DeliveryIInv, PhoneInv
  <1> QED
    BY <1>3, <1>4, <1>5, <1>6

\* The request that is taken up is the one being served, with its event to do.
LEMMA Server_begin_batch ==
    ASSUME DeliveryIInv, NEW r \in Requests, begin_batch(r)
    PROVE  CallInv' /\ CaptureInv' /\ VerdictInv' /\ NetInv' /\ ServeInv' /\ PhoneInv'
  <1>1. /\ r \in Request /\ r # None /\ r \in admitted /\ r \notin wire
        /\ admitted' = admitted \ {r} /\ serving' = r /\ serving = None
        /\ current' = [Waiting EXCEPT !.device = r.device, !.todo = <<r.event>>, !.stage = "match"]
        /\ UNCHANGED <<sightings, now, failures, clientVars, wire, revoked>>
    BY NoRequestAssumption
    DEF begin_batch, ingest_sightings, DeliveryIInv, RequestInv, NetInv, ServeInv
  <1>2. /\ current'.device = r.device /\ current'.todo = <<r.event>> /\ current'.done = <<>>
        /\ current' # Waiting /\ <<r.event>> # <<>>
    BY <1>1 DEF Waiting
  <1>3. Served' = Served
    BY <1>1 DEF Served
  <1>4. /\ \A verdict, h : Backed(verdict, h)' <=> Backed(verdict, h)
        /\ \A i : StoredHit(i)' = StoredHit(i)
    BY <1>1 DEF Backed, Covered, StoredHit, HitAt
  <1>5. CallInv' /\ CaptureInv' /\ VerdictInv'
    BY <1>1, <1>3, <1>4 DEF clientVars, DeliveryIInv, CallInv, CaptureInv, VerdictInv
  <1>6. NetInv' /\ ServeInv'
    BY <1>1, <1>2, NoRequestAssumption DEF clientVars, DeliveryIInv, NetInv, ServeInv
  <1>7. PhoneInv'
    <2>1. \A q \in Served' : q.device \in Phones =>
             \A i \in DOMAIN sightings : StoredHit(i) # HitOf(q)
      BY <1>1, <1>3, NoRequestAssumption DEF Served, DeliveryIInv, NetInv, RequestInv, PhoneInv
    <2> QED
      BY <1>1, <1>3, <1>4, <2>1 DEF DeliveryIInv, PhoneInv
  <1> QED
    BY <1>5, <1>6, <1>7

\* The end of a batch, with or without its result, releases the request that was served.
LEMMA Server_answers ==
    ASSUME DeliveryIInv, Grows, NEW r, r = serving, r # None,
           UNCHANGED sightings, current' = Waiting,
           NEW verdict \in Verdicts \cup {"refused", "failed"},
           Backed(verdict, HitOf(r))', Answer(r, verdict), serving' = None,
           UNCHANGED <<queue, pass, call, captured, settled, problems, wire, admitted, revoked>>
    PROVE  CallInv' /\ CaptureInv' /\ VerdictInv' /\ NetInv' /\ ServeInv' /\ PhoneInv'
  <1>1. r \in Request
    BY DEF DeliveryIInv, NetInv
  <1>2. CallInv' /\ VerdictInv'
    BY <1>1, AnswerKept
  <1>3. Served' \subseteq Served /\ \A q \in Served' : q # serving
    BY <1>1 DEF Served, DeliveryIInv, NetInv
  <1>4. \A i : StoredHit(i)' = StoredHit(i)
    BY DEF StoredHit, HitAt
  <1>5. \A h \in captured : h.event.captured_at <= now'
    <2>1. \A h \in captured : h.event.captured_at \in Nat /\ h.event.captured_at <= now
      BY DEF DeliveryIInv, CaptureInv, Hit, Event, Times
    <2> QED
      BY <2>1, LimitAssumption DEF Grows, DeliveryIInv, RequestInv, Times
  <1>6. CaptureInv'
    BY <1>3, <1>4, <1>5 DEF DeliveryIInv, CaptureInv
  <1>7. NetInv' /\ ServeInv'
    BY <1>1, NoRequestAssumption DEF DeliveryIInv, NetInv, ServeInv, RequestInv
  <1>8. PhoneInv'
    BY <1>3, <1>4 DEF DeliveryIInv, PhoneInv
  <1> QED
    BY <1>2, <1>6, <1>7, <1>8

LEMMA Server_end_batch ==
    ASSUME DeliveryIInv, Grows, end_batch
    PROVE  CallInv' /\ CaptureInv' /\ VerdictInv' /\ NetInv' /\ ServeInv' /\ PhoneInv'
  <1>1. /\ current.stage = "match" /\ current.todo = <<>> /\ current' = Waiting
        /\ Answer(serving, current.done[1]) /\ serving' = None
        /\ UNCHANGED <<sightings, queue, pass, call, captured, settled, problems, wire, admitted, revoked>>
    BY DEF end_batch, respond
  <1>2. PICK r : r = serving
    OBVIOUS
  <1>3. r # None
    BY <1>1, <1>2 DEF Waiting, DeliveryIInv, ServeInv
  <1>4. PICK verdict \in Verdicts : current.done[1] = verdict /\ Backed(verdict, HitOf(r))
    BY <1>1, <1>2, <1>3 DEF DeliveryIInv, ServeInv, Verdicts
  <1>5. PICK h : h = HitOf(r)
    OBVIOUS
  <1>6. Backed(verdict, h)'
    BY <1>4, <1>5, BackedStays
  <1>7. Answer(r, verdict)
    BY <1>1, <1>2, <1>4
  <1> QED
    BY <1>1, <1>2, <1>3, <1>5, <1>6, <1>7, Server_answers

LEMMA Server_fail_batch ==
    ASSUME DeliveryIInv, Grows, fail_batch
    PROVE  CallInv' /\ CaptureInv' /\ VerdictInv' /\ NetInv' /\ ServeInv' /\ PhoneInv'
  <1>1. /\ current # Waiting /\ current' = Waiting
        /\ Answer(serving, "failed") /\ serving' = None
        /\ UNCHANGED <<sightings, queue, pass, call, captured, settled, problems, wire, admitted, revoked>>
    BY DEF fail_batch, ingest_aborts
  <1>2. PICK r : r = serving
    OBVIOUS
  <1>3. r # None
    BY <1>1, <1>2 DEF DeliveryIInv, ServeInv
  <1>4. Backed("failed", HitOf(r))'
    BY DEF Backed
  <1>5. Answer(r, "failed")
    BY <1>1, <1>2
  <1> QED
    BY <1>1, <1>2, <1>3, <1>4, <1>5, Server_answers

-----------------------------------------------------------------------------
(* The batch.                                                              *)

\* A batch that is not done is the one event of the request that is served.
LEMMA OneEventLeft ==
    ASSUME DeliveryIInv, current.todo # <<>>
    PROVE  \E r \in Request :
              /\ r = serving /\ r # None /\ r \in Served /\ r.event \in Event
              /\ current.device = r.device /\ event = r.event
              /\ current.todo = <<r.event>> /\ current.done = <<>>
  <1>1. serving # None
    BY DEF Waiting, DeliveryIInv, ServeInv
  <1>2. serving \in Request
    BY <1>1 DEF DeliveryIInv, NetInv
  <1>3. current.device = serving.device /\ current.todo = <<serving.event>> /\ current.done = <<>>
    BY <1>1 DEF DeliveryIInv, ServeInv
  <1>4. event = serving.event
    BY <1>3 DEF event
  <1> QED
    BY <1>1, <1>2, <1>3, <1>4 DEF Served, Request

\* The one event of a batch is finished: its result is the result of the batch.
LEMMA Finished ==
    ASSUME DeliveryIInv, current.todo # <<>>, NEW result, NEW stored, Finish(result, stored)
    PROVE  /\ current'.todo = <<>> /\ current'.done = <<result>>
           /\ current'.device = current.device /\ current' # Waiting
  <1>1. PICK r \in Request : current.todo = <<r.event>> /\ current.done = <<>>
    BY OneEventLeft
  <1>2. Tail(current.todo) = <<>> /\ Append(current.done, result) = <<result>>
    BY <1>1
  <1>3. current' = [Waiting EXCEPT !.device = current.device, !.stage = "match",
                                   !.todo = Tail(current.todo),
                                   !.done = Append(current.done, result),
                                   !.notifications = current.notifications \cup stored]
    BY DEF Finish
  <1>4. current'.stage = "match" /\ Waiting.stage = "idle"
    BY <1>3 DEF Waiting
  <1> QED
    BY <1>2, <1>3, <1>4 DEF Waiting

\* No hit is of the future, whatever the clock has done.
LEMMA HitsArePast ==
    ASSUME DeliveryIInv, Grows
    PROVE  \A h \in captured : h.event.captured_at <= now'
  <1>1. \A h \in captured : h.event.captured_at \in Nat /\ h.event.captured_at <= now
    BY DEF DeliveryIInv, CaptureInv, Hit, Event, Times
  <1> QED
    BY <1>1, LimitAssumption DEF Grows, DeliveryIInv, RequestInv, Times

\* Steps that store nothing: what is left to show is ServeInv.
LEMMA NothingStored ==
    ASSUME DeliveryIInv, Grows, UNCHANGED <<clientVars, netVars, sightings>>,
           current'.todo # <<>> => current.todo # <<>>
    PROVE  CallInv' /\ CaptureInv' /\ VerdictInv' /\ NetInv' /\ PhoneInv'
  <1>1. /\ UNCHANGED <<queue, pass, call, reply, captured, settled, problems>>
        /\ UNCHANGED <<wire, admitted, serving, revoked>> /\ UNCHANGED sightings
    BY DEF clientVars, netVars
  <1>2. Served' = Served /\ \A i : StoredHit(i)' = StoredHit(i)
    BY <1>1 DEF Served, StoredHit, HitAt
  <1>3. CallInv' /\ NetInv'
    BY <1>1 DEF DeliveryIInv, CallInv, NetInv
  <1>4. CaptureInv'
    BY <1>1, <1>2, HitsArePast DEF DeliveryIInv, CaptureInv
  <1>5. VerdictInv'
    BY <1>1, BackedStays DEF DeliveryIInv, VerdictInv
  <1>6. PhoneInv'
    BY <1>1, <1>2 DEF DeliveryIInv, PhoneInv
  <1> QED
    BY <1>3, <1>4, <1>5, <1>6

\* The surroundings do not touch the batch.
LEMMA BatchUntouched ==
    ASSUME DeliveryIInv, Grows, UNCHANGED <<clientVars, netVars, sightings, current>>
    PROVE  CallInv' /\ CaptureInv' /\ VerdictInv' /\ NetInv' /\ ServeInv' /\ PhoneInv'
  <1>1. CallInv' /\ CaptureInv' /\ VerdictInv' /\ NetInv' /\ PhoneInv'
    BY NothingStored
  <1>2. ServeInv'
    BY BackedStays DEF DeliveryIInv, ServeInv, netVars
  <1> QED
    BY <1>1, <1>2

\* The event at hand goes on to the next stage.
LEMMA BatchGoesOn ==
    ASSUME DeliveryIInv, Grows, UNCHANGED <<clientVars, netVars, sightings>>,
           current.todo # <<>>, current'.todo = current.todo, current'.done = current.done,
           current'.device = current.device, current'.stage # "idle"
    PROVE  CallInv' /\ CaptureInv' /\ VerdictInv' /\ NetInv' /\ ServeInv' /\ PhoneInv'
  <1>1. CallInv' /\ CaptureInv' /\ VerdictInv' /\ NetInv' /\ PhoneInv'
    BY NothingStored
  <1>2. PICK r \in Request : /\ r = serving /\ r # None /\ current.device = r.device
                             /\ current.todo = <<r.event>> /\ current.done = <<>>
    BY OneEventLeft
  <1>3. serving' = serving /\ current' # Waiting
    BY DEF netVars, Waiting
  <1>4. ServeInv'
    BY <1>2, <1>3 DEF ServeInv
  <1> QED
    BY <1>1, <1>4

\* The event at hand is dropped, for a reason that holds.
LEMMA EventDropped ==
    ASSUME DeliveryIInv, Grows, UNCHANGED <<clientVars, netVars, sightings>>,
           current.todo # <<>>, NEW reason \in Reasons, Drop(reason),
           NEW h, h = HitOf(serving), Backed(reason, h)'
    PROVE  CallInv' /\ CaptureInv' /\ VerdictInv' /\ NetInv' /\ ServeInv' /\ PhoneInv'
  <1>1. /\ current'.todo = <<>> /\ current'.done = <<reason>>
        /\ current'.device = current.device /\ current' # Waiting
    BY Finished DEF Drop
  <1>2. CallInv' /\ CaptureInv' /\ VerdictInv' /\ NetInv' /\ PhoneInv'
    BY <1>1, NothingStored
  <1>3. PICK r \in Request : r = serving /\ r # None /\ current.device = r.device
    BY OneEventLeft
  <1>4. serving' = r
    BY <1>3 DEF netVars
  <1>5. ServeInv'
    BY <1>1, <1>3, <1>4 DEF ServeInv
  <1> QED
    BY <1>2, <1>5

LEMMA Batch_match ==
    ASSUME DeliveryIInv, Grows, UNCHANGED <<clientVars, netVars>>,
           resolve_captured_at \/ find_active_hotlist
    PROVE  CallInv' /\ CaptureInv' /\ VerdictInv' /\ NetInv' /\ ServeInv' /\ PhoneInv'
  <1>1. current.todo # <<>> /\ UNCHANGED sightings /\ current \in Batch
    BY DEF resolve_captured_at, find_active_hotlist, DeliveryIInv, IngestIInv, TypeOK
  <1>2. ASSUME NEW reason \in {"timestamp_out_of_tolerance", "plate_not_hotlisted"}, Drop(reason)
        PROVE  CallInv' /\ CaptureInv' /\ VerdictInv' /\ NetInv' /\ ServeInv' /\ PhoneInv'
    <2>1. PICK h : h = HitOf(serving)
      OBVIOUS
    <2>2. Backed(reason, h)'
      BY <1>2 DEF Backed
    <2> QED
      BY <1>1, <1>2, <2>1, <2>2, EventDropped DEF Reasons
  <1>3. ASSUME NEW e \in Entries, current' = [current EXCEPT !.stage = "throttle", !.entry = e]
        PROVE  CallInv' /\ CaptureInv' /\ VerdictInv' /\ NetInv' /\ ServeInv' /\ PhoneInv'
    <2>1. /\ current'.todo = current.todo /\ current'.done = current.done
          /\ current'.device = current.device /\ current'.stage # "idle"
      BY <1>1, <1>3 DEF Batch
    <2> QED
      BY <1>1, <2>1, BatchGoesOn
  <1> QED
    BY <1>2, <1>3 DEF resolve_captured_at, find_active_hotlist, ActiveRows

\* An event that meets a key is covered by the sighting which that key belongs to.
LEMMA KeyCovers ==
    ASSUME DeliveryIInv, current.stage = "throttle", failures = 0,
           throttle[<<current.device, event.plate>>] > now
    PROVE  Covered(current.device, event)
  <1> USE DurationAssumption, LimitAssumption
  <1>1. current.todo # <<>> /\ current.device \in Devices
    BY DEF DeliveryIInv, IngestIInv, BatchInv
  <1>2. PICK r \in Request : r = serving /\ r \in Served /\ current.device = r.device /\ event = r.event
    BY <1>1, OneEventLeft
  <1>3. HitOf(r) \in captured /\ event \in Event /\ current.device \in Devices
    BY <1>2 DEF DeliveryIInv, CaptureInv, Request
  <1>4. event.captured_at <= now /\ event.captured_at \in Nat /\ now \in Nat
    <2>1. HitOf(r).event = event
      BY <1>2 DEF HitOf, HitAt
    <2> QED
      BY <1>3, <2>1 DEF DeliveryIInv, CaptureInv, RequestInv, Event, Times
  <1>5. throttle[<<current.device, event.plate>>] # 0
    BY <1>4
  <1>6. PICK i \in DOMAIN sightings :
            /\ sightings[i].device_id = current.device
            /\ PlateOf[sightings[i].hotlist_id] = event.plate
            /\ throttle[<<current.device, event.plate>>] = sightings[i].throttled_at + ThrottleTtl
    BY <1>3, <1>5 DEF DeliveryIInv, IngestIInv, KeyHeld, Event
  <1>7. event.captured_at >= sightings[i].throttled_at - Tolerance
    BY DEF DeliveryIInv, IngestIInv, KeyHeld
  <1>8. event.captured_at < sightings[i].throttled_at + ThrottleTtl
    BY <1>4, <1>6, SightingFields DEF Times, DeliveryIInv, IngestIInv
  <1> QED
    BY <1>6, <1>7, <1>8 DEF Covered

LEMMA Batch_check_throttle ==
    ASSUME DeliveryIInv, Grows, UNCHANGED <<clientVars, netVars>>, check_throttle
    PROVE  CallInv' /\ CaptureInv' /\ VerdictInv' /\ NetInv' /\ ServeInv' /\ PhoneInv'
  <1>1. /\ current.stage = "throttle" /\ current.todo # <<>> /\ current \in Batch
        /\ UNCHANGED <<sightings, failures>>
    BY DEF check_throttle, DeliveryIInv, IngestIInv, TypeOK, BatchInv
  <1>2. CASE throttle[<<current.device, event.plate>>] > now /\ Drop("throttled")
    <2>1. PICK r \in Request : r = serving /\ current.device = r.device /\ event = r.event
      BY <1>1, OneEventLeft
    <2>2. failures = 0 => Covered(r.device, r.event)
      BY <1>1, <1>2, <2>1, KeyCovers
    <2>3. Backed("throttled", HitOf(r))'
      BY <1>1, <2>2 DEF Backed, Covered, HitOf, HitAt
    <2> QED
      BY <1>1, <1>2, <2>1, <2>3, EventDropped DEF Reasons
  <1>3. CASE current' = [current EXCEPT !.stage = "persist", !.throttled_at = now]
    <2>1. /\ current'.todo = current.todo /\ current'.done = current.done
          /\ current'.device = current.device /\ current'.stage # "idle"
      BY <1>1, <1>3 DEF Batch
    <2> QED
      BY <1>1, <2>1, BatchGoesOn
  <1> QED
    BY <1>2, <1>3 DEF check_throttle

LEMMA Batch_store_photo ==
    ASSUME DeliveryIInv, Grows, UNCHANGED <<clientVars, netVars>>, store_photo
    PROVE  CallInv' /\ CaptureInv' /\ VerdictInv' /\ NetInv' /\ ServeInv' /\ PhoneInv'
  <1>1. current.todo # <<>> /\ current \in Batch /\ UNCHANGED sightings
    BY DEF store_photo, DeliveryIInv, IngestIInv, TypeOK, BatchInv
  <1>2. PICK c : current' = [current EXCEPT !.stage = "commit", !.photo = photos + 1, !.cluster = c]
    BY DEF store_photo
  <1>3. /\ current'.todo = current.todo /\ current'.done = current.done
        /\ current'.device = current.device /\ current'.stage # "idle"
    BY <1>1, <1>2 DEF Batch
  <1> QED
    BY <1>1, <1>3, BatchGoesOn

\* The hit of the request is stored: the only sighting of it, if it is a phone's.
LEMMA Batch_persist_sighting ==
    ASSUME DeliveryIInv, Grows, UNCHANGED <<clientVars, netVars>>, persist_sighting
    PROVE  CallInv' /\ CaptureInv' /\ VerdictInv' /\ NetInv' /\ ServeInv' /\ PhoneInv'
  <1>0. PICK n : n = Len(sightings) + 1
    OBVIOUS
  <1>1. /\ current.stage = "commit" /\ current.todo # <<>>
        /\ PlateOf[current.entry] = event.plate
        /\ TypeOK /\ BatchInv
    BY DEF persist_sighting, DeliveryIInv, IngestIInv, BatchInv
  <1>2. PICK r \in Request :
            /\ r = serving /\ r # None /\ r \in Served /\ r.event \in Event
            /\ current.device = r.device /\ event = r.event
    BY <1>1, OneEventLeft
  <1>3. /\ DOMAIN sightings = 1..Len(sightings) /\ Len(sightings) \in Nat
        /\ DOMAIN sightings' = DOMAIN sightings \cup {n} /\ n \notin DOMAIN sightings
        /\ \A i \in DOMAIN sightings : sightings'[i] = sightings[i]
        /\ sightings'[n].device_id = r.device /\ sightings'[n].hotlist_id = current.entry
        /\ sightings'[n].captured_at = r.event.captured_at
    BY <1>0, <1>1, <1>2, Stored
  <1>4. StoredHit(n)' = HitOf(r)
    <2>1. [plate |-> r.event.plate, captured_at |-> r.event.captured_at] = r.event
      BY <1>2 DEF Event
    <2> QED
      BY <1>1, <1>2, <1>3, <2>1 DEF StoredHit, HitOf, HitAt
  <1>5. \A i \in DOMAIN sightings : StoredHit(i)' = StoredHit(i)
    BY <1>3 DEF StoredHit, HitAt
  <1>6. /\ current'.todo = <<>> /\ current'.done = <<"accepted">>
        /\ current'.device = current.device /\ current' # Waiting
    BY <1>1, Finished DEF persist_sighting
  <1>7. /\ UNCHANGED <<queue, pass, call, reply, captured, settled, problems>>
        /\ UNCHANGED <<wire, admitted, serving, revoked>>
    BY DEF clientVars, netVars
  <1>8. Served' = Served
    BY <1>7 DEF Served
  <1>9. CallInv' /\ NetInv'
    BY <1>7 DEF DeliveryIInv, CallInv, NetInv
  <1>10. CaptureInv'
    <2>1. HitOf(r) \in captured
      BY <1>2 DEF DeliveryIInv, CaptureInv
    <2>2. \A i \in DOMAIN sightings' : StoredHit(i)' \in captured
      BY <1>3, <1>4, <1>5, <2>1 DEF DeliveryIInv, CaptureInv
    <2> QED
      BY <1>7, <1>8, <2>2, HitsArePast DEF DeliveryIInv, CaptureInv
  <1>11. VerdictInv'
    BY <1>7, BackedStays DEF DeliveryIInv, VerdictInv
  <1>12. ServeInv'
    <2>1. Backed("accepted", HitOf(r))'
      BY <1>3, <1>4 DEF Backed
    <2> QED
      BY <1>2, <1>6, <1>7, <2>1 DEF ServeInv
  <1>13. PhoneInv'
    <2>1. \A q \in Served : q.device \in Phones /\ q # r =>
             HitOf(q) # HitOf(r) /\ \A i \in DOMAIN sightings : StoredHit(i) # HitOf(q)
      BY <1>2 DEF DeliveryIInv, PhoneInv
    <2>2. r.device \in Phones => \A i \in DOMAIN sightings : StoredHit(i) # HitOf(r)
      BY <1>1, <1>2 DEF DeliveryIInv, PhoneInv
    <2>3. \A q \in Served' : q.device \in Phones /\ (q = serving' => current'.todo # <<>>) =>
             \A i \in DOMAIN sightings' : StoredHit(i)' # HitOf(q)
      BY <1>2, <1>3, <1>4, <1>5, <1>6, <1>7, <1>8, <2>1
    <2>4. ASSUME NEW i \in DOMAIN sightings', NEW j \in DOMAIN sightings',
                 sightings'[i].device_id \in Phones, StoredHit(i)' = StoredHit(j)'
          PROVE  i = j
      <3>1. \A k \in DOMAIN sightings' : StoredHit(k)'.device = sightings'[k].device_id
        BY DEF StoredHit, HitAt
      <3>2. HitOf(r).device = r.device
        BY DEF HitOf, HitAt
      <3>3. CASE i \in DOMAIN sightings /\ j \in DOMAIN sightings
        BY <1>3, <1>5, <2>4, <3>3 DEF DeliveryIInv, PhoneInv
      <3>4. CASE i = n \/ j = n
        BY <1>3, <1>4, <1>5, <2>2, <2>4, <3>1, <3>2, <3>4
      <3> QED
        BY <1>3, <3>3, <3>4
    <2>5. \A q, s \in Served' : q.device \in Phones /\ HitOf(q) = HitOf(s) => q = s
      BY <1>8 DEF DeliveryIInv, PhoneInv
    <2> QED
      BY <2>3, <2>4, <2>5 DEF PhoneInv
  <1> QED
    BY <1>9, <1>10, <1>11, <1>12, <1>13

-----------------------------------------------------------------------------
(* The theorems.                                                           *)

LEMMA InitDelivery == DeliveryInit => DeliveryIInv
  <1> SUFFICES ASSUME DeliveryInit PROVE DeliveryIInv
    OBVIOUS
  <1>1. Init /\ DOMAIN sightings = {} /\ current = Waiting
    BY DEF DeliveryInit, Init
  <1>2. Served = {}
    BY DEF DeliveryInit, Served
  <1>3. IngestIInv
    <2>1. KeyHeld
      BY <1>1 DEF Init, KeyHeld, Waiting
    <2> QED
      BY <1>1, <2>1, InitType DEF IngestIInv
  <1>4. RequestInv /\ CallInv
    BY LimitAssumption DEF DeliveryInit, Init, RequestInv, CallInv, Times
  <1>5. CaptureInv /\ VerdictInv /\ PhoneInv
    BY <1>1, <1>2 DEF DeliveryInit, CaptureInv, VerdictInv, PhoneInv
  <1>6. NetInv /\ ServeInv
    BY <1>1, ProblemAssumption DEF DeliveryInit, NetInv, ServeInv
  <1> QED
    BY <1>3, <1>4, <1>5, <1>6 DEF DeliveryIInv

\* Every step of the composition keeps the invariant.
LEMMA NextDelivery == DeliveryIInv /\ [DeliveryNext]_deliveryVars => DeliveryIInv'
  <1> SUFFICES ASSUME DeliveryIInv, [DeliveryNext]_deliveryVars PROVE DeliveryIInv'
    OBVIOUS
  <1>0. IngestIInv' /\ Grows /\ RequestInv'
    BY IngestKept
  <1>1. SUFFICES CallInv' /\ CaptureInv' /\ VerdictInv' /\ NetInv' /\ ServeInv' /\ PhoneInv'
    BY <1>0 DEF DeliveryIInv
  <1>2. CASE Surroundings /\ UNCHANGED <<clientVars, netVars>>
    BY <1>0, <1>2, BatchUntouched DEF Surroundings, Tick, HotlistStep, list_row, change_rows
  <1>3. ASSUME NEW d \in Devices, NEW p \in Plates, raise_hit(d, p) \/ queue_hit(d, p)
        PROVE  CallInv' /\ CaptureInv' /\ VerdictInv' /\ NetInv' /\ ServeInv' /\ PhoneInv'
    BY <1>3, Device_captures DEF raise_hit, queue_hit, netVars
  <1>4. ASSUME NEW d \in Devices, run_simulation(d) \/ flush_queue(d) \/ end_video(d) \/ send_hit(d)
        PROVE  CallInv' /\ CaptureInv' /\ VerdictInv' /\ NetInv' /\ ServeInv' /\ PhoneInv'
    BY <1>4, Device_run_simulation, Device_flushes, Device_send_hit DEF flush_queue, end_video
  <1>5. ASSUME NEW d \in Devices, take_reply(d) \/ give_up(d) \/ interrupt(d) \/ revoke_device(d)
        PROVE  CallInv' /\ CaptureInv' /\ VerdictInv' /\ NetInv' /\ ServeInv' /\ PhoneInv'
    BY <1>5, Device_take_reply, Device_stops_waiting, Server_revoke_device
  <1>6. CASE Server
    <2>1. ASSUME NEW r \in Requests, get_current_device(r) \/ begin_batch(r)
          PROVE  CallInv' /\ CaptureInv' /\ VerdictInv' /\ NetInv' /\ ServeInv' /\ PhoneInv'
      BY <2>1, Server_get_current_device, Server_begin_batch
    <2>2. CASE WithinBatch /\ UNCHANGED <<clientVars, netVars>>
      BY <1>0, <2>2, Batch_match, Batch_check_throttle, Batch_store_photo, Batch_persist_sighting
      DEF WithinBatch
    <2>3. CASE end_batch
      BY <1>0, <2>3, Server_end_batch
    <2> QED
      BY <1>6, <2>1, <2>2, <2>3 DEF Server
  <1>7. CASE fail_batch
    BY <1>0, <1>7, Server_fail_batch
  <1>8. CASE UNCHANGED deliveryVars
    BY <1>0, <1>8, BatchUntouched DEF deliveryVars, vars
  <1> QED
    BY <1>2, <1>3, <1>4, <1>5, <1>6, <1>7, <1>8 DEF DeliveryNext

LEMMA DeliveryInvariance == DeliverySpec => []DeliveryIInv
  BY InitDelivery, NextDelivery, PTL DEF DeliverySpec

\* The queues hold rows that the device captured, only simulators play, the calls and the network hold requests
\* for them, and the server serves one while its batch is in progress (hit_queue of the
\* clients, the handlers of POST /sightings).
THEOREM DeliveryTypeCorrect == DeliverySpec => []DeliveryTypeOK
  <1>1. DeliveryIInv => DeliveryTypeOK
    <2> SUFFICES ASSUME DeliveryIInv PROVE DeliveryTypeOK
      OBVIOUS
    <2>1. /\ captured \subseteq Hit /\ revoked \subseteq Devices /\ problems \in 0..MaxProblems
          /\ playing \subseteq Simulators
          /\ wire \cup admitted \subseteq Request /\ serving \in Request \cup {None}
          /\ (serving = None) <=> (current = Waiting)
      BY DEF DeliveryIInv, CaptureInv, NetInv, RequestInv, ServeInv
    <2>2. \A d \in Devices : /\ pass[d] \subseteq queue[d] /\ call[d] \in Request \cup {None}
                             /\ reply[d] \in Verdicts \cup {"none", "refused", "failed"}
      BY DEF DeliveryIInv, CallInv
    <2>3. \A d \in Devices : queue[d] \subseteq {h.event : h \in captured}
      <3>1. \A d, ev : HitAt(d, ev).event = ev
        BY DEF HitAt
      <3>2. \A d \in Devices : \A ev \in queue[d] : HitAt(d, ev) \in captured
        BY DEF DeliveryIInv, CaptureInv
      <3> QED
        BY <3>1, <3>2
    <2>4. \A s \in settled : [device |-> s.device, event |-> s.event] \in captured
      BY DEF DeliveryIInv, CaptureInv, HitOf, HitAt
    <2> QED
      BY <2>1, <2>2, <2>3, <2>4 DEF DeliveryTypeOK
  <1> QED
    BY <1>1, DeliveryInvariance, PTL

\* The sightings of a hit are those that name it.
LEMMA StoredForHit ==
    ASSUME NEW d, NEW ev \in Event, NEW i \in DOMAIN sightings
    PROVE  i \in StoredFor(d, ev) <=> StoredHit(i) = HitAt(d, ev)
  <1>1. ev = [plate |-> ev.plate, captured_at |-> ev.captured_at]
    BY DEF Event
  <1> QED
    BY <1>1 DEF StoredFor, StoredHit, HitAt

\* A captured hit is its device and its event.
LEMMA HitFields ==
    ASSUME CaptureInv, NEW h \in captured
    PROVE  h = HitAt(h.device, h.event) /\ h.event \in Event /\ h.device \in Devices
  BY DEF CaptureInv, Hit, HitAt

\* A row that a client deleted as accepted is in the sightings table, and every sighting
\* is a hit its device had, over lost, late and repeated requests, 500s and crashes.
THEOREM AcceptedMeansStored == DeliverySpec => []AcceptedIsStored
  <1>1. DeliveryIInv => AcceptedIsStored
    <2> SUFFICES ASSUME DeliveryIInv PROVE AcceptedIsStored
      OBVIOUS
    <2>1. ASSUME NEW s \in settled, s.verdict = "accepted"
          PROVE  StoredFor(s.device, s.event) # {}
      <3>1. HitOf(s) \in captured /\ HitOf(s) = HitAt(s.device, s.event)
        BY DEF DeliveryIInv, CaptureInv, HitOf
      <3>2. s.event \in Event
        BY <3>1, HitFields DEF DeliveryIInv, HitAt
      <3>3. PICK i \in DOMAIN sightings : StoredHit(i) = HitOf(s)
        BY <2>1 DEF DeliveryIInv, VerdictInv, Backed
      <3> QED
        BY <3>1, <3>2, <3>3, StoredForHit
    <2>2. ASSUME NEW i \in DOMAIN sightings
          PROVE  \E h \in captured : i \in StoredFor(h.device, h.event)
      <3>1. StoredHit(i) \in captured
        BY DEF DeliveryIInv, CaptureInv
      <3>2. PICK h \in captured : h = StoredHit(i)
        BY <3>1
      <3> QED
        BY <3>2, HitFields, StoredForHit DEF DeliveryIInv
    <2> QED
      BY <2>1, <2>2 DEF AcceptedIsStored
  <1> QED
    BY <1>1, DeliveryInvariance, PTL

\* A call that ends without a 200 has a reason, and so have the rows that an ended
\* simulator leaves.
LeftInv ==
    /\ \A d \in Devices : /\ reply[d] = "refused" => d \in revoked
                          /\ reply[d] = "failed" => failures > 0
    /\ LeftOverOnlyByFailure

\* Steps that touch no queue, no flush and no answer.
LEMMA LeftAlone ==
    ASSUME DeliveryIInv, LeftInv, Grows, UNCHANGED <<queue, playing, pass, problems>>,
           revoked \subseteq revoked',
           \A d \in Devices : \/ reply'[d] \in Verdicts \cup {"none", reply[d]}
                              \/ reply'[d] = "refused" /\ d \in revoked'
                              \/ reply'[d] = "failed" /\ failures' > 0
    PROVE  LeftInv'
  <1>1. failures > 0 => failures' > 0
    BY DEF Grows
  <1>2. \A d \in Devices : /\ reply'[d] = "refused" => d \in revoked'
                           /\ reply'[d] = "failed" => failures' > 0
    BY <1>1 DEF LeftInv, Verdicts, Reasons
  <1>3. LeftOverOnlyByFailure'
    BY <1>1 DEF LeftInv, LeftOverOnlyByFailure
  <1> QED
    BY <1>2, <1>3 DEF LeftInv

\* An answer goes to the device that waits, and to no other.
LEMMA AnswerGoesHome ==
    ASSUME DeliveryIInv, NEW r, NEW answer, Answer(r, answer), NEW d \in Devices
    PROVE  reply'[d] = reply[d] \/ (reply'[d] = answer /\ call[d] = r)
  BY DEF Answer, DeliveryIInv, CallInv

\* Every step of the composition keeps LeftInv.
LEMMA NextLeft ==
    DeliveryIInv /\ LeftInv /\ [DeliveryNext]_deliveryVars => LeftInv'
  <1> SUFFICES ASSUME DeliveryIInv, LeftInv, [DeliveryNext]_deliveryVars PROVE LeftInv'
    OBVIOUS
  <1>0. /\ Grows /\ Simulators \subseteq Devices
        /\ queue \in [Devices -> SUBSET Event] /\ pass \in [Devices -> SUBSET Event]
        /\ reply \in [Devices -> Verdicts \cup {"none", "refused", "failed"}]
    BY IngestKept, ClientAssumption DEF DeliveryIInv, RequestInv, CallInv
  <1>1. CASE UNCHANGED <<clientVars, netVars>>
    BY <1>0, <1>1, LeftAlone DEF clientVars, netVars
  <1>2. ASSUME NEW d \in Devices, NEW p \in Plates, raise_hit(d, p) \/ queue_hit(d, p)
        PROVE  LeftInv'
    <2>1. /\ UNCHANGED <<playing, pass, reply, revoked, failures, problems>>
          /\ queue' = [queue EXCEPT ![d] = @ \cup {Seen(p)}]
      BY <1>2 DEF raise_hit, queue_hit, Enqueue, vars, netVars
    <2>2. d \notin Simulators \ playing
      BY <1>2, ClientAssumption DEF raise_hit, queue_hit
    <2>3. \A e \in Simulators \ playing : queue'[e] = queue[e]
      BY <1>0, <2>1, <2>2
    <2> QED
      BY <2>1, <2>3 DEF LeftInv, LeftOverOnlyByFailure
  <1>3. ASSUME NEW d \in Devices, run_simulation(d) PROVE LeftInv'
    BY <1>3 DEF run_simulation, vars, netVars, LeftInv, LeftOverOnlyByFailure
  <1>4. ASSUME NEW d \in Devices, flush_queue(d) \/ end_video(d) PROVE LeftInv'
    <2>1. /\ d \in playing /\ playing \ {d} \subseteq playing'
          /\ pass' = [pass EXCEPT ![d] = queue[d]]
          /\ UNCHANGED <<queue, reply, revoked, failures, problems>>
      BY <1>4 DEF flush_queue, end_video, StartFlush, vars, netVars
    <2>2. \A e \in Simulators \ playing' : pass'[e] = IF e = d THEN queue[e] ELSE pass[e]
      BY <1>0, <2>1
    <2> QED
      BY <2>1, <2>2 DEF LeftInv, LeftOverOnlyByFailure
  <1>5. ASSUME NEW d \in Devices, give_up(d) \/ interrupt(d) PROVE LeftInv'
    <2>1. /\ problems' > 0 /\ UNCHANGED <<revoked, failures>>
          /\ reply' = [reply EXCEPT ![d] = "none"]
      BY <1>5, ProblemAssumption DEF give_up, interrupt, Return, vars, DeliveryIInv, NetInv
    <2> QED
      BY <1>0, <2>1 DEF LeftInv, LeftOverOnlyByFailure
  <1>6. ASSUME NEW d \in Devices, send_hit(d) PROVE LeftInv'
    BY <1>6 DEF send_hit, vars, LeftInv, LeftOverOnlyByFailure
  <1>7. ASSUME NEW d \in Devices, take_reply(d) PROVE LeftInv'
    <2>1. /\ reply' = [reply EXCEPT ![d] = "none"]
          /\ pass' = [pass EXCEPT ![d] = @ \ {call[d].event}]
          /\ UNCHANGED <<playing, revoked, failures, problems>>
      BY <1>7 DEF take_reply, Return, vars, netVars
    <2>2. CASE reply[d] \in Verdicts \/ (reply[d] = "refused" /\ d \in Phones)
      <3>1. queue' = [queue EXCEPT ![d] = @ \ {call[d].event}]
        BY <1>7, <2>2 DEF take_reply, Delete
      <3>2. \A e \in Simulators \ playing : queue[e] = pass[e] => queue'[e] = pass'[e]
        BY <1>0, <2>1, <3>1
      <3> QED
        BY <1>0, <2>1, <3>2 DEF LeftInv, LeftOverOnlyByFailure
    <2>3. CASE ~(reply[d] \in Verdicts \/ (reply[d] = "refused" /\ d \in Phones))
      <3>1. UNCHANGED queue
        BY <1>7, <2>3 DEF take_reply
      <3>2. d \in revoked \/ failures > 0
        <4>1. reply[d] \in {"refused", "failed"}
          BY <1>0, <1>7, <2>3 DEF take_reply
        <4> QED
          BY <4>1 DEF LeftInv
      <3>3. \A e \in Simulators \ playing : e # d => pass'[e] = pass[e]
        BY <1>0, <2>1
      <3> QED
        BY <1>0, <2>1, <3>1, <3>2, <3>3 DEF LeftInv, LeftOverOnlyByFailure
    <2> QED
      BY <2>2, <2>3
  <1>8. ASSUME NEW d \in Devices, revoke_device(d) PROVE LeftInv'
    BY <1>0, <1>8, LeftAlone DEF revoke_device, clientVars
  <1>9. ASSUME NEW r \in Requests, get_current_device(r) PROVE LeftInv'
    <2>1. \A d \in Devices : reply'[d] = reply[d] \/ (reply'[d] = "refused" /\ d \in revoked')
      <3>1. CASE r.device \in revoked /\ Answer(r, "refused")
        <4>1. \A d \in Devices : call[d] = r => d = r.device
          BY NoRequestAssumption DEF DeliveryIInv, CallInv, RequestInv, Requests
        <4> QED
          BY <1>9, <3>1, <4>1, AnswerGoesHome DEF get_current_device
      <3> QED
        BY <1>9, <3>1 DEF get_current_device
    <2> QED
      BY <1>0, <1>9, <2>1, LeftAlone DEF get_current_device
  <1>10. ASSUME NEW r \in Requests, begin_batch(r) PROVE LeftInv'
    BY <1>0, <1>10, LeftAlone DEF begin_batch, clientVars
  <1>11. CASE end_batch
    <2>1. current.todo = <<>> /\ current # Waiting
      BY <1>11 DEF end_batch, respond, Waiting
    <2>2. current.done[1] \in Verdicts
      BY <2>1 DEF DeliveryIInv, ServeInv, Verdicts
    <2>3. \A d \in Devices : reply'[d] \in Verdicts \cup {"none", reply[d]}
      BY <1>11, <2>2, AnswerGoesHome DEF end_batch
    <2> QED
      BY <1>0, <1>11, <2>3, LeftAlone DEF end_batch
  <1>12. CASE fail_batch
    <2>1. failures' > 0
      BY <1>0, <1>12 DEF fail_batch, ingest_aborts, Grows
    <2>2. \A d \in Devices : reply'[d] \in {reply[d], "failed"}
      BY <1>12, AnswerGoesHome DEF fail_batch
    <2> QED
      BY <1>0, <1>12, <2>1, <2>2, LeftAlone DEF fail_batch
  <1>13. CASE UNCHANGED deliveryVars
    BY <1>1, <1>13 DEF deliveryVars
  <1> QED
    BY <1>1, <1>2, <1>3, <1>4, <1>5, <1>6, <1>7, <1>8, <1>9, <1>10, <1>11, <1>12, <1>13
    DEF DeliveryNext, Server

\* A row that is left when a simulator's video is over was left by a failure: run_simulation
\* flushes once more after its loop, and flush_queue deletes every row that got a 200,
\* whether its hit was stored or turned away.
THEOREM LeftOversExplained == DeliverySpec => []LeftOverOnlyByFailure
  <1>1. DeliveryInit => LeftInv
    BY DEF DeliveryInit, LeftInv, LeftOverOnlyByFailure
  <1>2. LeftInv => LeftOverOnlyByFailure
    BY DEF LeftInv
  <1> QED
    BY <1>1, <1>2, NextLeft, DeliveryInvariance, PTL DEF DeliverySpec

\* As long as the endpoint has not failed, a hit that was deleted as throttled is covered
\* by a stored one; a failure between the key and the commit breaks it.
THEOREM ThrottledIsCovered == DeliverySpec => [](failures = 0 => NoLoss)
  <1>1. DeliveryIInv => (failures = 0 => NoLoss)
    <2> SUFFICES ASSUME DeliveryIInv, failures = 0, NEW s \in settled, s.verdict = "throttled"
                 PROVE  Covered(s.device, s.event)
      BY DEF NoLoss, Covered
    <2>1. Backed("throttled", HitOf(s))
      BY DEF DeliveryIInv, VerdictInv
    <2> QED
      BY <2>1 DEF Backed, HitOf, HitAt
  <1> QED
    BY <1>1, DeliveryInvariance, PTL
-----------------------------------------------------------------------------
(* The refinement: the path of a hit implements HitPromise.                *)

\* A captured hit waits on its device, or has had an answer.
KeptInv == \A h \in captured : Promise!Captured(h)

\* What the devices hold, and what is stored, in the terms of HitPromise.
LEMMA KeptFacts ==
    ASSUME DeliveryIInv
    PROVE  /\ HitsKept \subseteq captured
           /\ \A d \in Devices : \A ev \in Event : HitAt(d, ev) \in HitsKept <=> ev \in queue[d]
           /\ \A h : Promise!InTable(h) <=> \E i \in DOMAIN sightings : StoredHit(i) = h
  <1>1. \A h \in Hit : h = HitAt(h.device, h.event) /\ h.device \in Devices
    BY DEF Hit, HitAt
  <1>2. HitsKept \subseteq captured
    BY <1>1 DEF HitsKept, DeliveryIInv, CaptureInv
  <1>3. \A d \in Devices : \A ev \in Event : HitAt(d, ev) \in HitsKept <=> ev \in queue[d]
    BY DEF HitsKept, HitAt, Hit
  <1>4. \A h : Promise!InTable(h) <=> \E i \in DOMAIN sightings : StoredHit(i) = h
    BY DEF Promise!InTable, HitsStored
  <1> QED
    BY <1>2, <1>3, <1>4

\* What the steps that HitPromise cannot see have in common.
LEMMA PromiseStutters ==
    ASSUME UNCHANGED <<queue, settled, sightings>>
    PROVE  UNCHANGED Promise!promiseVars /\ \A h : Promise!Captured(h)' <=> Promise!Captured(h)
  <1>1. HitsKept' = HitsKept
    BY DEF HitsKept
  <1>2. HitsStored' = HitsStored
    BY DEF HitsStored, StoredHit
  <1>3. \A h : Promise!Captured(h)' <=> Promise!Captured(h)
    BY <1>1 DEF Promise!Captured
  <1> QED
    BY <1>1, <1>2, <1>3 DEF Promise!promiseVars

\* Enqueue is the Capture of a hit that neither waits nor was answered.
LEMMA EnqueueCaptures ==
    ASSUME DeliveryIInv, KeptInv, NEW d \in Devices, NEW p \in Plates, Enqueue(d, Seen(p)),
           UNCHANGED <<settled, sightings>>
    PROVE  Promise!Next /\ KeptInv'
  <1> DEFINE ev == Seen(p)
             h == HitAt(d, ev)
  <1>1. ev \in Event /\ h \in Hit /\ h.device = d /\ h.event = ev
    BY SeenType DEF DeliveryIInv, HitAt, Hit
  <1>2. /\ h \notin captured /\ captured' = captured \cup {h}
        /\ queue' = [queue EXCEPT ![d] = @ \cup {ev}]
    BY DEF Enqueue, HitAt
  <1> HIDE DEF ev, h
  <1>3. \A e \in Devices : queue'[e] = IF e = d THEN queue[e] \cup {ev} ELSE queue[e]
    BY <1>2 DEF DeliveryIInv, RequestInv
  <1>4. HitsKept' = HitsKept \cup {h}
    <2>1. \A x \in Hit : x.device = d /\ x.event = ev => x = h
      BY DEF Hit, HitAt, h
    <2>2. \A x \in Hit : x.device \in Devices
      BY DEF Hit
    <2> QED
      BY <1>1, <1>3, <2>1, <2>2 DEF HitsKept
  <1>5. ~Promise!Captured(h)
    <2>1. h \notin HitsKept
      BY <1>2, KeptFacts
    <2>2. ASSUME NEW answer \in Verdicts \cup {"refused"}, Promise!Settled(h, answer) \in settled
          PROVE  FALSE
      <3>1. HitOf(Promise!Settled(h, answer)) = h
        BY <1>1 DEF Promise!Settled, HitOf, HitAt, h
      <3> QED
        BY <1>2, <2>2, <3>1 DEF DeliveryIInv, CaptureInv
    <2> QED
      BY <2>1, <2>2 DEF Promise!Captured
  <1>6. HitsStored' = HitsStored
    BY DEF HitsStored, StoredHit
  <1>7. Promise!Capture(h)
    BY <1>4, <1>5, <1>6 DEF Promise!Capture
  <1>8. KeptInv'
    BY <1>2, <1>4 DEF KeptInv, Promise!Captured
  <1> QED
    BY <1>1, <1>7, <1>8 DEF Promise!Next

\* Delete is the Settle of the hit that was posted, with the answer it got.
LEMMA DeleteSettles ==
    ASSUME DeliveryIInv, KeptInv, NEW d \in Devices, reply[d] \in Verdicts \cup {"refused"},
           Delete(d, reply[d]), UNCHANGED <<captured, sightings>>
    PROVE  Promise!Next /\ KeptInv'
  <1> DEFINE ev == call[d].event
             h == HitAt(d, ev)
             answer == reply[d]
  <1>1. call[d] # None /\ call[d].device = d /\ ev \in queue[d] /\ ev \in Event /\ reply[d] # "none"
    <2>1. reply[d] # "none"
      BY DEF Verdicts, Reasons
    <2> QED
      BY <2>1 DEF DeliveryIInv, CallInv, RequestInv
  <1>2. h \in Hit /\ h.device = d /\ h.event = ev /\ HitOf(call[d]) = h
    BY <1>1 DEF HitAt, Hit, HitOf
  <1>3. /\ queue' = [queue EXCEPT ![d] = @ \ {ev}]
        /\ settled' = settled \cup {Promise!Settled(h, answer)}
    BY <1>2 DEF Delete, Promise!Settled
  <1>4. answer \in Verdicts \cup {"refused"} /\ (answer = "accepted" => Promise!InTable(h))
    <2>1. Backed(answer, h)
      BY <1>1, <1>2 DEF DeliveryIInv, VerdictInv
    <2> QED
      BY <2>1, KeptFacts DEF Backed
  <1>5. h \in HitsKept
    BY <1>1, KeptFacts
  <1> HIDE DEF ev, answer, h
  <1>6. \A e \in Devices : queue'[e] = IF e = d THEN queue[e] \ {ev} ELSE queue[e]
    BY <1>3 DEF DeliveryIInv, RequestInv
  <1>7. HitsKept' = HitsKept \ {h}
    <2>1. \A x \in Hit : x.device = d /\ x.event = ev => x = h
      BY DEF Hit, HitAt, h
    <2>2. \A x \in Hit : x.device \in Devices
      BY DEF Hit
    <2> QED
      BY <1>2, <1>6, <2>1, <2>2 DEF HitsKept
  <1>8. HitsStored' = HitsStored
    BY DEF HitsStored, StoredHit
  <1>9. Promise!Settle(h, answer)
    BY <1>3, <1>4, <1>5, <1>7, <1>8 DEF Promise!Settle
  <1>10. KeptInv'
    BY <1>3, <1>4, <1>7 DEF KeptInv, Promise!Captured
  <1> QED
    BY <1>2, <1>4, <1>9, <1>10 DEF Promise!Next

\* persist_sighting is the Store of the hit being served, the first one of a phone's.
LEMMA PersistStores ==
    ASSUME DeliveryIInv, KeptInv, persist_sighting, UNCHANGED <<queue, captured, settled>>
    PROVE  Promise!Next /\ KeptInv'
  <1>1. /\ current.todo # <<>> /\ PlateOf[current.entry] = event.plate /\ TypeOK /\ BatchInv
    BY DEF persist_sighting, DeliveryIInv, IngestIInv, BatchInv
  <1>2. PICK r \in Request :
            /\ r = serving /\ r \in Served /\ r.event \in Event
            /\ current.device = r.device /\ event = r.event
    BY <1>1, OneEventLeft
  <1>3. PICK h \in captured : h = HitOf(r)
    BY <1>2 DEF DeliveryIInv, CaptureInv
  <1>4. PICK n \in Nat : n = Len(sightings)
    BY <1>1, Stored
  <1>5. /\ DOMAIN sightings = 1..n /\ DOMAIN sightings' = 1..(n + 1)
        /\ \A i \in 1..n : StoredHit(i)' = StoredHit(i)
        /\ StoredHit(n + 1)' = h
    <2>1. [plate |-> r.event.plate, captured_at |-> r.event.captured_at] = r.event
      BY <1>2 DEF Event
    <2> QED
      BY <1>1, <1>2, <1>3, <1>4, <2>1, Stored DEF StoredHit, HitOf, HitAt
  <1>6. HitsStored' = Append(HitsStored, h)
    <2>1. \A i \in 1..n : StoredHit(i) \in Hit
      BY <1>5 DEF DeliveryIInv, CaptureInv
    <2>2. h \in Hit
      BY DEF DeliveryIInv, CaptureInv
    <2>3. HitsStored \in Seq(Hit) /\ Len(HitsStored) = n
      BY <1>5, <2>1 DEF HitsStored
    <2>4. \A i \in 1..(n + 1) : StoredHit(i)' \in Hit
      BY <1>5, <2>1, <2>2
    <2>5. HitsStored' \in Seq(Hit) /\ Len(HitsStored') = n + 1
      BY <1>5, <2>4 DEF HitsStored
    <2>6. \A i \in 1..(n + 1) : HitsStored'[i] = IF i <= n THEN HitsStored[i] ELSE h
      BY <1>5 DEF HitsStored
    <2>7. /\ Append(HitsStored, h) \in Seq(Hit) /\ Len(Append(HitsStored, h)) = n + 1
          /\ \A i \in 1..(n + 1) : Append(HitsStored, h)[i] = IF i <= n THEN HitsStored[i] ELSE h
      BY <2>2, <2>3, AppendProperties
    <2> QED
      BY <2>5, <2>6, <2>7, SeqEqual
  <1>7. h.device \in Phones => ~Promise!InTable(h)
    <2>1. h.device = r.device
      BY <1>3 DEF HitOf, HitAt
    <2>2. r.device \in Phones => \A i \in DOMAIN sightings : StoredHit(i) # HitOf(r)
      BY <1>1, <1>2 DEF DeliveryIInv, PhoneInv
    <2> QED
      BY <1>3, <2>1, <2>2, KeptFacts
  <1>8. HitsKept' = HitsKept
    BY DEF HitsKept
  <1>9. Promise!Captured(h)
    BY DEF KeptInv
  <1>10. Promise!Store(h)
    BY <1>6, <1>7, <1>8, <1>9 DEF Promise!Store
  <1>11. KeptInv'
    BY <1>8 DEF KeptInv, Promise!Captured
  <1>12. h \in Hit
    BY DEF DeliveryIInv, CaptureInv
  <1> QED
    BY <1>10, <1>11, <1>12 DEF Promise!Next

\* Every step of the path is one of HitPromise or is not seen there.
LEMMA StepKeepsPromise ==
    DeliveryIInv /\ KeptInv /\ [DeliveryNext]_deliveryVars
        => [Promise!Next]_(Promise!promiseVars) /\ KeptInv'
  <1> SUFFICES ASSUME DeliveryIInv, KeptInv, [DeliveryNext]_deliveryVars
               PROVE  (Promise!Next \/ UNCHANGED Promise!promiseVars) /\ KeptInv'
    OBVIOUS
  <1>1. CASE UNCHANGED <<queue, captured, settled, sightings>>
    BY <1>1, PromiseStutters DEF KeptInv
  <1>2. ASSUME NEW d \in Devices, NEW p \in Plates, raise_hit(d, p) \/ queue_hit(d, p)
        PROVE  Promise!Next /\ KeptInv'
    BY <1>2, EnqueueCaptures DEF raise_hit, queue_hit, vars
  <1>3. ASSUME NEW d \in Devices, take_reply(d), ~UNCHANGED <<queue, settled>>
        PROVE  Promise!Next /\ KeptInv'
    BY <1>3, DeleteSettles DEF take_reply, vars
  <1>4. ASSUME NEW d \in Devices,
               \/ run_simulation(d) \/ flush_queue(d) \/ end_video(d) \/ interrupt(d)
               \/ send_hit(d) \/ give_up(d) \/ revoke_device(d)
        PROVE  UNCHANGED <<queue, captured, settled, sightings>>
    BY <1>4 DEF run_simulation, flush_queue, end_video, StartFlush, interrupt,
                send_hit, give_up, revoke_device, clientVars, vars
  <1>5. CASE Surroundings /\ UNCHANGED <<clientVars, netVars>>
    BY <1>1, <1>5 DEF Surroundings, Tick, HotlistStep, list_row, change_rows, clientVars
  <1>6. ASSUME NEW r \in Requests, get_current_device(r) \/ begin_batch(r)
        PROVE  UNCHANGED <<queue, captured, settled, sightings>>
    BY <1>6 DEF get_current_device, begin_batch, ingest_sightings, clientVars, vars
  <1>7. CASE WithinBatch /\ UNCHANGED <<clientVars, netVars>>
    <2>1. CASE persist_sighting
      BY <1>7, <2>1, PersistStores DEF clientVars
    <2>2. CASE ~persist_sighting
      BY <1>1, <1>7, <2>2
      DEF WithinBatch, resolve_captured_at, find_active_hotlist, check_throttle, store_photo, clientVars
    <2> QED
      BY <2>1, <2>2
  <1>8. CASE end_batch \/ fail_batch
    BY <1>1, <1>8 DEF end_batch, fail_batch, respond, ingest_aborts
  <1>9. CASE UNCHANGED deliveryVars
    BY <1>1, <1>9 DEF deliveryVars, vars, clientVars
  <1>10. ASSUME NEW d \in Devices, take_reply(d), UNCHANGED <<queue, settled>>
         PROVE  UNCHANGED <<queue, captured, settled, sightings>>
    BY <1>10 DEF take_reply, vars
  <1> QED
    BY <1>1, <1>2, <1>3, <1>4, <1>5, <1>6, <1>7, <1>8, <1>9, <1>10 DEF DeliveryNext, Server

\* The whole path of a hit implements HitPromise: over timeouts, late and repeated requests,
\* revocations, 500s and crashes a hit waits on its device until it is answered, an
\* accepted one is in the table, and a phone's is stored once.
THEOREM DeliveryKeepsPromise == DeliverySpec => KeepsPromise
  <1>1. DeliveryInit => Promise!Init /\ KeptInv
    <2> SUFFICES ASSUME DeliveryInit PROVE Promise!Init /\ KeptInv
      OBVIOUS
    <2>1. HitsKept = {}
      BY DEF DeliveryInit, HitsKept, Hit
    <2>2. HitsStored = <<>>
      <3>1. sightings = <<>> /\ DOMAIN sightings = {}
        BY DEF DeliveryInit, Init
      <3>2. HitsStored = [i \in {} |-> StoredHit(i)]
        BY <3>1 DEF HitsStored
      <3> QED
        BY <3>2
    <2> QED
      BY <2>1, <2>2 DEF DeliveryInit, Promise!Init, KeptInv
  <1>2. DeliverySpec => [](DeliveryIInv /\ KeptInv)
    BY <1>1, StepKeepsPromise, DeliveryInvariance, PTL DEF DeliverySpec
  <1> QED
    BY <1>1, <1>2, StepKeepsPromise, PTL DEF DeliverySpec, KeepsPromise, Promise!Spec
=============================================================================
