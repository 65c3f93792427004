------------------------ MODULE SightingIngestProofs ------------------------
(***************************************************************************)
(* Theorems about SightingIngest for any number of devices, plates and     *)
(* rows, any length of the batches and of the run, any number of failures, *)
(* and any throttle and cluster window.                                    *)
(*                                                                         *)
(* The safety properties speak of the stored sightings; what makes them    *)
(* inductive is what the event at hand carries from one step to the next:  *)
(* its row (BatchInv), its key (KeysInv, LetThrough), its file and its     *)
(* cluster (FileInv, AssignedInv).                                         *)
(***************************************************************************)
EXTENDS SightingIngest, SequenceTheorems, TLAPS

-----------------------------------------------------------------------------
(* The inductive invariant.                                                *)

\* The event at hand has been matched with a row of its plate that has been listed,
\* and it has not been taken off the batch.
BatchInv ==
    /\ current.stage # "idle" => current.device \in Devices
    /\ current.stage \in {"throttle", "persist", "commit"} =>
          /\ current.todo # <<>>
          /\ current.entry \in Entries
          /\ PlateOf[current.entry] = event.plate
          /\ row[current.entry] # "NONE"
    /\ current.stage \in {"persist", "commit"} => current.throttled_at \in 1..now
    /\ current.notifications \subseteq 1..Len(sightings)

\* The throttle's key of a stored sighting.
KeyOf(s) == <<s.device_id, PlateOf[s.hotlist_id]>>

\* A key lives ThrottleTtl seconds from the last hit it let through.
KeysInv ==
    \A i \in DOMAIN sightings :
        throttle[KeyOf(sightings[i])] >= sightings[i].throttled_at + ThrottleTtl

\* The event the throttle has let through holds its key, and no stored sighting with
\* that key is too recent.
LetThrough ==
    current.stage \in {"persist", "commit"} =>
        /\ throttle[<<current.device, event.plate>>] >= current.throttled_at + ThrottleTtl
        /\ \A i \in DOMAIN sightings :
              (sightings[i].device_id = current.device
                  /\ PlateOf[sightings[i].hotlist_id] = event.plate)
              => current.throttled_at >= sightings[i].throttled_at + ThrottleTtl

\* The event at hand has the newest file; a cluster is named by the file of its
\* founder, so no member has an older file.
FileInv ==
    /\ current.stage = "commit" =>
          /\ current.photo = photos
          /\ current.cluster \in 1..photos
          /\ \A i \in DOMAIN sightings : sightings[i].photo < photos
    /\ \A i \in DOMAIN sightings : sightings[i].cluster_id \in 1..sightings[i].photo

\* Nothing is stored between the choice of a cluster and the commit, so the choice is
\* still the right one.
AssignedInv ==
    current.stage = "commit" =>
        \/ \E i \in Newest(Near(current.entry, event.captured_at)) :
              current.cluster = sightings[i].cluster_id
        \/ Near(current.entry, event.captured_at) = {} /\ current.cluster = photos

ThrottleInv == KeysInv /\ LetThrough /\ ThrottleHolds
ClusterInv == PhotosAccountedFor /\ FileInv /\ AssignedInv /\ ClustersAreChains /\ ExactInOrder

-----------------------------------------------------------------------------
(* The batch.                                                              *)

\* The idle record is a batch.
LEMMA WaitingType == Waiting \in Batch
  BY DEF Waiting, Batch

\* Taking the first event off the batch leaves a batch.
LEMMA FinishType ==
    ASSUME current \in Batch, current.todo # <<>>,
           NEW result \in Reasons \cup {"accepted"}, NEW stored \in SUBSET Nat,
           Finish(result, stored)
    PROVE  /\ current' \in Batch
           /\ current'.stage = "match"
           /\ current'.device = current.device
           /\ current'.notifications = current.notifications \cup stored
  <1>1. /\ current.todo \in Seq(Event)
        /\ current.done \in Seq(Reasons \cup {"accepted"})
        /\ current.device \in Devices \cup {None}
        /\ current.notifications \in SUBSET Nat
    BY DEF Batch
  <1>2. Tail(current.todo) \in Seq(Event)
    BY <1>1, HeadTailProperties
  <1>3. Append(current.done, result) \in Seq(Reasons \cup {"accepted"})
    BY <1>1, AppendProperties
  <1>4. current.notifications \cup stored \in SUBSET Nat
    BY <1>1
  <1> QED
    BY <1>1, <1>2, <1>3, <1>4 DEF Finish, Waiting, Batch

\* The event at hand is an event.
LEMMA EventType ==
    ASSUME current \in Batch, current.todo # <<>>
    PROVE  event \in Event
  BY HeadTailProperties DEF Batch, event

\* What the event at hand stores is a sighting.
LEMMA StoredType ==
    ASSUME TypeOK, BatchInv, current.stage = "commit"
    PROVE  [hotlist_id |-> current.entry, device_id |-> current.device,
            captured_at |-> event.captured_at, photo |-> current.photo,
            cluster_id |-> current.cluster, throttled_at |-> current.throttled_at] \in Sighting
  <1>1. event \in Event
    BY EventType DEF TypeOK, BatchInv
  <1>2. current.throttled_at \in Times
    BY LimitAssumption DEF TypeOK, BatchInv, Times
  <1> QED
    BY <1>1, <1>2 DEF TypeOK, BatchInv, Batch, Sighting, Event

\* Types and the batch hold initially.
LEMMA InitType == Init => TypeOK /\ BatchInv
  <1> SUFFICES ASSUME Init PROVE TypeOK /\ BatchInv
    OBVIOUS
  <1>1. sightings \in Seq(Sighting) /\ Len(sightings) = 0
    BY DEF Init
  <1>2. current \in Batch /\ current.stage = "idle" /\ current.notifications = {}
    BY WaitingType DEF Init, Waiting
  <1>3. TypeOK
    BY <1>1, <1>2, LimitAssumption DEF Init, TypeOK, Times
  <1>4. BatchInv
    BY <1>2 DEF BatchInv
  <1> QED
    BY <1>3, <1>4

\* Every step keeps the types and what the batch knows of the event at hand.
LEMMA NextType == TypeOK /\ BatchInv /\ [Next]_vars => TypeOK' /\ BatchInv'
  <1> SUFFICES ASSUME TypeOK, BatchInv, [Next]_vars PROVE TypeOK' /\ BatchInv'
    OBVIOUS
  <1> USE DurationAssumption, LimitAssumption
  <1>0. current \in Batch /\ sightings \in Seq(Sighting) /\ Len(sightings) \in Nat
    BY DEF TypeOK
  <1>1. CASE Tick
    BY <1>0, <1>1 DEF Tick, TypeOK, BatchInv, Times, Batch, event
  <1>2. ASSUME NEW e \in Entries, list_row(e) PROVE TypeOK' /\ BatchInv'
    BY <1>0, <1>2 DEF list_row, View!Insert, TypeOK, BatchInv, event
  <1>3. ASSUME NEW batch \in SUBSET Entries, NEW to \in {"ACTIVE", "INACTIVE"},
               change_rows(batch, to)
        PROVE  TypeOK' /\ BatchInv'
    BY <1>0, <1>3 DEF change_rows, View!Set, TypeOK, BatchInv, event
  <1>4. ASSUME NEW d \in Devices, NEW batch \in Batches, ingest_sightings(d, batch)
        PROVE  TypeOK' /\ BatchInv'
    <2>1. PICK n \in 1..MaxBatch : batch \in [1..n -> Event]
      BY <1>4 DEF Batches
    <2>2. batch \in Seq(Event) /\ Len(batch) \in Nat
      <3>1. n \in Nat
        OBVIOUS
      <3> QED
        BY <2>1, <3>1, SeqDef, LenProperties
    <2>3. /\ current' \in Batch
          /\ current'.stage = "match" /\ current'.device = d /\ current'.notifications = {}
      <3>1. current' = [Waiting EXCEPT !.device = d, !.todo = batch, !.stage = "match"]
        BY <1>4 DEF ingest_sightings
      <3>2. current' \in Batch
        BY <2>2, <3>1, WaitingType DEF Batch
      <3> QED
        BY <3>1, <3>2 DEF Waiting
    <2>4. events' \in 0..MaxEvents
      BY <1>4, <2>2 DEF ingest_sightings, TypeOK
    <2> QED
      BY <1>0, <1>4, <2>3, <2>4 DEF ingest_sightings, TypeOK, BatchInv
  <1>5. ASSUME NEW reason \in Reasons, current.stage # "idle", current.todo # <<>>, Drop(reason),
               UNCHANGED <<now, row, throttle, photos, sightings, lastSeen, pushed, events, failures>>
        PROVE  TypeOK' /\ BatchInv'
    <2>1. /\ current' \in Batch /\ current'.stage = "match"
          /\ current'.device = current.device
          /\ current'.notifications = current.notifications \cup {}
      BY <1>0, <1>5, FinishType DEF Drop
    <2> QED
      BY <1>0, <1>5, <2>1 DEF TypeOK, BatchInv
  <1>6. CASE resolve_captured_at
    BY <1>5, <1>6 DEF resolve_captured_at, Reasons
  <1>7. CASE find_active_hotlist
    <2>1. CASE Drop("plate_not_hotlisted")
      BY <1>5, <1>7, <2>1 DEF find_active_hotlist, Reasons
    <2>2. ASSUME NEW e \in ActiveRows(event.plate),
                 current' = [current EXCEPT !.stage = "throttle", !.entry = e]
          PROVE  TypeOK' /\ BatchInv'
      <3>1. /\ current' \in Batch
            /\ current'.stage = "throttle" /\ current'.entry = e
            /\ current'.todo = current.todo /\ current'.device = current.device
            /\ current'.notifications = current.notifications
        BY <1>0, <2>2 DEF Batch, ActiveRows
      <3>2. e \in Entries /\ PlateOf[e] = event.plate /\ row[e] = "ACTIVE"
        BY <2>2 DEF ActiveRows
      <3>3. event' = event
        BY <3>1 DEF event
      <3> QED
        BY <1>0, <1>7, <3>1, <3>2, <3>3 DEF find_active_hotlist, TypeOK, BatchInv
    <2> QED
      BY <1>7, <2>1, <2>2 DEF find_active_hotlist
  <1>8. CASE check_throttle
    <2>1. CASE Drop("throttled") /\ UNCHANGED throttle
      BY <1>5, <1>8, <2>1 DEF check_throttle, Reasons, BatchInv
    <2>2. CASE /\ throttle' = [throttle EXCEPT ![<<current.device, event.plate>>] = now + ThrottleTtl]
               /\ current' = [current EXCEPT !.stage = "persist", !.throttled_at = now]
      <3>0. now \in Nat /\ now \in 1..now
        BY DEF TypeOK, Times
      <3>1. /\ current' \in Batch
            /\ current'.stage = "persist" /\ current'.entry = current.entry
            /\ current'.todo = current.todo /\ current'.device = current.device
            /\ current'.throttled_at = now
            /\ current'.notifications = current.notifications
        BY <1>0, <2>2, <3>0 DEF Batch
      <3>2. event' = event
        BY <3>1 DEF event
      <3>3. throttle' \in [Devices \X Plates -> Nat]
        <4>1. throttle \in [Devices \X Plates -> Nat] /\ now + ThrottleTtl \in Nat
          BY <3>0 DEF TypeOK
        <4> QED
          BY <2>2, <4>1
      <3>4. UNCHANGED <<now, row, photos, sightings, lastSeen, pushed, events, failures>>
        BY <1>8 DEF check_throttle
      <3>5. current.stage = "throttle"
        BY <1>8 DEF check_throttle
      <3>6. TypeOK'
        BY <3>1, <3>3, <3>4 DEF TypeOK
      <3>7. BatchInv'
        BY <3>0, <3>1, <3>2, <3>4, <3>5 DEF BatchInv
      <3> QED
        BY <3>6, <3>7
    <2> QED
      BY <1>8, <2>1, <2>2 DEF check_throttle
  <1>9. CASE store_photo
    <2>1. PICK c \in 1..(photos + 1) :
             current' = [current EXCEPT !.stage = "commit", !.photo = photos + 1, !.cluster = c]
      BY <1>9 DEF store_photo
    <2>2. c \in Nat /\ photos + 1 \in Nat
      BY DEF TypeOK
    <2>3. /\ current' \in Batch
          /\ current'.stage = "commit" /\ current'.entry = current.entry
          /\ current'.todo = current.todo /\ current'.device = current.device
          /\ current'.throttled_at = current.throttled_at
          /\ current'.notifications = current.notifications
      BY <1>0, <2>1, <2>2 DEF Batch
    <2>4. event' = event
      BY <2>3 DEF event
    <2> QED
      BY <1>0, <1>9, <2>2, <2>3, <2>4 DEF store_photo, TypeOK, BatchInv
  <1>10. CASE persist_sighting
    <2>1. sightings' \in Seq(Sighting) /\ Len(sightings') = Len(sightings) + 1
      BY <1>0, <1>10, StoredType, AppendProperties DEF persist_sighting
    <2>2. /\ current' \in Batch /\ current'.stage = "match"
          /\ current'.device = current.device
          /\ current'.notifications = current.notifications \cup {Len(sightings) + 1}
      <3>1. {Len(sightings) + 1} \in SUBSET Nat
        BY <1>0
      <3>2. current.todo # <<>> /\ Finish("accepted", {Len(sightings) + 1})
        BY <1>10 DEF persist_sighting, BatchInv
      <3> QED
        BY <1>0, <3>1, <3>2, FinishType
    <2>3. event.captured_at \in Nat
      BY <1>0, <1>10, EventType DEF persist_sighting, BatchInv, Event, Times
    <2>4. lastSeen' \in [Entries -> Nat]
      BY <1>10, <2>3 DEF persist_sighting, TypeOK
    <2> QED
      BY <1>0, <1>10, <2>1, <2>2, <2>4 DEF persist_sighting, TypeOK, BatchInv
  <1>11. CASE respond
    BY <1>0, <1>11, WaitingType DEF respond, TypeOK, BatchInv, Waiting
  <1>12. CASE ingest_aborts
    BY <1>0, <1>12, WaitingType DEF ingest_aborts, TypeOK, BatchInv, Waiting
  <1>13. CASE UNCHANGED vars
    BY <1>0, <1>13 DEF vars, TypeOK, BatchInv, event
  <1> QED
    BY <1>1, <1>2, <1>3, <1>4, <1>6, <1>7, <1>8, <1>9, <1>10, <1>11, <1>12, <1>13 DEF Next, Process, HotlistStep

-----------------------------------------------------------------------------
(* Stored sightings.                                                       *)

\* The table and the event at hand after persist_sighting.
LEMMA Stored ==
    ASSUME TypeOK, BatchInv, persist_sighting
    PROVE  /\ DOMAIN sightings = 1..Len(sightings) /\ Len(sightings) \in Nat
           /\ DOMAIN sightings' = 1..(Len(sightings) + 1)
           /\ \A i \in DOMAIN sightings : sightings'[i] = sightings[i]
           /\ sightings'[Len(sightings) + 1] =
                [hotlist_id |-> current.entry, device_id |-> current.device,
                 captured_at |-> event.captured_at, photo |-> current.photo,
                 cluster_id |-> current.cluster, throttled_at |-> current.throttled_at]
           /\ current'.stage = "match"
           /\ current'.notifications = current.notifications \cup {Len(sightings) + 1}
  <1> DEFINE s == [hotlist_id |-> current.entry, device_id |-> current.device,
                   captured_at |-> event.captured_at, photo |-> current.photo,
                   cluster_id |-> current.cluster, throttled_at |-> current.throttled_at]
  <1>1. s \in Sighting
    BY StoredType DEF persist_sighting
  <1>2. sightings \in Seq(Sighting) /\ sightings' = Append(sightings, s)
    BY DEF TypeOK, persist_sighting
  <1>3. sightings' \in Seq(Sighting) /\ Len(sightings') = Len(sightings) + 1
    BY <1>1, <1>2, AppendProperties
  <1>4. /\ \A i \in 1..Len(sightings) : sightings'[i] = sightings[i]
        /\ sightings'[Len(sightings) + 1] = s
    BY <1>1, <1>2, AppendProperties
  <1>5. /\ DOMAIN sightings = 1..Len(sightings) /\ Len(sightings) \in Nat
        /\ DOMAIN sightings' = 1..Len(sightings')
    BY <1>2, <1>3, LenProperties
  <1>6. /\ current'.stage = "match"
        /\ current'.notifications = current.notifications \cup {Len(sightings) + 1}
    BY DEF persist_sighting, Finish, Waiting
  <1> QED
    BY <1>3, <1>4, <1>5, <1>6

\* A stored sighting has the fields of its type.
LEMMA SightingFields ==
    ASSUME TypeOK, NEW i \in DOMAIN sightings
    PROVE  /\ sightings[i].hotlist_id \in Entries
           /\ sightings[i].device_id \in Devices
           /\ sightings[i].captured_at \in Times
           /\ sightings[i].photo \in Nat
           /\ sightings[i].cluster_id \in Nat
           /\ sightings[i].throttled_at \in Times
           /\ PlateOf[sightings[i].hotlist_id] \in Plates
  <1>1. sightings[i] \in Sighting
    BY ElementOfSeq, LenProperties DEF TypeOK
  <1> QED
    BY <1>1, PlateAssumption DEF Sighting

-----------------------------------------------------------------------------
(* The throttle.                                                           *)

\* It is a key.
LEMMA KeyType ==
    ASSUME TypeOK, NEW i \in DOMAIN sightings
    PROVE  KeyOf(sightings[i]) \in Devices \X Plates /\ sightings[i].throttled_at \in Nat
  BY SightingFields, LimitAssumption DEF KeyOf, Times

\* Every step keeps the throttle invariant.
LEMMA NextThrottle ==
    TypeOK /\ BatchInv /\ ThrottleInv /\ [Next]_vars => ThrottleInv'
  <1> SUFFICES ASSUME TypeOK, BatchInv, ThrottleInv, [Next]_vars PROVE ThrottleInv'
    OBVIOUS
  <1> USE DurationAssumption, LimitAssumption
  \* Nothing is stored, no key is touched, and the event at hand is the same or gone.
  <1>1. ASSUME UNCHANGED <<throttle, sightings>>,
               \/ current' = current
               \/ current'.stage \notin {"persist", "commit"}
        PROVE  ThrottleInv'
    BY <1>1 DEF ThrottleInv, KeysInv, KeyOf, LetThrough, ThrottleHolds, SameKey, event
  <1>2. CASE Tick \/ HotlistStep \/ UNCHANGED vars
    BY <1>1, <1>2 DEF Tick, HotlistStep, list_row, change_rows, vars
  <1>3. CASE \/ \E d \in Devices, batch \in Batches : ingest_sightings(d, batch)
             \/ resolve_captured_at \/ find_active_hotlist
    <2>1. UNCHANGED <<throttle, sightings>>
      BY <1>3 DEF ingest_sightings, resolve_captured_at, find_active_hotlist
    <2>2. CASE \E d \in Devices, batch \in Batches : ingest_sightings(d, batch)
      BY <1>1, <2>1, <2>2 DEF ingest_sightings, Waiting
    <2>3. ASSUME NEW reason, Drop(reason) PROVE ThrottleInv'
      BY <1>1, <2>1, <2>3 DEF Drop, Finish, Waiting
    <2>4. ASSUME NEW e, current' = [current EXCEPT !.stage = "throttle", !.entry = e]
          PROVE  ThrottleInv'
      <3>1. current'.stage = "throttle"
        BY <2>4 DEF TypeOK, Batch
      <3> QED
        BY <1>1, <2>1, <3>1
    <2> QED
      BY <1>3, <2>2, <2>3, <2>4 DEF resolve_captured_at, find_active_hotlist
  <1>4. CASE respond \/ ingest_aborts
    BY <1>1, <1>4 DEF respond, ingest_aborts, Waiting
  <1>5. CASE check_throttle
    <2> DEFINE key == <<current.device, event.plate>>
    <2>1. CASE Drop("throttled") /\ UNCHANGED throttle
      BY <1>1, <1>5, <2>1 DEF check_throttle, Drop, Finish, Waiting
    <2>2. CASE /\ throttle[key] <= now
               /\ throttle' = [throttle EXCEPT ![key] = now + ThrottleTtl]
               /\ current' = [current EXCEPT !.stage = "persist", !.throttled_at = now]
      <3>1. /\ UNCHANGED sightings /\ now \in Nat
            /\ current.stage = "throttle" /\ current.todo # <<>>
            /\ throttle \in [Devices \X Plates -> Nat]
        BY <1>5 DEF check_throttle, TypeOK, BatchInv, Times
      <3>2. key \in Devices \X Plates
        BY <3>1, EventType DEF TypeOK, BatchInv, Event
      <3>3. /\ current'.todo = current.todo /\ current'.device = current.device
            /\ current'.throttled_at = now /\ event' = event
        BY <2>2 DEF TypeOK, Batch, event
      <3>4. throttle'[key] = now + ThrottleTtl
        BY <2>2, <3>1, <3>2
      <3>5. \A k \in Devices \X Plates : throttle'[k] >= throttle[k]
        BY <2>2, <3>1, <3>2
      <3>6. KeysInv'
        <4> SUFFICES ASSUME NEW i \in DOMAIN sightings
                     PROVE  throttle'[KeyOf(sightings[i])] >= sightings[i].throttled_at + ThrottleTtl
          BY <3>1 DEF KeysInv, KeyOf
        <4>1. KeyOf(sightings[i]) \in Devices \X Plates /\ sightings[i].throttled_at \in Nat
          BY KeyType
        <4>2. throttle[KeyOf(sightings[i])] >= sightings[i].throttled_at + ThrottleTtl
          BY DEF KeysInv, ThrottleInv
        <4>3. /\ throttle'[KeyOf(sightings[i])] >= throttle[KeyOf(sightings[i])]
              /\ throttle'[KeyOf(sightings[i])] \in Nat
              /\ throttle[KeyOf(sightings[i])] \in Nat
          BY <2>2, <3>1, <3>2, <3>5, <4>1
        <4> QED
          BY <4>1, <4>2, <4>3
      <3>7. ASSUME NEW i \in DOMAIN sightings,
                   sightings[i].device_id = current.device,
                   PlateOf[sightings[i].hotlist_id] = event.plate
            PROVE  now >= sightings[i].throttled_at + ThrottleTtl
        <4>1. KeyOf(sightings[i]) = key /\ sightings[i].throttled_at \in Nat
          BY <3>7, KeyType DEF KeyOf
        <4>2. throttle[KeyOf(sightings[i])] >= sightings[i].throttled_at + ThrottleTtl
          BY DEF KeysInv, ThrottleInv
        <4>3. throttle[key] \in Nat
          BY <3>1, <3>2
        <4> QED
          BY <2>2, <3>1, <4>1, <4>2, <4>3
      <3>8. LetThrough'
        <4>1. throttle'[<<current.device, event.plate>>] >= now + ThrottleTtl
          BY <3>1, <3>4
        <4> QED
          BY <3>1, <3>3, <3>7, <4>1 DEF LetThrough
      <3>9. ThrottleHolds'
        BY <3>1 DEF ThrottleHolds, SameKey, ThrottleInv
      <3> QED
        BY <3>6, <3>8, <3>9 DEF ThrottleInv
    <2> QED
      BY <1>5, <2>1, <2>2 DEF check_throttle
  <1>6. CASE store_photo
    <2>1. /\ UNCHANGED <<throttle, sightings>> /\ current.stage = "persist"
          /\ current'.todo = current.todo /\ current'.device = current.device
          /\ current'.throttled_at = current.throttled_at /\ event' = event
      BY <1>6 DEF store_photo, TypeOK, Batch, event
    <2> QED
      BY <2>1 DEF ThrottleInv, KeysInv, KeyOf, LetThrough, ThrottleHolds, SameKey
  <1>7. CASE persist_sighting
    <2> DEFINE n == Len(sightings) + 1
    <2>1. /\ current.stage = "commit" /\ UNCHANGED throttle
          /\ PlateOf[current.entry] = event.plate
      BY <1>7 DEF persist_sighting, BatchInv
    <2>5. /\ DOMAIN sightings = 1..Len(sightings) /\ Len(sightings) \in Nat
          /\ DOMAIN sightings' = 1..n
          /\ \A i \in DOMAIN sightings : sightings'[i] = sightings[i]
          /\ sightings'[n].hotlist_id = current.entry
          /\ sightings'[n].device_id = current.device
          /\ sightings'[n].throttled_at = current.throttled_at
          /\ current'.stage = "match"
      BY <1>7, Stored
    <2>2. KeysInv'
      <3> SUFFICES ASSUME NEW i \in DOMAIN sightings'
                   PROVE  throttle[KeyOf(sightings'[i])] >= sightings'[i].throttled_at + ThrottleTtl
        BY <2>1 DEF KeysInv, KeyOf
      <3>1. CASE i \in DOMAIN sightings
        BY <2>5, <3>1 DEF KeysInv, ThrottleInv
      <3>2. CASE i = n
        BY <2>1, <2>5, <3>2 DEF LetThrough, ThrottleInv, KeyOf
      <3> QED
        BY <2>5, <3>1, <3>2
    <2>3. LetThrough'
      BY <2>5 DEF LetThrough
    <2>4. ThrottleHolds'
      <3> SUFFICES ASSUME NEW i \in DOMAIN sightings', NEW j \in DOMAIN sightings',
                          i < j, SameKey(sightings'[i], sightings'[j])
                   PROVE  sightings'[j].throttled_at >= sightings'[i].throttled_at + ThrottleTtl
        BY DEF ThrottleHolds, SameKey
      <3>1. CASE j \in DOMAIN sightings
        BY <2>5, <3>1 DEF ThrottleHolds, ThrottleInv
      <3>2. CASE j = n
        <4>1. i \in DOMAIN sightings /\ sightings'[i] = sightings[i]
          BY <2>5, <3>2
        <4>2. /\ sightings[i].device_id = current.device
              /\ PlateOf[sightings[i].hotlist_id] = event.plate
          BY <2>1, <2>5, <3>2, <4>1 DEF SameKey
        <4> QED
          BY <2>1, <2>5, <3>2, <4>1, <4>2 DEF LetThrough, ThrottleInv
      <3> QED
        BY <2>5, <3>1, <3>2
    <2> QED
      BY <2>2, <2>3, <2>4 DEF ThrottleInv
  <1> QED
    BY <1>2, <1>3, <1>4, <1>5, <1>6, <1>7 DEF Next, Process

-----------------------------------------------------------------------------
(* Files and clusters.                                                     *)

\* A cluster lies within one row.
OneRow ==
    \A i, j \in DOMAIN sightings :
        sightings[i].cluster_id = sightings[j].cluster_id
        => sightings[i].hotlist_id = sightings[j].hotlist_id

\* ClustersAreChains says it of pairs in order, so it holds of all.
LEMMA ChainsInOneRow == TypeOK /\ ClustersAreChains => OneRow
  <1> SUFFICES ASSUME TypeOK, ClustersAreChains, NEW i \in DOMAIN sightings,
                      NEW j \in DOMAIN sightings,
                      sightings[i].cluster_id = sightings[j].cluster_id
               PROVE  sightings[i].hotlist_id = sightings[j].hotlist_id
    BY DEF OneRow
  <1>1. i \in Nat /\ j \in Nat
    BY LenProperties DEF TypeOK
  <1>2. i < j \/ j < i \/ i = j
    BY <1>1
  <1> QED
    BY <1>2 DEF ClustersAreChains

\* When nothing is stored and no file is written, the event at hand may go on as long
\* as it does not enter or leave the commit.
LEMMA QuietCluster ==
    ASSUME TypeOK, ClusterInv,
           UNCHANGED <<sightings, photos, lastSeen, failures>>,
           \/ current' = current
           \/ current.stage # "commit" /\ current'.stage # "commit"
    PROVE  ClusterInv'
  <1>1. PhotosAccountedFor'
    BY DEF ClusterInv, PhotosAccountedFor
  <1>2. FileInv'
    BY DEF ClusterInv, FileInv
  <1>3. AssignedInv'
    BY DEF ClusterInv, AssignedInv, Newest, Near, event
  <1>4. ClustersAreChains' /\ ExactInOrder'
    BY DEF ClusterInv, ClustersAreChains, ExactInOrder, InOrder, Close
  <1> QED
    BY <1>1, <1>2, <1>3, <1>4 DEF ClusterInv

\* store_photo: the new file is younger than every stored one, and the cluster is the
\* newest in the window or the new file's.
LEMMA StorePhotoCluster ==
    ASSUME TypeOK, BatchInv, ClusterInv, store_photo
    PROVE  ClusterInv'
  <1>1. PICK c \in 1..(photos + 1) :
           /\ assign_cluster(current.entry, event.captured_at, c)
           /\ current' = [current EXCEPT !.stage = "commit", !.photo = photos + 1, !.cluster = c]
    BY DEF store_photo
  <1>2. /\ UNCHANGED <<sightings, lastSeen, failures>> /\ photos' = photos + 1
        /\ current.stage = "persist" /\ photos \in Nat
    BY DEF store_photo, TypeOK
  <1>3. /\ current'.stage = "commit" /\ current'.photo = photos + 1 /\ current'.cluster = c
        /\ current'.entry = current.entry /\ event' = event
    BY <1>1 DEF TypeOK, Batch, event
  <1>4. /\ \A i \in DOMAIN sightings : sightings[i].photo \in 1..photos
        /\ photos <= Len(sightings) + failures
    BY <1>2 DEF ClusterInv, PhotosAccountedFor, TypeOK
  <1>5. PhotosAccountedFor'
    <2>1. Len(sightings) \in Nat /\ failures \in Nat
      BY LimitAssumption DEF TypeOK
    <2>2. \A i \in DOMAIN sightings : sightings[i].photo \in 1..(photos + 1)
      BY <1>2, <1>4
    <2>3. \A i, j \in DOMAIN sightings : i < j => sightings[i].photo < sightings[j].photo
      BY DEF ClusterInv, PhotosAccountedFor
    <2>4. photos + 1 <= Len(sightings) + failures + 1
      BY <1>2, <1>4, <2>1
    <2> QED
      BY <1>2, <1>3, <2>2, <2>3, <2>4 DEF PhotosAccountedFor
  <1>6. FileInv'
    <2>1. \A i \in DOMAIN sightings : sightings[i].photo < photos + 1
      BY <1>2, <1>4
    <2>2. \A i \in DOMAIN sightings : sightings[i].cluster_id \in 1..sightings[i].photo
      BY DEF ClusterInv, FileInv
    <2> QED
      BY <1>1, <1>2, <1>3, <2>1, <2>2 DEF FileInv
  <1>7. AssignedInv'
    <2>1. /\ Near(current.entry, event.captured_at)' = Near(current.entry, event.captured_at)
          /\ Newest(Near(current.entry, event.captured_at))'
                = Newest(Near(current.entry, event.captured_at))
      BY <1>2, <1>3 DEF Near, Newest
    <2> QED
      BY <1>1, <1>2, <1>3, <2>1 DEF AssignedInv, assign_cluster
  <1>8. ClustersAreChains' /\ ExactInOrder'
    BY <1>2 DEF ClusterInv, ClustersAreChains, ExactInOrder, InOrder, Close
  <1> QED
    BY <1>5, <1>6, <1>7, <1>8 DEF ClusterInv

\* persist_sighting: the new sighting takes its place in a chain of its own row, and
\* for arrivals in order it is in the cluster of every capture within the window.
LEMMA PersistCluster ==
    ASSUME TypeOK, BatchInv, ClusterInv, persist_sighting
    PROVE  ClusterInv'
  <1> DEFINE n == Len(sightings) + 1
             e == current.entry
             t == event.captured_at
             c == current.cluster
  <1> USE DurationAssumption, LimitAssumption
  <1>1. /\ DOMAIN sightings = 1..Len(sightings) /\ Len(sightings) \in Nat
        /\ DOMAIN sightings' = 1..n
        /\ \A i \in DOMAIN sightings : sightings'[i] = sightings[i]
        /\ sightings'[n].hotlist_id = e
        /\ sightings'[n].captured_at = t
        /\ sightings'[n].photo = current.photo
        /\ sightings'[n].cluster_id = c
        /\ current'.stage = "match"
    BY Stored
  <1>2. /\ current.stage = "commit" /\ UNCHANGED <<photos, failures>>
        /\ lastSeen' = [lastSeen EXCEPT ![e] = t] /\ e \in Entries
        /\ lastSeen \in [Entries -> Nat]
    BY DEF persist_sighting, BatchInv, TypeOK
  <1>3. t \in Nat
    <2>1. event \in Event
      BY EventType DEF persist_sighting, TypeOK, BatchInv
    <2> QED
      BY <2>1 DEF Event, Times
  <1>4. /\ current.photo = photos /\ c \in 1..photos /\ photos \in Nat
        /\ \A i \in DOMAIN sightings : /\ sightings[i].photo < photos
                                        /\ sightings[i].cluster_id \in 1..sightings[i].photo
    BY <1>2 DEF ClusterInv, FileInv, TypeOK
  <1>5. \A i \in DOMAIN sightings : sightings[i].captured_at \in Nat /\ sightings[i].photo \in Nat
    BY SightingFields DEF Times
  <1>6. PhotosAccountedFor'
    <2>1. /\ \A i \in DOMAIN sightings : sightings[i].photo \in 1..photos
          /\ \A i, j \in DOMAIN sightings : i < j => sightings[i].photo < sightings[j].photo
          /\ photos <= Len(sightings) + failures + 1
      BY <1>2 DEF ClusterInv, PhotosAccountedFor
    <2>2. \A i \in 1..n : sightings'[i].photo \in 1..photos
      BY <1>1, <1>4, <2>1
    <2>3. ASSUME NEW i \in 1..n, NEW j \in 1..n, i < j
          PROVE  sightings'[i].photo < sightings'[j].photo
      <3>1. i \in DOMAIN sightings /\ sightings'[i] = sightings[i]
        BY <1>1, <2>3
      <3>2. CASE j \in DOMAIN sightings
        BY <1>1, <2>1, <2>3, <3>1, <3>2
      <3>3. CASE j = n
        BY <1>1, <1>4, <3>1, <3>3
      <3> QED
        BY <1>1, <3>2, <3>3
    <2>4. Len(sightings') = n /\ failures \in Nat
      <3>1. sightings' \in Seq(Sighting)
        BY StoredType, AppendProperties DEF persist_sighting, TypeOK
      <3>2. Len(sightings') \in Nat /\ DOMAIN sightings' = 1..Len(sightings')
        BY <3>1, LenProperties
      <3> QED
        BY <1>1, <3>2 DEF TypeOK
    <2> QED
      BY <1>1, <1>2, <2>1, <2>2, <2>3, <2>4 DEF PhotosAccountedFor
  <1>7. FileInv'
    <2>1. \A i \in 1..n : sightings'[i].cluster_id \in 1..sightings'[i].photo
      BY <1>1, <1>4
    <2> QED
      BY <1>1, <2>1 DEF FileInv
  <1>8. AssignedInv'
    BY <1>1 DEF AssignedInv
  <1>9. \/ \E k \in Newest(Near(e, t)) : c = sightings[k].cluster_id
        \/ Near(e, t) = {} /\ c = photos
    BY <1>2 DEF ClusterInv, AssignedInv
  \* Whoever shares the new sighting's cluster is in its row, and a member is close.
  <1>10. ASSUME NEW i \in DOMAIN sightings, sightings[i].cluster_id = c
         PROVE  /\ sightings[i].hotlist_id = e
                /\ \E k \in DOMAIN sightings :
                      /\ sightings[k].cluster_id = c /\ sightings[k].hotlist_id = e
                      /\ sightings[k].captured_at - t \in (-Window)..Window
    <2>1. c # photos
      <3>1. sightings[i].cluster_id <= sightings[i].photo /\ sightings[i].photo < photos
        BY <1>4, <1>5
      <3> QED
        BY <1>4, <1>5, <1>10, <3>1, SightingFields
    <2>2. PICK k \in Newest(Near(e, t)) : c = sightings[k].cluster_id
      BY <1>9, <2>1
    <2>3. /\ k \in DOMAIN sightings /\ sightings[k].hotlist_id = e
          /\ sightings[k].captured_at >= t - Window
          /\ sightings[k].captured_at <= t + Window
      BY <2>2 DEF Newest, Near
    <2>4. sightings[k].captured_at - t \in (-Window)..Window
      BY <1>3, <1>5, <2>3
    <2>5. sightings[i].hotlist_id = e
      BY <1>10, <2>2, <2>3, ChainsInOneRow DEF ClusterInv, OneRow
    <2> QED
      BY <2>2, <2>3, <2>4, <2>5
  <1>11. ClustersAreChains'
    <2> SUFFICES ASSUME NEW i \in 1..n, NEW j \in 1..n, i < j,
                        sightings'[i].cluster_id = sightings'[j].cluster_id
                 PROVE  /\ sightings'[i].hotlist_id = sightings'[j].hotlist_id
                        /\ \E k \in 1..(j - 1) :
                              /\ sightings'[k].cluster_id = sightings'[j].cluster_id
                              /\ sightings'[k].hotlist_id = sightings'[j].hotlist_id
                              /\ sightings'[k].captured_at - sightings'[j].captured_at
                                    \in (-Window)..Window
      BY <1>1 DEF ClustersAreChains, Close
    <2>1. i \in DOMAIN sightings /\ sightings'[i] = sightings[i]
      BY <1>1
    <2>2. CASE j \in DOMAIN sightings
      <3>1. /\ sightings[i].hotlist_id = sightings[j].hotlist_id
            /\ \E k \in 1..(j - 1) : /\ sightings[k].cluster_id = sightings[j].cluster_id
                                      /\ sightings[k].hotlist_id = sightings[j].hotlist_id
                                      /\ sightings[k].captured_at - sightings[j].captured_at
                                            \in (-Window)..Window
        BY <1>1, <2>1, <2>2 DEF ClusterInv, ClustersAreChains, Close
      <3>2. \A k \in 1..(j - 1) : k \in DOMAIN sightings /\ sightings'[k] = sightings[k]
        BY <1>1, <2>2
      <3> QED
        BY <1>1, <2>1, <2>2, <3>1, <3>2
    <2>3. CASE j = n
      <3>1. PICK k \in DOMAIN sightings :
               /\ sightings[k].cluster_id = c /\ sightings[k].hotlist_id = e
               /\ sightings[k].captured_at - t \in (-Window)..Window
        BY <1>1, <1>10, <2>1, <2>3
      <3>2. k \in 1..(j - 1)
        BY <1>1, <2>3
      <3> QED
        BY <1>1, <1>10, <2>1, <2>3, <3>1, <3>2
    <2> QED
      BY <1>1, <2>2, <2>3
  <1>12. ExactInOrder'
    <2> SUFFICES ASSUME NEW x \in Entries, InOrder(x)', NEW i \in 1..n, NEW j \in 1..n,
                        sightings'[i].hotlist_id = x, sightings'[j].hotlist_id = x
                 PROVE  /\ Close(i, j)' => sightings'[i].cluster_id = sightings'[j].cluster_id
                        /\ sightings'[i].captured_at <= lastSeen'[x]
      BY <1>1 DEF ExactInOrder
    <2>1. \A k, l \in DOMAIN sightings :
             (k < l /\ sightings[k].hotlist_id = x /\ sightings[l].hotlist_id = x)
             => sightings[k].captured_at <= sightings[l].captured_at
      BY <1>1 DEF InOrder
    <2>2. \A k \in DOMAIN sightings :
             (sightings[k].hotlist_id = x /\ x = e) => sightings[k].captured_at <= t
      BY <1>1 DEF InOrder
    <2>3. InOrder(x)
      BY <2>1 DEF InOrder
    <2>4. \A k, l \in DOMAIN sightings :
             (sightings[k].hotlist_id = x /\ sightings[l].hotlist_id = x)
             => /\ Close(k, l) => sightings[k].cluster_id = sightings[l].cluster_id
                /\ sightings[k].captured_at <= lastSeen[x]
      BY <2>3 DEF ClusterInv, ExactInOrder
    \* The new capture joins the newest in the window, which is in the cluster of all.
    <2>5. ASSUME NEW k \in DOMAIN sightings, x = e, sightings[k].hotlist_id = x,
                 sightings[k].captured_at - t \in (-Window)..Window
          PROVE  sightings[k].cluster_id = c
      <3>1. k \in Near(e, t)
        BY <1>3, <1>5, <2>5 DEF Near
      <3>2. PICK m \in Newest(Near(e, t)) : c = sightings[m].cluster_id
        BY <1>9, <3>1
      <3>3. /\ m \in DOMAIN sightings /\ sightings[m].hotlist_id = e
            /\ sightings[k].captured_at <= sightings[m].captured_at
        BY <3>1, <3>2 DEF Newest, Near
      <3>4. sightings[m].captured_at <= t
        BY <2>2, <2>5, <3>3
      <3>5. sightings[k].captured_at - sightings[m].captured_at \in (-Window)..Window
        BY <1>3, <1>5, <2>5, <3>3, <3>4
      <3> QED
        BY <2>4, <2>5, <3>2, <3>3, <3>5 DEF Close
    <2>6. Close(i, j)' => sightings'[i].cluster_id = sightings'[j].cluster_id
      <3> SUFFICES ASSUME sightings'[i].captured_at - sightings'[j].captured_at
                             \in (-Window)..Window
                   PROVE  sightings'[i].cluster_id = sightings'[j].cluster_id
        BY DEF Close
      <3>1. CASE i \in DOMAIN sightings /\ j \in DOMAIN sightings
        BY <1>1, <2>4, <3>1 DEF Close
      <3>2. CASE i \in DOMAIN sightings /\ j = n
        BY <1>1, <2>5, <3>2
      <3>3. CASE i = n /\ j \in DOMAIN sightings
        <4>1. sightings[j].captured_at - t \in (-Window)..Window
          BY <1>1, <1>3, <1>5, <3>3
        <4> QED
          BY <1>1, <2>5, <3>3, <4>1
      <3> QED
        BY <1>1, <3>1, <3>2, <3>3
    <2>7. sightings'[i].captured_at <= lastSeen'[x]
      <3>1. CASE x = e
        BY <1>1, <1>2, <1>3, <2>2, <3>1
      <3>2. CASE x # e
        BY <1>1, <1>2, <2>4, <3>2
      <3> QED
        BY <3>1, <3>2
    <2> QED
      BY <2>6, <2>7
  <1> QED
    BY <1>6, <1>7, <1>8, <1>11, <1>12 DEF ClusterInv

\* Every step keeps the cluster invariant.
LEMMA NextCluster ==
    TypeOK /\ BatchInv /\ ClusterInv /\ [Next]_vars => ClusterInv'
  <1> SUFFICES ASSUME TypeOK, BatchInv, ClusterInv, [Next]_vars PROVE ClusterInv'
    OBVIOUS
  <1>1. CASE Tick \/ HotlistStep \/ UNCHANGED vars
    BY <1>1, QuietCluster DEF Tick, HotlistStep, list_row, change_rows, vars
  <1>2. CASE \E d \in Devices, batch \in Batches : ingest_sightings(d, batch)
    BY <1>2, QuietCluster DEF ingest_sightings, Waiting
  <1>3. ASSUME NEW reason, Drop(reason), current.stage # "commit",
               UNCHANGED <<sightings, photos, lastSeen, failures>>
        PROVE  ClusterInv'
    BY <1>3, QuietCluster DEF Drop, Finish, Waiting
  <1>4. ASSUME NEW stage \in {"throttle", "persist"}, current.stage # "commit",
               current'.stage = stage, UNCHANGED <<sightings, photos, lastSeen, failures>>
        PROVE  ClusterInv'
    BY <1>4, QuietCluster
  <1>5. CASE resolve_captured_at
    BY <1>3, <1>5 DEF resolve_captured_at
  <1>6. CASE find_active_hotlist
    <2>1. ASSUME NEW e, current' = [current EXCEPT !.stage = "throttle", !.entry = e]
          PROVE  current'.stage = "throttle"
      BY <2>1 DEF TypeOK, Batch
    <2> QED
      BY <1>3, <1>4, <1>6, <2>1 DEF find_active_hotlist
  <1>7. CASE check_throttle
    <2>1. ASSUME current' = [current EXCEPT !.stage = "persist", !.throttled_at = now]
          PROVE  current'.stage = "persist"
      BY <2>1 DEF TypeOK, Batch
    <2> QED
      BY <1>3, <1>4, <1>7, <2>1 DEF check_throttle
  <1>8. CASE store_photo
    BY <1>8, StorePhotoCluster
  <1>9. CASE persist_sighting
    BY <1>9, PersistCluster
  <1>10. CASE respond
    BY <1>10, QuietCluster DEF respond, Waiting
  <1>11. CASE ingest_aborts
    <2>1. /\ UNCHANGED <<sightings, photos, lastSeen>> /\ failures' = failures + 1
          /\ current'.stage = "idle"
      BY <1>11 DEF ingest_aborts, Waiting
    <2>2. Len(sightings) \in Nat /\ failures \in Nat /\ photos \in Nat
      BY LimitAssumption DEF TypeOK
    <2>3. PhotosAccountedFor'
      BY <2>1, <2>2 DEF ClusterInv, PhotosAccountedFor
    <2>4. FileInv' /\ AssignedInv'
      BY <2>1 DEF ClusterInv, FileInv, AssignedInv
    <2>5. ClustersAreChains' /\ ExactInOrder'
      BY <2>1 DEF ClusterInv, ClustersAreChains, ExactInOrder, InOrder, Close
    <2> QED
      BY <2>3, <2>4, <2>5 DEF ClusterInv
  <1> QED
    BY <1>1, <1>2, <1>5, <1>6, <1>7, <1>8, <1>9, <1>10, <1>11 DEF Next, Process

-----------------------------------------------------------------------------
(* Traces and announcements.                                               *)

\* A row that has been listed stays in the table.
LEMMA ListedStays ==
    ASSUME TypeOK, [Next]_vars, NEW e \in Entries, row[e] # "NONE"
    PROVE  row'[e] # "NONE"
  <1>1. CASE HotlistStep
    BY <1>1 DEF TypeOK, HotlistStep, list_row, change_rows, View!Insert, View!Set
  <1>2. CASE UNCHANGED row
    BY <1>2
  <1> QED
    BY <1>1, <1>2
    DEF Next, Process, vars, Tick, ingest_sightings, resolve_captured_at, find_active_hotlist,
        check_throttle, store_photo, persist_sighting, respond, ingest_aborts

\* Every step keeps plates that were never listed without a trace.
LEMMA NextNoTrace ==
    TypeOK /\ BatchInv /\ NoTraceOfOthers /\ [Next]_vars => NoTraceOfOthers'
  <1> SUFFICES ASSUME TypeOK, BatchInv, NoTraceOfOthers, [Next]_vars PROVE NoTraceOfOthers'
    OBVIOUS
  \* Traces only of the plates, sightings and files there were, or of the event's row.
  <1>1. ASSUME UNCHANGED <<throttle, sightings, photos>> PROVE NoTraceOfOthers'
    BY <1>1, ListedStays, SightingFields DEF NoTraceOfOthers
  <1>2. CASE check_throttle
    <2>1. CASE UNCHANGED throttle
      BY <1>1, <1>2, <2>1 DEF check_throttle
    <2>2. CASE throttle' = [throttle EXCEPT ![<<current.device, event.plate>>] = now + ThrottleTtl]
      <3>1. /\ UNCHANGED <<row, sightings, photos>>
            /\ current.entry \in Entries /\ PlateOf[current.entry] = event.plate
            /\ row[current.entry] # "NONE"
        BY <1>2 DEF check_throttle, BatchInv
      <3>2. ASSUME NEW d \in Devices, NEW p \in Plates, throttle'[<<d, p>>] # 0
            PROVE  \E e \in Entries : PlateOf[e] = p /\ row[e] # "NONE"
        <4>1. CASE p = event.plate
          BY <3>1, <4>1
        <4>2. CASE p # event.plate
          <5>1. throttle'[<<d, p>>] = throttle[<<d, p>>]
            BY <2>2, <4>2 DEF TypeOK
          <5> QED
            BY <3>2, <5>1 DEF NoTraceOfOthers
        <4> QED
          BY <4>1, <4>2
      <3> QED
        BY <3>1, <3>2 DEF NoTraceOfOthers
    <2> QED
      BY <1>2, <2>1, <2>2 DEF check_throttle
  <1>3. CASE store_photo
    BY <1>3 DEF store_photo, BatchInv, NoTraceOfOthers
  <1>4. CASE persist_sighting
    <2>1. /\ UNCHANGED <<throttle, row, photos>>
          /\ current.entry \in Entries /\ row[current.entry] # "NONE"
      BY <1>4 DEF persist_sighting, BatchInv
    <2>2. /\ DOMAIN sightings = 1..Len(sightings) /\ Len(sightings) \in Nat
          /\ DOMAIN sightings' = 1..(Len(sightings) + 1)
          /\ \A i \in DOMAIN sightings : sightings'[i] = sightings[i]
          /\ sightings'[Len(sightings) + 1].hotlist_id = current.entry
      BY <1>4, Stored
    <2>3. \A i \in DOMAIN sightings' : row[sightings'[i].hotlist_id] # "NONE"
      BY <2>1, <2>2 DEF NoTraceOfOthers
    <2> QED
      BY <2>1, <2>3 DEF NoTraceOfOthers
  <1>5. CASE \/ Tick \/ HotlistStep
             \/ (\E d \in Devices, batch \in Batches : ingest_sightings(d, batch))
             \/ resolve_captured_at \/ find_active_hotlist \/ respond \/ ingest_aborts
             \/ UNCHANGED vars
    BY <1>1, <1>5 DEF Tick, HotlistStep, list_row, change_rows, ingest_sightings, resolve_captured_at,
                      find_active_hotlist, respond, ingest_aborts, vars
  <1> QED
    BY <1>2, <1>3, <1>4, <1>5 DEF Next, Process

\* Every step keeps the stored sightings announced or about to be.
LEMMA NextPushed ==
    TypeOK /\ BatchInv /\ PushedUnlessFailure /\ [Next]_vars => PushedUnlessFailure'
  <1> SUFFICES ASSUME TypeOK, BatchInv, PushedUnlessFailure, [Next]_vars
               PROVE  PushedUnlessFailure'
    OBVIOUS
  <1>1. ASSUME UNCHANGED <<sightings, pushed, failures>>,
               current'.notifications = current.notifications
        PROVE  PushedUnlessFailure'
    BY <1>1 DEF PushedUnlessFailure
  <1>2. CASE Tick \/ HotlistStep \/ UNCHANGED vars
    BY <1>1, <1>2 DEF Tick, HotlistStep, list_row, change_rows, vars
  <1>3. CASE \E d \in Devices, batch \in Batches : ingest_sightings(d, batch)
    BY <1>1, <1>3 DEF ingest_sightings, Waiting
  <1>4. ASSUME NEW reason, Drop(reason) PROVE current'.notifications = current.notifications
    BY <1>4 DEF Drop, Finish, Waiting
  <1>5. CASE resolve_captured_at
    BY <1>1, <1>4, <1>5 DEF resolve_captured_at
  <1>6. CASE find_active_hotlist
    <2>1. ASSUME NEW e, current' = [current EXCEPT !.stage = "throttle", !.entry = e]
          PROVE  current'.notifications = current.notifications
      BY <2>1 DEF TypeOK, Batch
    <2> QED
      BY <1>1, <1>4, <1>6, <2>1 DEF find_active_hotlist
  <1>7. CASE check_throttle
    <2>1. ASSUME current' = [current EXCEPT !.stage = "persist", !.throttled_at = now]
          PROVE  current'.notifications = current.notifications
      BY <2>1 DEF TypeOK, Batch
    <2> QED
      BY <1>1, <1>4, <1>7, <2>1 DEF check_throttle
  <1>8. CASE store_photo
    <2>1. current'.notifications = current.notifications
      BY <1>8 DEF store_photo, TypeOK, Batch
    <2> QED
      BY <1>1, <1>8, <2>1 DEF store_photo
  <1>9. CASE persist_sighting
    <2>1. /\ DOMAIN sightings = 1..Len(sightings) /\ Len(sightings) \in Nat
          /\ DOMAIN sightings' = 1..(Len(sightings) + 1)
          /\ current'.notifications = current.notifications \cup {Len(sightings) + 1}
      BY <1>9, Stored
    <2>2. 1..(Len(sightings) + 1) = (1..Len(sightings)) \cup {Len(sightings) + 1}
      BY <2>1
    <2>3. UNCHANGED <<pushed, failures>>
      BY <1>9 DEF persist_sighting
    <2> QED
      BY <2>1, <2>2, <2>3 DEF PushedUnlessFailure
  <1>10. CASE respond
    BY <1>10 DEF respond, Waiting, PushedUnlessFailure
  <1>11. CASE ingest_aborts
    BY <1>11, LimitAssumption DEF ingest_aborts, PushedUnlessFailure, TypeOK
  <1> QED
    BY <1>2, <1>3, <1>5, <1>6, <1>7, <1>8, <1>9, <1>10, <1>11 DEF Next, Process

-----------------------------------------------------------------------------
(* The theorems.                                                           *)

IInv ==
    /\ TypeOK /\ BatchInv
    /\ ThrottleInv
    /\ ClusterInv
    /\ NoTraceOfOthers
    /\ PushedUnlessFailure

\* The inductive invariant holds initially.
LEMMA InitInv == Init => IInv
  <1> SUFFICES ASSUME Init PROVE IInv
    OBVIOUS
  <1>1. DOMAIN sightings = {} /\ Len(sightings) = 0
    BY DEF Init
  <1>2. ThrottleInv
    BY <1>1 DEF Init, Waiting, ThrottleInv, KeysInv, LetThrough, ThrottleHolds
  <1>3. ClusterInv
    BY <1>1, LimitAssumption
    DEF Init, Waiting, ClusterInv, PhotosAccountedFor, FileInv, AssignedInv,
        ClustersAreChains, ExactInOrder
  <1>4. NoTraceOfOthers /\ PushedUnlessFailure
    BY <1>1 DEF Init, Waiting, NoTraceOfOthers, PushedUnlessFailure
  <1> QED
    BY <1>2, <1>3, <1>4, InitType DEF IInv

\* It is inductive.
LEMMA Invariance == Spec => []IInv
  <1>1. IInv /\ [Next]_vars => IInv'
    BY NextType, NextThrottle, NextCluster, NextNoTrace, NextPushed DEF IInv
  <1> QED
    BY InitInv, <1>1, PTL DEF Spec

\* Type correctness: tables, keys and the batch at hand keep their shape.
THEOREM TypeCorrect == Spec => []TypeOK
  BY Invariance, PTL DEF IInv

\* check_throttle: two hits of one device and plate are stored only if the throttle let
\* them through at least ThrottleTtl apart, over all rows and in spite of failures.
THEOREM ThrottleIsRespected == Spec => []ThrottleHolds
  BY Invariance, PTL DEF IInv, ThrottleInv

\* assign_cluster: a cluster is a chain of close captures of one row, however late and
\* disordered they arrive.
THEOREM ClustersWellFormed == Spec => []ClustersAreChains
  BY Invariance, PTL DEF IInv, ClusterInv

\* assign_cluster and last_seen_at are exact for rows whose captures arrive in order.
THEOREM OrderedArrivalsAreExact == Spec => []ExactInOrder
  BY Invariance, PTL DEF IInv, ClusterInv

\* storage.put before the commit: every sighting has its file, and only failures leave
\* files without one.
THEOREM FilesMatchRows == Spec => []PhotosAccountedFor
  BY Invariance, PTL DEF IInv, ClusterInv

\* The match comes before the throttle, the photo and the row: no plate that was never
\* listed leaves a trace.
THEOREM ZeroRetention == Spec => []NoTraceOfOthers
  BY Invariance, PTL DEF IInv

\* A sighting is kept from the dashboard only by a failure in the middle of its batch.
THEOREM AnnouncedUnlessFailure == Spec => []PushedUnlessFailure
  BY Invariance, PTL DEF IInv
=============================================================================
