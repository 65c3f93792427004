--------------------------- MODULE SightingIngest ---------------------------
(***************************************************************************)
(* POST /sightings: a batch of plate detections, from any device, against  *)
(* the active hotlist rows.                                                *)
(*                                                                         *)
(* The endpoint is a coroutine that does not await while it processes a    *)
(* batch, so batches never overlap one another; but every event touches    *)
(* the database, Redis and the photo store one after the other, other      *)
(* threads commit to the hotlist in between, and a failure in the middle   *)
(* undoes the database transaction only.                                   *)
(*                                                                         *)
(* Devices may send anything at any time: late, twice, out of order, with  *)
(* a clock that is ahead.                                                  *)
(***************************************************************************)
EXTENDS Integers, Sequences

CONSTANTS
    Devices,      \* registered devices
    Plates,       \* normalised plates
    Entries,      \* hotlist rows
    PlateOf,      \* hotlist.plate of every row (several rows may list a plate)
    None,         \* no device, no row
    Tolerance,    \* TIMESTAMP_TOLERANCE_SECONDS
    ThrottleTtl,  \* THROTTLE_TTL_SECONDS
    Window,       \* CLUSTER_WINDOW_SECONDS
    MaxBatch,     \* bound on the events of a request
    MaxEvents,    \* bound on the events received
    MaxTime,      \* bound on the clock
    MaxFailures   \* bound on failures and crashes

ASSUME PlateAssumption == PlateOf \in [Entries -> Plates]
ASSUME NobodyAssumption == None \notin Devices \cup Entries
ASSUME DurationAssumption ==
    /\ Tolerance \in Nat
    /\ ThrottleTtl \in Nat \ {0}
    /\ Window \in Nat
ASSUME LimitAssumption ==
    /\ MaxBatch \in Nat
    /\ MaxEvents \in Nat
    /\ MaxTime \in Nat \ {0}
    /\ MaxFailures \in Nat

VARIABLES
    now,        \* the server's clock
    row,        \* hotlist rows: not there, active, or no longer active
    throttle,   \* Redis: when the key of a device and a plate expires, 0 if never set
    photos,     \* files written by the storage backend; file k is the k-th
    sightings,  \* the sightings table in the order of its commits
    lastSeen,   \* hotlist.last_seen_at, 0 for NULL
    pushed,     \* sightings announced to the dashboard
    current,    \* the batch being processed
    events,     \* events received so far
    failures    \* failures and crashes so far

vars == <<now, row, throttle, photos, sightings, lastSeen, pushed, current, events, failures>>

-----------------------------------------------------------------------------
Times == 1..MaxTime

Event == [plate : Plates, captured_at : Times]

Reasons == {"timestamp_out_of_tolerance", "plate_not_hotlisted", "throttled"}

\* Throttled_at (when the throttle let the event through) is not a column; it is
\* kept to state what the throttle promises.
Sighting == [hotlist_id : Entries, device_id : Devices, captured_at : Times,
             photo : Nat, cluster_id : Nat, throttled_at : Times]

Batch == [device : Devices \cup {None}, todo : Seq(Event),
          done : Seq(Reasons \cup {"accepted"}),
          stage : {"idle", "match", "throttle", "persist", "commit"},
          entry : Entries \cup {None}, photo : Nat, cluster : Nat, throttled_at : Nat,
         notifications : SUBSET Nat]

Waiting == [device |-> None, todo |-> <<>>, done |-> <<>>, stage |-> "idle",
            entry |-> None, photo |-> 0, cluster |-> 0, throttled_at |-> 0,
            notifications |-> {}]

event == Head(current.todo)

\* The event at hand is finished; the next one of the batch is up.
Finish(result, stored) ==
    current' = [Waiting EXCEPT !.device = current.device, !.stage = "match",
                               !.todo = Tail(current.todo),
                               !.done = Append(current.done, result),
                               !.notifications = current.notifications \cup stored]

Drop(reason) == Finish(reason, {})

Init ==
    /\ now = 1
    /\ row = [e \in Entries |-> "NONE"]
    /\ throttle = [k \in Devices \X Plates |-> 0]
    /\ photos = 0
    /\ sightings = <<>>
    /\ lastSeen = [e \in Entries |-> 0]
    /\ pushed = {}
    /\ current = Waiting
    /\ events = 0
    /\ failures = 0

-----------------------------------------------------------------------------
(* The surroundings: time, and the commits of the hotlist lifecycle.       *)

Tick ==
    /\ now < MaxTime
    /\ now' = now + 1
    /\ UNCHANGED <<row, throttle, photos, sightings, lastSeen, pushed, current, events, failures>>

View == INSTANCE HotlistView

list_row(e) ==
    /\ View!Insert(e)
    /\ UNCHANGED <<now, throttle, photos, sightings, lastSeen, pushed, current, events, failures>>

\* Expired, closed, or set active again from a stale load: one commit, still in the table.
change_rows(batch, to) ==
    /\ View!Set(batch, to)
    /\ UNCHANGED <<now, throttle, photos, sightings, lastSeen, pushed, current, events, failures>>

HotlistStep ==
    \/ \E e \in Entries : list_row(e)
    \/ \E batch \in SUBSET Entries, to \in {"ACTIVE", "INACTIVE"} : change_rows(batch, to)

-----------------------------------------------------------------------------
(* One batch.                                                              *)

ingest_sightings(d, batch) ==
    /\ current = Waiting
    /\ events + Len(batch) <= MaxEvents
    /\ events' = events + Len(batch)
    /\ current' = [Waiting EXCEPT !.device = d, !.todo = batch, !.stage = "match"]
    /\ UNCHANGED <<now, row, throttle, photos, sightings, lastSeen, pushed, failures>>

Timely(t) == t \in (now - Tolerance)..(now + Tolerance)

\* _find_active_hotlist takes the first row of an unordered query.
ActiveRows(plate) == {e \in Entries : PlateOf[e] = plate /\ row[e] = "ACTIVE"}

resolve_captured_at ==
    /\ current.stage = "match" /\ current.todo # <<>>
    /\ ~Timely(event.captured_at)
    /\ Drop("timestamp_out_of_tolerance")
    /\ UNCHANGED <<now, row, throttle, photos, sightings, lastSeen, pushed, events, failures>>

\* Mutant: whatever the hotlist says, an event goes on to the throttle.
match_later ==
    /\ current.stage = "match" /\ current.todo # <<>>
    /\ Timely(event.captured_at)
    /\ \E e \in Entries : current' = [current EXCEPT !.stage = "throttle", !.entry = e]
    /\ UNCHANGED <<now, row, throttle, photos, sightings, lastSeen, pushed, events, failures>>

find_active_hotlist ==
    /\ current.stage = "match" /\ current.todo # <<>>
    /\ Timely(event.captured_at)
    /\ \/ /\ ActiveRows(event.plate) = {}
          /\ Drop("plate_not_hotlisted")
       \/ \E e \in ActiveRows(event.plate) :
            current' = [current EXCEPT !.stage = "throttle", !.entry = e]
    /\ UNCHANGED <<now, row, throttle, photos, sightings, lastSeen, pushed, events, failures>>

\* Mutant: the key's time to live is one short.
throttle_short ==
    /\ current.stage = "throttle"
    /\ LET key == <<current.device, event.plate>> IN
       \/ /\ throttle[key] > now
          /\ Drop("throttled")
          /\ UNCHANGED throttle
       \/ /\ throttle[key] <= now
          /\ throttle' = [throttle EXCEPT ![key] = now + ThrottleTtl - 1]
          /\ current' = [current EXCEPT !.stage = "persist", !.throttled_at = now]
    /\ UNCHANGED <<now, row, photos, sightings, lastSeen, pushed, events, failures>>

\* Mutant: the key of any device counts.
throttle_by_plate ==
    /\ current.stage = "throttle"
    /\ \/ /\ \E d \in Devices : throttle[<<d, event.plate>>] > now
          /\ Drop("throttled")
          /\ UNCHANGED throttle
       \/ /\ \A d \in Devices : throttle[<<d, event.plate>>] <= now
          /\ throttle' = [throttle EXCEPT ![<<current.device, event.plate>>] = now + ThrottleTtl]
          /\ current' = [current EXCEPT !.stage = "persist", !.throttled_at = now]
    /\ UNCHANGED <<now, row, photos, sightings, lastSeen, pushed, events, failures>>

\* The key is set before anything is stored.
check_throttle ==
    /\ current.stage = "throttle"
    /\ LET key == <<current.device, event.plate>> IN
       \/ /\ throttle[key] > now
          /\ Drop("throttled")
          /\ UNCHANGED throttle
       \/ /\ throttle[key] <= now
          /\ throttle' = [throttle EXCEPT ![key] = now + ThrottleTtl]
          /\ current' = [current EXCEPT !.stage = "persist", !.throttled_at = now]
    /\ UNCHANGED <<now, row, photos, sightings, lastSeen, pushed, events, failures>>

\* Mutant: the window is open towards older captures.
NearNoFloor(e, t) ==
    {i \in DOMAIN sightings : /\ sightings[i].hotlist_id = e
                              /\ sightings[i].captured_at <= t + Window}

\* Mutant: the window excludes its older end.
NearExclusive(e, t) ==
    {i \in DOMAIN sightings : /\ sightings[i].hotlist_id = e
                              /\ sightings[i].captured_at > t - Window
                              /\ sightings[i].captured_at <= t + Window}

Near(e, t) ==
    {i \in DOMAIN sightings : /\ sightings[i].hotlist_id = e
                              /\ sightings[i].captured_at >= t - Window
                              /\ sightings[i].captured_at <= t + Window}

Newest(S) ==
    {i \in S : \A j \in S : sightings[j].captured_at <= sightings[i].captured_at}

\* The cluster of the newest capture in the window, or a fresh one (named by the
\* number of the photo that founds it).
assign_cluster(e, t, c) ==
    \/ \E i \in Newest(Near(e, t)) : c = sightings[i].cluster_id
    \/ Near(e, t) = {} /\ c = photos + 1

\* Mutant: the file is not written before the commit.
photo_later ==
    /\ current.stage = "persist"
    /\ \E c \in 1..(photos + 1) :
         /\ assign_cluster(current.entry, event.captured_at, c)
         /\ current' = [current EXCEPT !.stage = "commit", !.photo = photos + 1, !.cluster = c]
    /\ UNCHANGED <<now, row, throttle, photos, sightings, lastSeen, pushed, events, failures>>

\* assign_cluster, then storage.put.
store_photo ==
    /\ current.stage = "persist"
    /\ \E c \in 1..(photos + 1) :
         /\ assign_cluster(current.entry, event.captured_at, c)
         /\ current' = [current EXCEPT !.stage = "commit", !.photo = photos + 1, !.cluster = c]
    /\ photos' = photos + 1
    /\ UNCHANGED <<now, row, throttle, sightings, lastSeen, pushed, events, failures>>

\* Mutant: the notification names the sighting after this one.
persist_misnumbered ==
    /\ current.stage = "commit"
    /\ sightings' = Append(sightings,
           [hotlist_id |-> current.entry, device_id |-> current.device,
            captured_at |-> event.captured_at, photo |-> current.photo,
            cluster_id |-> current.cluster, throttled_at |-> current.throttled_at])
    /\ lastSeen' = [lastSeen EXCEPT ![current.entry] = event.captured_at]
    /\ Finish("accepted", {Len(sightings) + 2})
    /\ UNCHANGED <<now, row, throttle, photos, pushed, events, failures>>

\* The sighting and the row's last_seen columns are one transaction, whatever has
\* happened to the row since it was matched.
persist_sighting ==
    /\ current.stage = "commit"
    /\ sightings' = Append(sightings,
           [hotlist_id |-> current.entry, device_id |-> current.device,
            captured_at |-> event.captured_at, photo |-> current.photo,
            cluster_id |-> current.cluster, throttled_at |-> current.throttled_at])
    /\ lastSeen' = [lastSeen EXCEPT ![current.entry] = event.captured_at]
    /\ Finish("accepted", {Len(sightings) + 1})
    /\ UNCHANGED <<now, row, throttle, photos, pushed, events, failures>>

\* Mutant: the dashboard is not told.
respond_silently ==
    /\ current.stage = "match" /\ current.todo = <<>>
    /\ current' = Waiting
    /\ UNCHANGED <<now, row, throttle, photos, sightings, lastSeen, pushed, events, failures>>

\* Every event is done: the accepted ones are announced, the device is answered.
respond ==
    /\ current.stage = "match" /\ current.todo = <<>>
    /\ pushed' = pushed \cup current.notifications
    /\ current' = Waiting
    /\ UNCHANGED <<now, row, throttle, photos, sightings, lastSeen, events, failures>>

\* An exception (500) or the end of the process: the open transaction is rolled
\* back; the throttle keys, the files and the events already committed stay.
ingest_aborts ==
    /\ failures < MaxFailures
    /\ failures' = failures + 1
    /\ current # Waiting
    /\ current' = Waiting
    /\ UNCHANGED <<now, row, throttle, photos, sightings, lastSeen, pushed, events>>

-----------------------------------------------------------------------------
Process ==
    \/ resolve_captured_at
    \/ find_active_hotlist
    \/ check_throttle
    \/ store_photo
    \/ persist_sighting
    \/ respond

Batches == UNION {[1..n -> Event] : n \in 1..MaxBatch}

Next ==
    \/ Tick
    \/ HotlistStep
    \/ \E d \in Devices, batch \in Batches : ingest_sightings(d, batch)
    \/ Process
    \/ ingest_aborts

Spec == Init /\ [][Next]_vars

-----------------------------------------------------------------------------
(* Types.                                                                  *)

\* Every variable keeps the shape of the table, the keys or the call it stands for.
TypeOK ==
    /\ now \in Times
    /\ row \in [Entries -> {"NONE", "ACTIVE", "INACTIVE"}]
    /\ throttle \in [Devices \X Plates -> Nat]
    /\ photos \in Nat
    /\ sightings \in Seq(Sighting)
    /\ lastSeen \in [Entries -> Nat]
    /\ pushed \subseteq 1..Len(sightings)
    /\ current \in Batch
    /\ events \in 0..MaxEvents
    /\ failures \in 0..MaxFailures

(* Safety.                                                                 *)

SameKey(s, r) ==
    s.device_id = r.device_id /\ PlateOf[s.hotlist_id] = PlateOf[r.hotlist_id]

\* At most one hit of a device and a plate is let through in any ThrottleTtl seconds,
\* over all the rows that list the plate and whatever fails in between.
ThrottleHolds ==
    \A i, j \in DOMAIN sightings :
        (i < j /\ SameKey(sightings[i], sightings[j]))
        => sightings[j].throttled_at >= sightings[i].throttled_at + ThrottleTtl

\* Sightings i and j of the same row, captured within the cluster window.
Close(i, j) ==
    /\ sightings[i].hotlist_id = sightings[j].hotlist_id
    /\ sightings[i].captured_at - sightings[j].captured_at \in (-Window)..Window

\* A cluster never spans two rows, and it has no gap: whoever joined it was within
\* the window of a sighting that was already in it.
ClustersAreChains ==
    \A i, j \in DOMAIN sightings :
        (i < j /\ sightings[i].cluster_id = sightings[j].cluster_id)
        => /\ sightings[i].hotlist_id = sightings[j].hotlist_id
           /\ \E k \in 1..(j - 1) : /\ sightings[k].cluster_id = sightings[j].cluster_id
                                    /\ Close(k, j)

\* The sightings of row e were stored in the order of their captures.
InOrder(e) ==
    \A i, j \in DOMAIN sightings :
        (i < j /\ sightings[i].hotlist_id = e /\ sightings[j].hotlist_id = e)
        => sightings[i].captured_at <= sightings[j].captured_at

\* For a row whose sightings arrive in order the two summaries are exact: captures
\* within the window share a cluster, and last_seen_at is the latest capture.
ExactInOrder ==
    \A e \in Entries : InOrder(e) =>
        \A i, j \in DOMAIN sightings :
            (sightings[i].hotlist_id = e /\ sightings[j].hotlist_id = e)
            => /\ Close(i, j) => sightings[i].cluster_id = sightings[j].cluster_id
               /\ sightings[i].captured_at <= lastSeen[e]

\* Every sighting has a file of its own; a file without a sighting belongs to the
\* event at hand or was orphaned by a failure.
PhotosAccountedFor ==
    /\ \A i \in DOMAIN sightings : sightings[i].photo \in 1..photos
    /\ \A i, j \in DOMAIN sightings : i < j => sightings[i].photo < sightings[j].photo
    /\ photos <= Len(sightings) + failures + (IF current.stage = "commit" THEN 1 ELSE 0)

\* A plate that no row has ever listed leaves no trace: no key in Redis, no file, no
\* sighting (the zero-retention rule).
NoTraceOfOthers ==
    /\ \A d \in Devices, p \in Plates : throttle[<<d, p>>] # 0 =>
           \E e \in Entries : PlateOf[e] = p /\ row[e] # "NONE"
    /\ \A i \in DOMAIN sightings : row[sightings[i].hotlist_id] # "NONE"
    /\ photos > 0 => \E e \in Entries : row[e] # "NONE"

\* A stored sighting is announced to the dashboard when its batch ends; it is lost to
\* the dashboard only with a failure in the middle of a batch.
PushedUnlessFailure ==
    failures = 0 => DOMAIN sightings = pushed \cup current.notifications

-----------------------------------------------------------------------------
(* What the documents say and late events break.                           *)

\* Sightings of a row captured within the window share a cluster.
CloseSharesCluster ==
    \A i, j \in DOMAIN sightings :
        Close(i, j) => sightings[i].cluster_id = sightings[j].cluster_id
=============================================================================
