---------------------------- MODULE HotlistSync ----------------------------
(***************************************************************************)
(* How the hotlist reaches a phone: the rows and the device registry of     *)
(* the server, GET /hotlist/sync, and the phone's list, key and token with   *)
(* the three asynchronous functions that change them: syncHotlist,          *)
(* ensureDeviceRegistered and clearDevice.                                  *)
(*                                                                         *)
(* JavaScript runs one of them at a time and switches at an await, so an     *)
(* action is the code between two awaits.  Their answers come from threads   *)
(* of the server that run at any time.                                      *)
(*                                                                         *)
(* A device is the number of its row.  The key of device d is "d": the key   *)
(* is derived from the id and the version stored with the row, which never   *)
(* change, so a payload opens with the key of the device it was made for.    *)
(***************************************************************************)
EXTENDS Integers

CONSTANTS
    Rows,          \* ids of hotlist rows
    PlateOf,       \* the plate of a row
    Syncs,         \* calls of syncHotlist that may be under way at once
    Registrations, \* calls of registerDevice that may be under way at once
    SendsToken,    \* whether the request for the hotlist carries X-Device-Token
    MaxLag,        \* the longest a transaction lasts after it stamped updated_at
    MaxTime,       \* bound on the clock, in whole seconds
    MaxDevices,    \* bound on the devices registered
    MaxRestarts    \* bound on the times the app is killed

ASSUME SyncAssumption ==
    /\ SendsToken \in BOOLEAN /\ MaxLag \in Nat
    /\ MaxTime \in Nat \ {0} /\ MaxDevices \in Nat /\ MaxRestarts \in Nat

VARIABLES
    now,         \* the server's clock
    row,         \* the hotlist: per row its status and updated_at
    device,      \* the registry: per device whether it is there and revoked
    token, key,  \* the phone's secure store: of which device, or 0
    deviceToken, \* the token that the scanner holds in memory
    cache,       \* the phone's list and its version
    sync,        \* the calls of syncHotlist
    registering, \* the calls of registerDevice
    clearing,    \* how far clearDevice is
    restarts,    \* the times the app was killed
    overlapped   \* history: two of the phone's functions were under way at once

serverVars == <<now, row, device>>
storeVars == <<token, key, deviceToken>>
phoneVars == <<storeVars, cache, sync, registering, clearing, restarts, overlapped>>
syncVars == <<serverVars, phoneVars>>

-----------------------------------------------------------------------------
Active == {"unconfirmed", "confirmed"}
Statuses == Active \cup {"absent", "closed"}
Devices == 1..MaxDevices
Plates == {PlateOf[r] : r \in Rows}

\* read_at is history: the second in which the plates were read from the table.
Empty == [plates |-> {}, version |-> 0, read_at |-> 0]

NoSync == [at |-> "idle", key |-> 0, token |-> 0, payload |-> Empty, late |-> FALSE]

NoRegistration == [at |-> "idle", device |-> 0]

SyncInit ==
    /\ now = 1
    /\ row = [r \in Rows |-> [status |-> "absent", updated_at |-> 0]]
    /\ device = [d \in Devices |-> "none"]
    /\ token = 0 /\ key = 0 /\ deviceToken = 0
    /\ cache = Empty
    /\ sync = [s \in Syncs |-> NoSync]
    /\ registering = [g \in Registrations |-> NoRegistration]
    /\ clearing = "no"
    /\ restarts = 0
    /\ overlapped = FALSE

-----------------------------------------------------------------------------
(* The server.                                                             *)

Tick ==
    /\ now < MaxTime
    /\ now' = now + 1
    /\ UNCHANGED <<row, device, phoneVars>>

\* Every writer stamps updated_at with the clock before its commit; the clock may have
\* gone on by up to MaxLag when the row becomes visible.
write_row(r, status) ==
    \E stamp \in 1..now :
        /\ stamp + MaxLag >= now
        /\ row' = [row EXCEPT ![r] = [status |-> status, updated_at |-> stamp]]
        /\ UNCHANGED <<now, device, phoneVars>>

\* An approval lists a row.
list_row(r) == row[r].status = "absent" /\ write_row(r, "unconfirmed")

\* PUT, DELETE and the expiry job set the status of a row, from whatever it has become
\* since they loaded it; the FIR and a sighting of the plate only touch it.
change_row(r) ==
    /\ row[r].status # "absent"
    /\ \E status \in {row[r].status, "confirmed", "closed"} : write_row(r, status)

revoke_device(d) ==
    /\ device[d] = "valid"
    /\ device' = [device EXCEPT ![d] = "revoked"]
    /\ UNCHANGED <<now, row, phoneVars>>

ActiveRows == {r \in Rows : row[r].status \in Active}

\* Mutant: the query of the version filters on confirmed rows only.
compute_version_confirmed ==
    LET confirmed == {r \in Rows : row[r].status = "confirmed"}
    IN IF confirmed = {} THEN 0
       ELSE LET newest == CHOOSE r \in confirmed : \A q \in confirmed : row[q].updated_at <= row[r].updated_at
            IN row[newest].updated_at

\* The time of the newest change of an active row, 0 without one.
compute_version ==
    IF ActiveRows = {} THEN 0
    ELSE LET newest == CHOOSE r \in ActiveRows : \A q \in ActiveRows : row[q].updated_at <= row[r].updated_at
         IN row[newest].updated_at

\* Mutant: a revoked device is let in.
known_device(d) == d \in Devices /\ device[d] # "none"

\* get_current_device finds a device that is not revoked.
authenticated(d) == d \in Devices /\ device[d] = "valid"

\* The header that reaches the server.
Header(s) == IF SendsToken THEN sync[s].token ELSE 0

Advance(s, at) == sync' = [sync EXCEPT ![s].at = at]

\* Mutant: only confirmed rows are sent.
collect_confirmed_plates(s) ==
    /\ sync[s].at = "asked"
    /\ IF authenticated(Header(s))
       THEN LET read == [plates |-> {PlateOf[r] : r \in {q \in Rows : row[q].status = "confirmed"}},
                         version |-> 0, read_at |-> now]
            IN sync' = [sync EXCEPT ![s].at = "listed", ![s].payload = read]
       ELSE Advance(s, "refused")
    /\ UNCHANGED <<serverVars, storeVars, cache, registering, clearing, restarts, overlapped>>

\* The device is checked and the active plates are read.
collect_active_plates(s) ==
    /\ sync[s].at = "asked"
    /\ IF authenticated(Header(s))
       THEN LET read == [plates |-> {PlateOf[r] : r \in ActiveRows},
                         version |-> 0, read_at |-> now]
            IN sync' = [sync EXCEPT ![s].at = "listed", ![s].payload = read]
       ELSE Advance(s, "refused")
    /\ UNCHANGED <<serverVars, storeVars, cache, registering, clearing, restarts, overlapped>>

\* The version is a second query, which sees what was committed in between.
answer_sync(s) ==
    /\ sync[s].at = "listed"
    /\ sync' = [sync EXCEPT ![s].at = "answered", ![s].payload.version = compute_version]
    /\ UNCHANGED <<serverVars, storeVars, cache, registering, clearing, restarts, overlapped>>

-----------------------------------------------------------------------------
(* syncHotlist.                                                            *)

\* Whether any of the phone's functions is under way.
Busy ==
    \/ \E s \in Syncs : sync[s].at # "idle"
    \/ \E g \in Registrations : registering[g].at # "idle"
    \/ clearing # "no"

\* A timer or a login starts a sync; it takes the key it finds, and returns without one.
start_sync(s) ==
    /\ sync[s].at = "idle"
    /\ key # 0
    /\ overlapped' = (overlapped \/ Busy)
    /\ sync' = [sync EXCEPT ![s] = [at |-> "asked", key |-> key, token |-> token, payload |-> Empty,
                                     late |-> token \in Devices /\ device[token] = "revoked"]]
    /\ UNCHANGED <<serverVars, storeVars, cache, registering, clearing, restarts>>

Return(s) == sync' = [sync EXCEPT ![s] = NoSync]

\* A payload that is not newer than the cached version is dropped.
receive_payload(s) ==
    /\ sync[s].at = "answered"
    /\ IF sync[s].payload.version <= cache.version THEN Return(s) ELSE Advance(s, "decrypting")
    /\ UNCHANGED <<serverVars, storeVars, cache, registering, clearing, restarts, overlapped>>

\* The payload opens with the key of the device it was made for; another key throws.
decrypted(s) ==
    /\ sync[s].at = "decrypting"
    /\ cache' = IF sync[s].key = Header(s) THEN sync[s].payload ELSE cache
    /\ Return(s)
    /\ UNCHANGED <<serverVars, storeVars, registering, clearing, restarts, overlapped>>

\* Mutant: the list stays when the key goes.
receive_refusal_keeps(s) ==
    /\ sync[s].at = "refused"
    /\ Advance(s, "forgetting")
    /\ UNCHANGED <<serverVars, storeVars, cache, registering, clearing, restarts, overlapped>>

\* A 401 empties the list, and then the key is deleted.
receive_refusal(s) ==
    /\ sync[s].at = "refused"
    /\ cache' = Empty
    /\ Advance(s, "forgetting")
    /\ UNCHANGED <<serverVars, storeVars, registering, clearing, restarts, overlapped>>

clear_device_key(s) ==
    /\ sync[s].at = "forgetting"
    /\ key' = 0
    /\ Return(s)
    /\ UNCHANGED <<serverVars, token, deviceToken, cache, registering, clearing, restarts, overlapped>>

\* Any other error ends the call without a trace.
sync_fails(s) ==
    /\ sync[s].at \in {"asked", "listed", "answered", "refused"}
    /\ Return(s)
    /\ UNCHANGED <<serverVars, storeVars, cache, registering, clearing, restarts, overlapped>>

-----------------------------------------------------------------------------
(* registerDevice and ensureDeviceRegistered.                              *)

\* A token in the store is taken; otherwise the server creates a device.
start_registration(g) ==
    /\ registering[g].at = "idle"
    /\ IF token # 0
       THEN /\ deviceToken' = token
            /\ UNCHANGED <<device, registering, overlapped>>
       ELSE \E d \in Devices :
            /\ device[d] = "none" /\ \A c \in 1..(d - 1) : device[c] # "none"
            /\ device' = [device EXCEPT ![d] = "valid"]
            /\ registering' = [registering EXCEPT ![g] = [at |-> "granted", device |-> d]]
            /\ overlapped' = (overlapped \/ Busy)
            /\ UNCHANGED deviceToken
    /\ UNCHANGED <<now, row, token, key, cache, sync, clearing, restarts>>

\* The request failed: no device, or one the phone never hears of.
registration_fails(g) ==
    /\ registering[g].at = "granted"
    /\ registering' = [registering EXCEPT ![g] = NoRegistration]
    /\ deviceToken' = 0
    /\ UNCHANGED <<serverVars, token, key, cache, sync, clearing, restarts, overlapped>>

\* Token and key are written one after the other.
store_token(g) ==
    /\ registering[g].at = "granted"
    /\ token' = registering[g].device
    /\ registering' = [registering EXCEPT ![g].at = "stored"]
    /\ UNCHANGED <<serverVars, key, deviceToken, cache, sync, clearing, restarts, overlapped>>

store_key(g) ==
    /\ registering[g].at = "stored"
    /\ key' = registering[g].device
    /\ deviceToken' = registering[g].device
    /\ registering' = [registering EXCEPT ![g] = NoRegistration]
    /\ UNCHANGED <<serverVars, token, cache, sync, clearing, restarts, overlapped>>

-----------------------------------------------------------------------------
(* handleRevocation and clearDevice.                                       *)

start_clearing ==
    /\ clearing = "no"
    /\ clearing' = "key"
    /\ cache' = Empty
    /\ overlapped' = (overlapped \/ Busy)
    /\ UNCHANGED <<serverVars, storeVars, sync, registering, restarts>>

clear_key ==
    /\ clearing = "key"
    /\ clearing' = "token"
    /\ key' = 0
    /\ UNCHANGED <<serverVars, token, deviceToken, cache, sync, registering, restarts, overlapped>>

clear_token ==
    /\ clearing = "token"
    /\ clearing' = "ref"
    /\ token' = 0
    /\ UNCHANGED <<serverVars, key, deviceToken, cache, sync, registering, restarts, overlapped>>

end_clearing ==
    /\ clearing = "ref"
    /\ clearing' = "no"
    /\ deviceToken' = 0
    /\ UNCHANGED <<serverVars, token, key, cache, sync, registering, restarts, overlapped>>

\* The app is killed: what was in memory is gone, the secure store stays.
restart ==
    /\ restarts < MaxRestarts
    /\ restarts' = restarts + 1
    /\ deviceToken' = 0
    /\ cache' = Empty
    /\ sync' = [s \in Syncs |-> NoSync]
    /\ registering' = [g \in Registrations |-> NoRegistration]
    /\ clearing' = "no"
    /\ UNCHANGED <<serverVars, token, key, overlapped>>

-----------------------------------------------------------------------------
ServerStep ==
    \/ Tick
    \/ \E r \in Rows : list_row(r) \/ change_row(r)
    \/ \E d \in Devices : revoke_device(d)
    \/ \E s \in Syncs : collect_active_plates(s) \/ answer_sync(s)

PhoneStep ==
    \/ \E s \in Syncs : \/ start_sync(s) \/ receive_payload(s) \/ decrypted(s)
                        \/ receive_refusal(s) \/ clear_device_key(s) \/ sync_fails(s)
    \/ \E g \in Registrations : registration_fails(g) \/ store_token(g) \/ store_key(g)
    \/ start_clearing \/ clear_key \/ clear_token

\* The steps in which the scanner takes part.
ScreenStep ==
    \/ \E g \in Registrations : start_registration(g)
    \/ end_clearing
    \/ restart

SyncNext == ServerStep \/ PhoneStep \/ ScreenStep

SyncSpec == SyncInit /\ [][SyncNext]_syncVars

-----------------------------------------------------------------------------
(* Properties.                                                             *)

Times == 0..MaxTime
Lists == [plates : SUBSET Plates, version : 0..now, read_at : 0..now]
SyncCall == [at : {"idle", "asked", "listed", "refused", "answered", "decrypting", "forgetting"},
             key : 0..MaxDevices, token : 0..MaxDevices, payload : Lists, late : BOOLEAN]

\* Everything is of its type; what the phone stores names a device the server created,
\* and a call of the phone holds what it needs for the rest of its way.
SyncTypeOK ==
    /\ now \in Times
    /\ row \in [Rows -> [status : Statuses, updated_at : 0..now]]
    /\ device \in [Devices -> {"none", "valid", "revoked"}]
    /\ {token, key, deviceToken} \subseteq {0} \cup {d \in Devices : device[d] # "none"}
    /\ cache \in Lists
    /\ cache.version = 0 => cache.plates = {}
    /\ sync \in [Syncs -> SyncCall]
    /\ \A s \in Syncs :
          /\ sync[s].at # "idle" => sync[s].key # 0
          /\ sync[s].at = "decrypting" => sync[s].payload.version # 0
    /\ registering \in [Registrations -> [at : {"idle", "granted", "stored"}, device : 0..MaxDevices]]
    /\ \A g \in Registrations :
          registering[g] = NoRegistration \/ device[registering[g].device] # "none"
    /\ clearing \in {"no", "key", "token", "ref"}
    /\ restarts \in 0..MaxRestarts /\ overlapped \in BOOLEAN

\* The cached list is exact for what was settled when the server read it: a row whose
\* last write was stamped more than MaxLag before that second is on it if and only if it
\* is active.  Rows written later may be missing or too many, and nothing else may.
ListExactAsRead ==
    cache.version # 0 =>
        /\ \A r \in ActiveRows : row[r].updated_at + MaxLag < cache.read_at => PlateOf[r] \in cache.plates
        /\ \A p \in cache.plates : \E r \in Rows :
              /\ PlateOf[r] = p /\ row[r].status # "absent"
              /\ row[r].status \in Active \/ row[r].updated_at + MaxLag >= cache.read_at

\* A sync that begins after the device was revoked never brings a list.
RevokedGetsNothing ==
    \A s \in Syncs : sync[s].late => sync[s].at \notin {"listed", "answered", "decrypting"}

\* A payload is dropped when its version is not greater than the cached one.  That never
\* costs the phone a row stamped after the version it has: what is lost is a removal, or
\* a row with a stamp no later than that version, however late it was committed.
NothingNewIsDropped ==
    \A s \in Syncs : (sync[s].at = "answered" /\ sync[s].payload.version <= cache.version) =>
        \A r \in ActiveRows :
            \/ PlateOf[r] \notin sync[s].payload.plates \ cache.plates
            \/ row[r].updated_at <= cache.version
            \/ row[r].updated_at + MaxLag >= sync[s].payload.read_at

\* As long as no two of the phone's functions were under way at once, a phone without
\* a key has no list, and key and token belong to the same device.
SecretsAgree ==
    (~overlapped /\ ~Busy) =>
        /\ key = 0 => cache.plates = {}
        /\ key # 0 => token = key

\* mobile/src/services/hotlist.ts:132, "Device revoked -- clear local state": a sync is
\* refused only when the device has been revoked, or the phone has lost its token.
RefusedOnlyWhenRevoked ==
    \A s \in Syncs : sync[s].at = "refused" =>
        sync[s].token = 0 \/ device[sync[s].token] = "revoked"
=============================================================================
