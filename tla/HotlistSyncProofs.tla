------------------------- MODULE HotlistSyncProofs -------------------------
(***************************************************************************)
(* Theorems about HotlistSync for any number of rows, devices, calls and    *)
(* restarts, any length of the run, and with or without the device token in *)
(* the request.                                                             *)
(*                                                                         *)
(* A list is judged when it is in the cache, and what makes it right was     *)
(* fixed at two earlier moments: when its plates were read and when its      *)
(* version was computed.  ReadInv carries both from there on.  AloneInv says *)
(* what the only call under way knows of key, token and list.               *)
(***************************************************************************)
EXTENDS HotlistSync, NaturalsInduction, WellFoundedInduction, TLAPS

-----------------------------------------------------------------------------
(* The inductive invariant.                                                *)

\* A list that was exact when it was read: rows which were settled by then are on it if
\* and only if they are active.
Exact(list) ==
    /\ \A r \in ActiveRows : row[r].updated_at + MaxLag < list.read_at => PlateOf[r] \in list.plates
    /\ \A p \in list.plates : \E r \in Rows :
          /\ PlateOf[r] = p /\ row[r].status # "absent"
          /\ row[r].status \in Active \/ row[r].updated_at + MaxLag >= list.read_at

\* The version of an answer covers every active row that was settled at the read.
ReadInv ==
    /\ Exact(cache)
    /\ \A s \in Syncs :
          /\ sync[s].at \in {"listed", "answered", "decrypting"} => Exact(sync[s].payload)
          /\ sync[s].at \in {"answered", "decrypting"} =>
                \A r \in ActiveRows : row[r].updated_at + MaxLag < sync[s].payload.read_at =>
                                      row[r].updated_at <= sync[s].payload.version

\* A call that began after a revocation carries the revoked token, and was not let in.
LateInv ==
    \A s \in Syncs : sync[s].late =>
        /\ sync[s].token \in Devices /\ device[sync[s].token] = "revoked"
        /\ sync[s].at \notin {"listed", "answered", "decrypting"}

\* One call at most is under way.
OneCall ==
    /\ \A s, t \in Syncs : sync[s].at # "idle" /\ sync[t].at # "idle" => s = t
    /\ \A g, h \in Registrations : registering[g].at # "idle" /\ registering[h].at # "idle" => g = h
    /\ \A s \in Syncs, g \in Registrations : sync[s].at = "idle" \/ registering[g].at = "idle"
    /\ clearing # "no" => /\ \A s \in Syncs : sync[s].at = "idle"
                          /\ \A g \in Registrations : registering[g].at = "idle"

\* What it knows: a sync has the key of the token's device, until a refusal has emptied the
\* list; a registration and the end of a sign-out find no key and no list.
AloneInv ==
    ~overlapped =>
        /\ OneCall
        /\ ~Busy => (key = 0 => cache.plates = {}) /\ (key # 0 => token = key)
        /\ \A s \in Syncs :
              /\ sync[s].at # "idle" => key # 0 /\ token = key
              /\ sync[s].at = "forgetting" => cache.plates = {}
        /\ \A g \in Registrations :
              /\ registering[g].at # "idle" => key = 0 /\ cache.plates = {}
              /\ registering[g].at = "stored" => token = registering[g].device
        /\ clearing # "no" => cache.plates = {} /\ (key # 0 => token = key)
        /\ clearing \in {"token", "ref"} => key = 0

SyncIInv == SyncTypeOK /\ ReadInv /\ LateInv /\ AloneInv

-----------------------------------------------------------------------------
(* What the steps rest on.                                                 *)

\* A bounded set of numbers that is not empty has a largest element.
LEMMA LargestElement ==
    ASSUME NEW n \in Nat, NEW T \in SUBSET (0..n), T # {}
    PROVE  \E x \in T : \A y \in T : y <= x
  <1> DEFINE more == {pair \in Nat \X Nat : pair[1] < pair[2]}
             rest == {n - x : x \in T}
  <1>1. IsWellFoundedOn(more, Nat)
    BY NatLessThanWellFounded DEF OpToRel
  <1>2. rest \in SUBSET Nat /\ rest # {}
    <2>1. \A x \in T : n - x \in Nat
      OBVIOUS
    <2>2. rest \subseteq Nat
      BY <2>1, Zenon
    <2>3. \E x \in T : n - x \in rest
      BY Zenon
    <2> QED
      BY <2>2, <2>3, Zenon
  <1> HIDE DEF rest
  <1>3. PICK z \in rest : \A y \in rest : ~(<<y, z>> \in more)
    BY <1>1, <1>2, WFMin
  <1>4. ASSUME NEW y \in rest, y < z PROVE FALSE
    <2>1. <<y, z>> \in Nat \X Nat /\ <<y, z>>[1] < <<y, z>>[2]
      BY <1>2, <1>4
    <2>2. <<y, z>> \in more
      BY <2>1, Zenon
    <2> QED
      BY <1>3, <2>2
  <1>5. PICK x \in T : z = n - x
    BY DEF rest
  <1>6. \A y \in T : n - y \in rest /\ ~(n - y < z)
    BY <1>4 DEF rest
  <1> QED
    BY <1>2, <1>5, <1>6

\* A step that changes one call to another of its type, and nothing else, keeps the types.
LEMMA OneCallChanges ==
    ASSUME SyncTypeOK, NEW s \in Syncs, NEW c \in SyncCall,
           sync' = [sync EXCEPT ![s] = c],
           c.at # "idle" => c.key # 0,
           c.at = "decrypting" => c.payload.version # 0,
           overlapped' \in BOOLEAN,
           cache' \in Lists, cache'.version = 0 => cache'.plates = {},
           UNCHANGED <<serverVars, storeVars, registering, clearing, restarts>>
    PROVE  SyncTypeOK'
  <1>1. UNCHANGED Lists
    BY DEF Lists, serverVars
  <1>2. sync' \in [Syncs -> SyncCall]
    BY DEF SyncTypeOK
  <1>3. \A t \in Syncs : /\ sync'[t].at # "idle" => sync'[t].key # 0
                        /\ sync'[t].at = "decrypting" => sync'[t].payload.version # 0
    BY DEF SyncTypeOK
  <1> QED
    BY <1>1, <1>2, <1>3 DEF SyncTypeOK, SyncCall, serverVars, storeVars

\* The version of an answer is at least the time of every active row, and not in the future.
LEMMA NewestRow ==
    ASSUME SyncTypeOK
    PROVE  /\ compute_version \in 0..now
           /\ \A r \in ActiveRows : row[r].updated_at <= compute_version
  <1> USE SyncAssumption
  <1>1. CASE ActiveRows = {}
    BY <1>1 DEF compute_version, SyncTypeOK, Times
  <1>2. CASE ActiveRows # {}
    <2> DEFINE times == {row[r].updated_at : r \in ActiveRows}
    <2>1. times \in SUBSET (0..now) /\ times # {} /\ now \in Nat
      <3>1. now \in Nat /\ \A r \in ActiveRows : row[r].updated_at \in 0..now
        BY DEF ActiveRows, SyncTypeOK, Times
      <3>2. times \subseteq 0..now /\ \A r \in ActiveRows : row[r].updated_at \in times
        BY <3>1, Zenon
      <3> QED
        BY <1>2, <3>1, <3>2, Zenon
    <2>2. \E x \in times : \A y \in times : y <= x
      BY <2>1, LargestElement
    <2>3. PICK r \in ActiveRows : \A q \in ActiveRows : row[q].updated_at <= row[r].updated_at
      BY <2>2
    <2> HIDE DEF times
    <2> DEFINE newest == CHOOSE x \in ActiveRows : \A q \in ActiveRows : row[q].updated_at <= row[x].updated_at
    <2>4. newest \in ActiveRows /\ \A q \in ActiveRows : row[q].updated_at <= row[newest].updated_at
      BY <2>3, Zenon
    <2>5. compute_version = row[newest].updated_at
      BY <1>2 DEF compute_version
    <2> HIDE DEF newest
    <2> QED
      BY <2>4, <2>5 DEF ActiveRows, SyncTypeOK
  <1> QED
    BY <1>1, <1>2

-----------------------------------------------------------------------------
(* One lemma per action, in the order of the module.                       *)

\* A second passes: nothing else moves, and what was read or written keeps its time.
LEMMA Step_Tick ==
    ASSUME SyncIInv, Tick
    PROVE  SyncIInv'
  <1> USE SyncAssumption
  <1>1. SyncTypeOK'
    BY DEF SyncIInv, SyncTypeOK, Lists, SyncCall, Times, Tick, phoneVars, storeVars
  <1>2. ReadInv'
    BY DEF SyncIInv, ReadInv, Exact, ActiveRows, Tick, phoneVars, storeVars
  <1>3. LateInv'
    BY DEF SyncIInv, LateInv, Tick, phoneVars, storeVars
  <1>4. AloneInv'
    BY DEF SyncIInv, AloneInv, OneCall, Busy, Tick, phoneVars, storeVars
  <1> QED
    BY <1>1, <1>2, <1>3, <1>4 DEF SyncIInv

\* A row is listed: it is newer than every list that was read.
LEMMA Step_list_row ==
    ASSUME SyncIInv, NEW r \in Rows, list_row(r)
    PROVE  SyncIInv'
  <1> USE SyncAssumption
  <1>1. SyncTypeOK'
    BY DEF SyncIInv, SyncTypeOK, Lists, SyncCall, Times, Statuses, Active, list_row, write_row, phoneVars, storeVars
  <1>2. ReadInv'
    BY DEF SyncIInv, ReadInv, Exact, ActiveRows, SyncTypeOK, Lists, SyncCall, Times, list_row, write_row, phoneVars, storeVars
  <1>3. LateInv'
    BY DEF SyncIInv, LateInv, list_row, write_row, phoneVars, storeVars
  <1>4. AloneInv'
    BY DEF SyncIInv, AloneInv, OneCall, Busy, list_row, write_row, phoneVars, storeVars
  <1> QED
    BY <1>1, <1>2, <1>3, <1>4 DEF SyncIInv

\* A row is confirmed or closed: lists that were read before keep what did not change.
LEMMA Step_change_row ==
    ASSUME SyncIInv, NEW r \in Rows, change_row(r)
    PROVE  SyncIInv'
  <1> USE SyncAssumption
  <1>1. SyncTypeOK'
    BY DEF SyncIInv, SyncTypeOK, Lists, SyncCall, Times, Statuses, Active, change_row, write_row, phoneVars, storeVars
  <1>2. ReadInv'
    <2>1. PICK status \in {row[r].status, "confirmed", "closed"}, stamp \in 1..now :
             /\ stamp + MaxLag >= now
             /\ row' = [row EXCEPT ![r] = [status |-> status, updated_at |-> stamp]]
      BY DEF change_row, write_row
    <2>2. /\ row[r].status # "absent" /\ UNCHANGED <<now, device, phoneVars>>
          /\ \A q \in Rows : q # r => row'[q] = row[q]
          /\ row'[r].status = status /\ row'[r].updated_at = stamp
          /\ row'[r].status # "absent"
      BY <2>1 DEF change_row, write_row, SyncIInv, SyncTypeOK
    <2>3. ASSUME NEW list \in Lists, Exact(list) PROVE Exact(list)'
      BY <2>1, <2>2, <2>3 DEF Exact, ActiveRows, Active, Lists, SyncIInv, SyncTypeOK, Times
    <2>4. cache \in Lists /\ \A s \in Syncs : sync[s].payload \in Lists
      BY DEF SyncIInv, SyncTypeOK, SyncCall
    <2>5. UNCHANGED <<cache, sync>>
      BY <2>2 DEF phoneVars
    <2>6. Exact(cache)'
      BY <2>3, <2>4, <2>5 DEF SyncIInv, ReadInv, Exact
    <2>7. ASSUME NEW s \in Syncs, sync[s].at \in {"listed", "answered", "decrypting"}
          PROVE  Exact(sync[s].payload)'
      BY <2>3, <2>4, <2>5, <2>7 DEF SyncIInv, ReadInv, Exact
    <2>8. ASSUME NEW s \in Syncs, sync[s].at \in {"answered", "decrypting"}, NEW q \in ActiveRows',
                 row'[q].updated_at + MaxLag < sync[s].payload.read_at
          PROVE  row'[q].updated_at <= sync[s].payload.version
      BY <2>1, <2>2, <2>4, <2>8 DEF SyncIInv, ReadInv, ActiveRows, Lists, SyncTypeOK, Times
    <2> QED
      BY <2>5, <2>6, <2>7, <2>8 DEF ReadInv, Exact
  <1>3. LateInv'
    BY DEF SyncIInv, LateInv, change_row, write_row, phoneVars, storeVars
  <1>4. AloneInv'
    BY DEF SyncIInv, AloneInv, OneCall, Busy, change_row, write_row, phoneVars, storeVars
  <1> QED
    BY <1>1, <1>2, <1>3, <1>4 DEF SyncIInv

\* A device is revoked: calls that begin from now on are late, those under way are not.
LEMMA Step_revoke_device ==
    ASSUME SyncIInv, NEW d \in Devices, revoke_device(d)
    PROVE  SyncIInv'
  <1> USE SyncAssumption
  <1>1. SyncTypeOK'
    BY DEF SyncIInv, SyncTypeOK, Lists, SyncCall, revoke_device, phoneVars, storeVars
  <1>2. ReadInv'
    BY DEF SyncIInv, ReadInv, Exact, ActiveRows, revoke_device, phoneVars, storeVars
  <1>3. LateInv'
    BY DEF SyncIInv, LateInv, revoke_device, phoneVars, storeVars
  <1>4. AloneInv'
    BY DEF SyncIInv, AloneInv, OneCall, Busy, revoke_device, phoneVars, storeVars
  <1> QED
    BY <1>1, <1>2, <1>3, <1>4 DEF SyncIInv

\* The first query: the plates of this second, unless the token is refused.
LEMMA Step_collect_active_plates ==
    ASSUME SyncIInv, NEW s \in Syncs, collect_active_plates(s)
    PROVE  SyncIInv'
  <1> USE SyncAssumption
  <1> DEFINE active == {PlateOf[r] : r \in ActiveRows}
             read == [plates |-> active, version |-> 0, read_at |-> now]
             listed == [sync[s] EXCEPT !.at = "listed", !.payload = read]
             refused == [sync[s] EXCEPT !.at = "refused"]
  <1>1. sync[s] \in SyncCall /\ sync[s].at = "asked" /\ sync[s].key # 0 /\ now \in Nat
    <2>1. sync[s].at = "asked"
      BY DEF collect_active_plates
    <2> QED
      BY <2>1 DEF SyncIInv, SyncTypeOK, Times
  <1>0. sync \in [Syncs -> SyncCall] /\ sync[s].payload \in Lists
    BY <1>1 DEF SyncIInv, SyncTypeOK, SyncCall
  <1>2. active \in SUBSET Plates /\ \A r \in ActiveRows : PlateOf[r] \in active
    <2>1. \A r \in ActiveRows : PlateOf[r] \in Plates
      BY DEF ActiveRows, Plates
    <2> QED
      BY <2>1
  <1>3. Exact(read)
    <2>1. read.plates = active /\ read.read_at = now
      BY <1>1 DEF SyncCall, Lists
    <2>2. \A p \in active : \E r \in ActiveRows : PlateOf[r] = p
      OBVIOUS
    <2> HIDE DEF active, read
    <2> QED
      BY <1>2, <2>1, <2>2 DEF Exact, ActiveRows, Active
  <1> HIDE DEF active
  <1>4. read \in Lists
    <2>1. 0 \in 0..now /\ now \in 0..now
      BY <1>1
    <2> QED
      BY <1>2, <2>1 DEF Lists
  <1> HIDE DEF read
  <1>5. listed \in SyncCall /\ refused \in SyncCall
    BY <1>1, <1>4 DEF SyncCall
  <1>6. UNCHANGED <<serverVars, storeVars, cache, registering, clearing, restarts, overlapped>>
    BY DEF collect_active_plates
  <1>7. \/ authenticated(Header(s)) /\ sync' = [sync EXCEPT ![s] = listed]
        \/ sync' = [sync EXCEPT ![s] = refused]
    <2>1. CASE authenticated(Header(s))
      <3>1. sync' = [sync EXCEPT ![s].at = "listed", ![s].payload = read]
        BY <2>1 DEF collect_active_plates, active, read
      <3> QED
        BY <2>1, <3>1, <1>0
    <2>2. CASE ~authenticated(Header(s))
      BY <2>2, <1>0 DEF collect_active_plates, Advance
    <2> QED
      BY <2>1, <2>2
  <1>8. listed.payload = read /\ listed.key = sync[s].key /\ listed.token = sync[s].token
        /\ listed.at = "listed" /\ listed.late = sync[s].late
    BY <1>1 DEF SyncCall
  <1>9. refused.at = "refused" /\ refused.key = sync[s].key /\ refused.token = sync[s].token
        /\ refused.late = sync[s].late
    BY <1>1 DEF SyncCall
  <1>10. authenticated(Header(s)) => ~sync[s].late
    BY DEF authenticated, Header, SyncIInv, LateInv, Devices
  <1> HIDE DEF listed, refused
  <1>11. SyncTypeOK'
    BY <1>1, <1>5, <1>6, <1>7, <1>8, <1>9, OneCallChanges DEF SyncIInv, SyncTypeOK
  <1>12. \A t \in Syncs : t # s => sync'[t] = sync[t]
    BY <1>7 DEF SyncIInv, SyncTypeOK
  <1>13. \/ authenticated(Header(s)) /\ sync'[s] = listed
         \/ sync'[s] = refused
    BY <1>7 DEF SyncIInv, SyncTypeOK
  <1>14. \A list : Exact(list)' <=> Exact(list)
    BY <1>6 DEF Exact, ActiveRows, serverVars
  <1>15. ReadInv'
    BY <1>3, <1>6, <1>8, <1>9, <1>12, <1>13 DEF SyncIInv, ReadInv, Exact, ActiveRows, serverVars
  <1>16. LateInv'
    BY <1>6, <1>8, <1>9, <1>10, <1>12, <1>13 DEF SyncIInv, LateInv, serverVars
  <1>17. AloneInv'
    BY <1>1, <1>6, <1>8, <1>9, <1>12, <1>13 DEF SyncIInv, AloneInv, OneCall, Busy, storeVars
  <1> QED
    BY <1>11, <1>15, <1>16, <1>17 DEF SyncIInv

\* The second query: the version covers every active row that the plates are exact for.
LEMMA Step_answer_sync ==
    ASSUME SyncIInv, NEW s \in Syncs, answer_sync(s)
    PROVE  SyncIInv'
  <1> USE SyncAssumption
  <1> DEFINE answer == [sync[s].payload EXCEPT !.version = compute_version]
             answered == [sync[s] EXCEPT !.at = "answered", !.payload = answer]
  <1>0. sync[s] \in SyncCall /\ sync[s].at = "listed" /\ sync[s].key # 0
    BY DEF SyncIInv, SyncTypeOK, SyncCall, answer_sync
  <1>a. answer \in Lists /\ answer.version = compute_version
        /\ answer.plates = sync[s].payload.plates /\ answer.read_at = sync[s].payload.read_at
    <2>1. compute_version \in 0..now /\ sync[s].payload \in Lists
      BY <1>0, NewestRow DEF SyncIInv, SyncCall
    <2> QED
      BY <2>1 DEF Lists
  <1>b. sync' = [sync EXCEPT ![s] = answered]
    BY <1>0 DEF answer_sync
  <1> HIDE DEF answer
  <1>c. answered \in SyncCall /\ answered.at = "answered" /\ answered.key = sync[s].key
        /\ answered.payload = answer /\ answered.late = sync[s].late /\ answered.token = sync[s].token
    BY <1>0, <1>a DEF SyncCall
  <1>d. UNCHANGED <<serverVars, storeVars, cache, registering, clearing, restarts, overlapped>>
    BY DEF answer_sync
  <1>e. \A t \in Syncs : sync'[t] = IF t = s THEN answered ELSE sync[t]
    BY <1>b DEF SyncIInv, SyncTypeOK
  <1> HIDE DEF answered
  <1>1. SyncTypeOK'
    BY <1>0, <1>b, <1>c, <1>d, OneCallChanges DEF SyncIInv, SyncTypeOK
  <1>2. ReadInv'
    <2>1. Exact(answer)
      BY <1>0, <1>a DEF SyncIInv, ReadInv, Exact
    <2>2. \A r \in ActiveRows : row[r].updated_at <= answer.version
      BY <1>a, NewestRow DEF SyncIInv
    <2> QED
      BY <2>1, <2>2, <1>c, <1>d, <1>e DEF SyncIInv, ReadInv, Exact, ActiveRows, serverVars
  <1>3. LateInv'
    BY <1>0, <1>c, <1>d, <1>e DEF SyncIInv, LateInv, serverVars
  <1>4. AloneInv'
    BY <1>0, <1>c, <1>d, <1>e DEF SyncIInv, AloneInv, OneCall, Busy, storeVars
  <1> QED
    BY <1>1, <1>2, <1>3, <1>4 DEF SyncIInv

\* A sync begins with the key and token it finds; it is late if the device is revoked.
LEMMA Step_start_sync ==
    ASSUME SyncIInv, NEW s \in Syncs, start_sync(s)
    PROVE  SyncIInv'
  <1> USE SyncAssumption
  <1> DEFINE late == token \in Devices /\ device[token] = "revoked"
             started == [at |-> "asked", key |-> key, token |-> token, payload |-> Empty, late |-> late]
  <1>0. late \in BOOLEAN /\ key \in 0..MaxDevices /\ token \in 0..MaxDevices
    BY DEF SyncIInv, SyncTypeOK, Devices
  <1>a. sync' = [sync EXCEPT ![s] = started]
    BY DEF start_sync
  <1> HIDE DEF late
  <1>b. started \in SyncCall /\ started.key = key /\ started.at = "asked" /\ started.token = token
        /\ started.late = late
    BY <1>0 DEF SyncCall, Lists, Empty, SyncIInv, SyncTypeOK, Times
  <1> HIDE DEF started
  <1>c. /\ overlapped' = (overlapped \/ Busy) /\ key # 0 /\ sync[s].at = "idle"
        /\ UNCHANGED <<serverVars, storeVars, cache, registering, clearing, restarts>>
    BY DEF start_sync
  <1>d. overlapped' \in BOOLEAN
    BY <1>c DEF Busy, SyncIInv, SyncTypeOK
  <1>e. \A t \in Syncs : sync'[t] = IF t = s THEN started ELSE sync[t]
    BY <1>a DEF SyncIInv, SyncTypeOK
  <1>1. SyncTypeOK'
    BY <1>a, <1>b, <1>c, <1>d, OneCallChanges DEF SyncIInv, SyncTypeOK
  <1>2. ReadInv'
    BY <1>b, <1>c, <1>e DEF SyncIInv, ReadInv, Exact, ActiveRows, serverVars
  <1>3. LateInv'
    BY <1>b, <1>c, <1>e DEF SyncIInv, LateInv, serverVars, late
  <1>4. AloneInv'
    BY <1>b, <1>c, <1>e DEF SyncIInv, AloneInv, OneCall, Busy, storeVars
  <1> QED
    BY <1>1, <1>2, <1>3, <1>4 DEF SyncIInv

\* The answer arrives: it is dropped, or its decryption begins.
LEMMA Step_receive_payload ==
    ASSUME SyncIInv, NEW s \in Syncs, receive_payload(s)
    PROVE  SyncIInv'
  <1> USE SyncAssumption
  <1> DEFINE opened == [sync[s] EXCEPT !.at = "decrypting"]
  <1>a. sync \in [Syncs -> SyncCall] /\ sync[s] \in SyncCall
    BY DEF SyncIInv, SyncTypeOK
  <1>b. sync[s].at = "answered" /\ sync[s].key # 0
    BY DEF SyncIInv, SyncTypeOK, receive_payload
  <1>c. NoSync \in SyncCall /\ NoSync.at = "idle" /\ NoSync.late = FALSE
    BY DEF NoSync, Empty, SyncCall, Lists, SyncIInv, SyncTypeOK, Times
  <1>d. opened \in SyncCall /\ opened.at = "decrypting" /\ opened.key = sync[s].key
        /\ opened.token = sync[s].token /\ opened.payload = sync[s].payload /\ opened.late = sync[s].late
    BY <1>a DEF SyncCall
  <1>e. \/ sync' = [sync EXCEPT ![s] = NoSync]
        \/ sync' = [sync EXCEPT ![s] = opened] /\ ~(sync[s].payload.version <= cache.version)
    BY <1>a DEF receive_payload, Return, Advance
  <1>f. UNCHANGED <<serverVars, storeVars, cache, registering, clearing, restarts, overlapped>>
    BY DEF receive_payload
  <1>g. sync[s].payload.version \in Nat /\ cache.version \in Nat
    BY <1>a DEF SyncCall, Lists, SyncIInv, SyncTypeOK, Times
  <1> HIDE DEF opened
  <1>h. \/ \A t \in Syncs : sync'[t] = IF t = s THEN NoSync ELSE sync[t]
        \/ \A t \in Syncs : sync'[t] = IF t = s THEN opened ELSE sync[t]
    BY <1>a, <1>e
  <1>1. SyncTypeOK'
    BY <1>b, <1>c, <1>d, <1>e, <1>f, <1>g, OneCallChanges DEF SyncIInv, SyncTypeOK
  <1>2. ReadInv'
    BY <1>b, <1>c, <1>d, <1>f, <1>h DEF SyncIInv, ReadInv, Exact, ActiveRows, serverVars
  <1>3. LateInv'
    BY <1>b, <1>c, <1>d, <1>f, <1>h DEF SyncIInv, LateInv, serverVars
  <1>4. AloneInv'
    BY <1>b, <1>c, <1>d, <1>f, <1>h DEF SyncIInv, AloneInv, OneCall, Busy, storeVars
  <1> QED
    BY <1>1, <1>2, <1>3, <1>4 DEF SyncIInv

\* The decrypted list replaces the cache: it is exact because the payload was.
LEMMA Step_decrypted ==
    ASSUME SyncIInv, NEW s \in Syncs, decrypted(s)
    PROVE  SyncIInv'
  <1> USE SyncAssumption
  <1>1. SyncTypeOK'
    BY DEF SyncIInv, SyncTypeOK, Lists, SyncCall, Times, Empty, NoSync, decrypted, serverVars, storeVars, Return
  <1>2. ReadInv'
    BY DEF SyncIInv, SyncTypeOK, ReadInv, Exact, ActiveRows, NoSync, Empty, decrypted, serverVars, storeVars, Return
  <1>3. LateInv'
    BY DEF SyncIInv, SyncTypeOK, LateInv, NoSync, Empty, decrypted, serverVars, storeVars, Return
  <1>4. AloneInv'
    BY DEF SyncIInv, SyncTypeOK, AloneInv, OneCall, Busy, NoSync, Empty, decrypted, serverVars, storeVars, Return
  <1> QED
    BY <1>1, <1>2, <1>3, <1>4 DEF SyncIInv

\* A refusal empties the list before the key is forgotten.
LEMMA Step_receive_refusal ==
    ASSUME SyncIInv, NEW s \in Syncs, receive_refusal(s)
    PROVE  SyncIInv'
  <1> USE SyncAssumption
  <1>1. SyncTypeOK'
    <2> DEFINE forgetting == [sync[s] EXCEPT !.at = "forgetting"]
    <2>1. sync[s] \in SyncCall /\ sync[s].key # 0 /\ sync' = [sync EXCEPT ![s] = forgetting]
      BY DEF receive_refusal, Advance, SyncIInv, SyncTypeOK
    <2>2. forgetting \in SyncCall /\ forgetting.key = sync[s].key /\ forgetting.at = "forgetting"
      BY <2>1 DEF SyncCall
    <2>3. cache' = Empty /\ UNCHANGED <<serverVars, storeVars, registering, clearing, restarts, overlapped>>
      BY DEF receive_refusal
    <2> HIDE DEF forgetting
    <2>4. Empty \in Lists /\ Empty.plates = {}
      BY DEF Empty, Lists, SyncIInv, SyncTypeOK, Times
    <2> QED
      BY <2>1, <2>2, <2>3, <2>4, OneCallChanges DEF SyncIInv, SyncTypeOK
  <1>2. ReadInv'
    BY DEF SyncIInv, SyncTypeOK, ReadInv, Exact, ActiveRows, NoSync, Empty, receive_refusal, serverVars, storeVars, Advance
  <1>3. LateInv'
    BY DEF SyncIInv, LateInv, receive_refusal, serverVars, storeVars, Advance
  <1>4. AloneInv'
    BY DEF SyncIInv, SyncTypeOK, AloneInv, OneCall, Busy, NoSync, Empty, receive_refusal, serverVars, storeVars, Advance
  <1> QED
    BY <1>1, <1>2, <1>3, <1>4 DEF SyncIInv

\* The key goes after the list.
LEMMA Step_clear_device_key ==
    ASSUME SyncIInv, NEW s \in Syncs, clear_device_key(s)
    PROVE  SyncIInv'
  <1> USE SyncAssumption
  <1>1. SyncTypeOK'
    BY DEF SyncIInv, SyncTypeOK, Lists, SyncCall, Times, Empty, NoSync, clear_device_key, serverVars, Return
  <1>2. ReadInv'
    BY DEF SyncIInv, SyncTypeOK, ReadInv, Exact, ActiveRows, NoSync, Empty, clear_device_key, serverVars, Return
  <1>3. LateInv'
    BY DEF SyncIInv, SyncTypeOK, LateInv, NoSync, Empty, clear_device_key, serverVars, Return
  <1>4. AloneInv'
    BY DEF SyncIInv, SyncTypeOK, AloneInv, OneCall, Busy, NoSync, Empty, clear_device_key, serverVars, Return
  <1> QED
    BY <1>1, <1>2, <1>3, <1>4 DEF SyncIInv

\* A request fails, and the list stays as it was.
LEMMA Step_sync_fails ==
    ASSUME SyncIInv, NEW s \in Syncs, sync_fails(s)
    PROVE  SyncIInv'
  <1> USE SyncAssumption
  <1>1. SyncTypeOK'
    BY DEF SyncIInv, SyncTypeOK, Lists, SyncCall, Times, Empty, NoSync, sync_fails, serverVars, storeVars, Return
  <1>2. ReadInv'
    BY DEF SyncIInv, SyncTypeOK, ReadInv, Exact, ActiveRows, NoSync, Empty, sync_fails, serverVars, storeVars, Return
  <1>3. LateInv'
    BY DEF SyncIInv, SyncTypeOK, LateInv, NoSync, Empty, sync_fails, serverVars, storeVars, Return
  <1>4. AloneInv'
    BY DEF SyncIInv, SyncTypeOK, AloneInv, OneCall, Busy, NoSync, Empty, sync_fails, serverVars, storeVars, Return
  <1> QED
    BY <1>1, <1>2, <1>3, <1>4 DEF SyncIInv

\* A registration finds a token and ends, or is given a new device.
LEMMA Step_start_registration ==
    ASSUME SyncIInv, NEW g \in Registrations, start_registration(g)
    PROVE  SyncIInv'
  <1> USE SyncAssumption
  <1>1. SyncTypeOK'
    <2>1. CASE token # 0
      BY <2>1 DEF SyncIInv, SyncTypeOK, Lists, SyncCall, start_registration
    <2>2. CASE token = 0
      <3>1. PICK d \in Devices :
               /\ device[d] = "none" /\ device' = [device EXCEPT ![d] = "valid"]
               /\ registering' = [registering EXCEPT ![g] = [at |-> "granted", device |-> d]]
               /\ overlapped' = (overlapped \/ Busy)
               /\ UNCHANGED <<now, row, deviceToken, token, key, cache, sync, clearing, restarts>>
        BY <2>2 DEF start_registration
      <3>2. overlapped' \in BOOLEAN
        BY <3>1 DEF Busy, SyncIInv, SyncTypeOK
      <3>3. /\ device' \in [Devices -> {"none", "valid", "revoked"}]
            /\ device'[d] = "valid" /\ \A c \in Devices : c # d => device'[c] = device[c]
        BY <3>1 DEF SyncIInv, SyncTypeOK
      <3>4. {token', key', deviceToken'} \subseteq {0} \cup {c \in Devices : device'[c] # "none"}
        BY <3>1, <3>3 DEF SyncIInv, SyncTypeOK
      <3>5. /\ registering' \in [Registrations -> [at : {"idle", "granted", "stored"}, device : 0..MaxDevices]]
            /\ registering'[g] = [at |-> "granted", device |-> d]
            /\ \A h \in Registrations : h # g => registering'[h] = registering[h]
        BY <3>1 DEF SyncIInv, SyncTypeOK, Devices
      <3>6. \A h \in Registrations :
               registering'[h] = NoRegistration \/ device'[registering'[h].device] # "none"
        <4>1. \A h \in Registrations : registering[h] = NoRegistration \/ device[registering[h].device] # "none"
          BY DEF SyncIInv, SyncTypeOK
        <4> QED
          BY <3>1, <3>3, <3>5, <4>1 DEF SyncIInv, SyncTypeOK
      <3> QED
        BY <3>1, <3>2, <3>3, <3>4, <3>5, <3>6 DEF SyncIInv, SyncTypeOK, Lists, SyncCall
    <2> QED
      BY <2>1, <2>2
  <1>2. ReadInv'
    BY DEF SyncIInv, ReadInv, Exact, ActiveRows, start_registration
  <1>3. LateInv'
    BY DEF SyncIInv, SyncTypeOK, LateInv, start_registration
  <1>4. AloneInv'
    <2>1. CASE token # 0
      BY <2>1 DEF SyncIInv, AloneInv, OneCall, Busy, start_registration
    <2>2. CASE token = 0
      <3>1. PICK d \in Devices :
               /\ registering' = [registering EXCEPT ![g] = [at |-> "granted", device |-> d]]
               /\ overlapped' = (overlapped \/ Busy)
               /\ UNCHANGED <<token, key, cache, sync, clearing>>
        BY <2>2 DEF start_registration
      <3>2. /\ registering'[g].at = "granted"
            /\ \A h \in Registrations : h # g => registering'[h] = registering[h]
        BY <3>1 DEF SyncIInv, SyncTypeOK
      <3>3. ASSUME ~overlapped, ~Busy PROVE key = 0 /\ cache.plates = {}
        BY <2>2, <3>3 DEF SyncIInv, AloneInv
      <3> QED
        BY <2>2, <3>1, <3>2, <3>3 DEF SyncIInv, AloneInv, OneCall, Busy
    <2> QED
      BY <2>1, <2>2
  <1> QED
    BY <1>1, <1>2, <1>3, <1>4 DEF SyncIInv

\* A registration fails: what it has stored by then stays.
LEMMA Step_registration_fails ==
    ASSUME SyncIInv, NEW g \in Registrations, registration_fails(g)
    PROVE  SyncIInv'
  <1> USE SyncAssumption
  <1>1. SyncTypeOK'
    BY DEF SyncIInv, SyncTypeOK, Lists, SyncCall, NoRegistration, Empty, registration_fails, serverVars
  <1>2. ReadInv'
    BY DEF SyncIInv, ReadInv, Exact, ActiveRows, registration_fails, serverVars
  <1>3. LateInv'
    BY DEF SyncIInv, LateInv, registration_fails, serverVars
  <1>4. AloneInv'
    BY DEF SyncIInv, SyncTypeOK, AloneInv, OneCall, Busy, NoRegistration, Empty, registration_fails, serverVars
  <1> QED
    BY <1>1, <1>2, <1>3, <1>4 DEF SyncIInv

\* The token is stored first.
LEMMA Step_store_token ==
    ASSUME SyncIInv, NEW g \in Registrations, store_token(g)
    PROVE  SyncIInv'
  <1> USE SyncAssumption
  <1>1. SyncTypeOK'
    BY DEF SyncIInv, SyncTypeOK, Lists, SyncCall, NoRegistration, Devices, store_token, serverVars
  <1>2. ReadInv'
    BY DEF SyncIInv, ReadInv, Exact, ActiveRows, store_token, serverVars
  <1>3. LateInv'
    BY DEF SyncIInv, LateInv, store_token, serverVars
  <1>4. AloneInv'
    BY DEF SyncIInv, AloneInv, OneCall, Busy, store_token, serverVars
  <1> QED
    BY <1>1, <1>2, <1>3, <1>4 DEF SyncIInv

\* The key follows, and belongs to the token unless another call came in between.
LEMMA Step_store_key ==
    ASSUME SyncIInv, NEW g \in Registrations, store_key(g)
    PROVE  SyncIInv'
  <1> USE SyncAssumption
  <1>1. SyncTypeOK'
    BY DEF SyncIInv, SyncTypeOK, Lists, SyncCall, NoRegistration, Devices, store_key, serverVars
  <1>2. ReadInv'
    BY DEF SyncIInv, ReadInv, Exact, ActiveRows, store_key, serverVars
  <1>3. LateInv'
    BY DEF SyncIInv, LateInv, store_key, serverVars
  <1>4. AloneInv'
    BY DEF SyncIInv, SyncTypeOK, AloneInv, OneCall, Busy, NoRegistration, Empty, store_key, serverVars
  <1> QED
    BY <1>1, <1>2, <1>3, <1>4 DEF SyncIInv

\* Signing out empties the list first.
LEMMA Step_start_clearing ==
    ASSUME SyncIInv, start_clearing
    PROVE  SyncIInv'
  <1> USE SyncAssumption
  <1>1. SyncTypeOK'
    BY DEF SyncIInv, SyncTypeOK, Lists, SyncCall, Times, Empty, start_clearing, serverVars, storeVars
  <1>2. ReadInv'
    BY DEF SyncIInv, SyncTypeOK, ReadInv, Exact, ActiveRows, NoSync, Empty, start_clearing, serverVars, storeVars
  <1>3. LateInv'
    BY DEF SyncIInv, LateInv, start_clearing, serverVars, storeVars
  <1>4. AloneInv'
    BY DEF SyncIInv, SyncTypeOK, AloneInv, OneCall, Busy, NoSync, Empty, start_clearing, serverVars, storeVars
  <1> QED
    BY <1>1, <1>2, <1>3, <1>4 DEF SyncIInv

\* Then the key goes,
LEMMA Step_clear_key ==
    ASSUME SyncIInv, clear_key
    PROVE  SyncIInv'
  <1> USE SyncAssumption
  <1>1. SyncTypeOK'
    BY DEF SyncIInv, SyncTypeOK, Lists, SyncCall, clear_key, serverVars
  <1>2. ReadInv'
    BY DEF SyncIInv, ReadInv, Exact, ActiveRows, clear_key, serverVars
  <1>3. LateInv'
    BY DEF SyncIInv, LateInv, clear_key, serverVars
  <1>4. AloneInv'
    BY DEF SyncIInv, AloneInv, OneCall, Busy, clear_key, serverVars
  <1> QED
    BY <1>1, <1>2, <1>3, <1>4 DEF SyncIInv

\* then the stored token,
LEMMA Step_clear_token ==
    ASSUME SyncIInv, clear_token
    PROVE  SyncIInv'
  <1> USE SyncAssumption
  <1>1. SyncTypeOK'
    BY DEF SyncIInv, SyncTypeOK, Lists, SyncCall, clear_token, serverVars
  <1>2. ReadInv'
    BY DEF SyncIInv, ReadInv, Exact, ActiveRows, clear_token, serverVars
  <1>3. LateInv'
    BY DEF SyncIInv, LateInv, clear_token, serverVars
  <1>4. AloneInv'
    BY DEF SyncIInv, AloneInv, OneCall, Busy, clear_token, serverVars
  <1> QED
    BY <1>1, <1>2, <1>3, <1>4 DEF SyncIInv

\* and last the token the screen holds.
LEMMA Step_end_clearing ==
    ASSUME SyncIInv, end_clearing
    PROVE  SyncIInv'
  <1> USE SyncAssumption
  <1>1. SyncTypeOK'
    BY DEF SyncIInv, SyncTypeOK, Lists, SyncCall, end_clearing, serverVars
  <1>2. ReadInv'
    BY DEF SyncIInv, ReadInv, Exact, ActiveRows, end_clearing, serverVars
  <1>3. LateInv'
    BY DEF SyncIInv, LateInv, end_clearing, serverVars
  <1>4. AloneInv'
    BY DEF SyncIInv, AloneInv, OneCall, Busy, end_clearing, serverVars
  <1> QED
    BY <1>1, <1>2, <1>3, <1>4 DEF SyncIInv

\* The end of the app forgets the list and every call, and leaves the store alone.
LEMMA Step_restart ==
    ASSUME SyncIInv, restart
    PROVE  SyncIInv'
  <1> USE SyncAssumption
  <1>1. SyncTypeOK'
    BY DEF SyncIInv, SyncTypeOK, Lists, SyncCall, Times, Empty, NoSync, NoRegistration, restart, serverVars
  <1>2. ReadInv'
    BY DEF SyncIInv, SyncTypeOK, ReadInv, Exact, ActiveRows, NoSync, Empty, restart, serverVars
  <1>3. LateInv'
    BY DEF SyncIInv, SyncTypeOK, LateInv, NoSync, Empty, restart, serverVars
  <1>4. AloneInv'
    BY DEF SyncIInv, SyncTypeOK, AloneInv, OneCall, Busy, NoSync, NoRegistration, Empty, restart, serverVars
  <1> QED
    BY <1>1, <1>2, <1>3, <1>4 DEF SyncIInv

-----------------------------------------------------------------------------
(* The theorems.                                                           *)

\* The invariant holds at the start.
LEMMA SyncInitIInv ==
    SyncInit => SyncIInv
  <1> USE SyncAssumption
  <1> SUFFICES ASSUME SyncInit PROVE SyncIInv
    OBVIOUS
  <1>1. Empty \in Lists /\ Empty.plates = {} /\ NoSync.at = "idle" /\ NoSync.late = FALSE
    BY DEF Empty, Lists, NoSync, SyncInit
  <1>2. NoSync \in SyncCall
    BY <1>1 DEF NoSync, SyncCall
  <1>3. SyncTypeOK
    <2>1. now = 1 /\ now \in Times /\ 0 \in 0..now
      BY DEF SyncInit, Times
    <2>2. row \in [Rows -> [status : Statuses, updated_at : 0..now]]
      BY <2>1 DEF SyncInit, Statuses
    <2>3. sync \in [Syncs -> SyncCall] /\ \A s \in Syncs : sync[s].at = "idle"
      BY <1>1, <1>2 DEF SyncInit
    <2>4. registering \in [Registrations -> [at : {"idle", "granted", "stored"}, device : 0..MaxDevices]]
      BY DEF SyncInit, NoRegistration
    <2>5. /\ device \in [Devices -> {"none", "valid", "revoked"}]
          /\ {token, key, deviceToken} \subseteq {0} \cup {d \in Devices : device[d] # "none"}
      BY DEF SyncInit
    <2>6. cache \in Lists /\ (cache.version = 0 => cache.plates = {})
      BY <1>1 DEF SyncInit
    <2>7. clearing \in {"no", "key", "token", "ref"} /\ restarts \in 0..MaxRestarts
      BY DEF SyncInit
    <2>8. overlapped \in BOOLEAN
      BY DEF SyncInit
    <2>9. \A g \in Registrations : registering[g] = NoRegistration
      BY DEF SyncInit
    <2> QED
      BY <2>1, <2>2, <2>3, <2>4, <2>5, <2>6, <2>7, <2>8, <2>9 DEF SyncTypeOK
  <1>4. ReadInv
    BY <1>1 DEF SyncInit, ReadInv, Exact, ActiveRows, Active
  <1>5. LateInv
    BY <1>1 DEF SyncInit, LateInv
  <1>6. AloneInv
    BY <1>1 DEF SyncInit, AloneInv, OneCall, Busy, NoRegistration
  <1> QED
    BY <1>3, <1>4, <1>5, <1>6 DEF SyncIInv

\* Every step keeps it.
LEMMA SyncNextIInv ==
    SyncIInv /\ [SyncNext]_syncVars => SyncIInv'
  <1> SUFFICES ASSUME SyncIInv, [SyncNext]_syncVars PROVE SyncIInv'
    OBVIOUS
  <1>1. CASE ServerStep
    BY <1>1, Step_Tick, Step_list_row, Step_change_row, Step_revoke_device, Step_collect_active_plates, Step_answer_sync DEF ServerStep
  <1>2. CASE PhoneStep
    BY <1>2, Step_start_sync, Step_receive_payload, Step_decrypted, Step_receive_refusal, Step_clear_device_key, Step_sync_fails, Step_registration_fails, Step_store_token, Step_store_key, Step_start_clearing, Step_clear_key, Step_clear_token DEF PhoneStep
  <1>3. CASE ScreenStep
    BY <1>3, Step_start_registration, Step_end_clearing, Step_restart DEF ScreenStep
  <1>4. CASE UNCHANGED syncVars
    <2>1. UNCHANGED <<now, row, device, token, key, deviceToken, cache, sync, registering, clearing,
                      restarts, overlapped>>
      BY <1>4 DEF syncVars, serverVars, phoneVars, storeVars
    <2>2. SyncTypeOK'
      BY <2>1 DEF SyncIInv, SyncTypeOK, Lists, SyncCall
    <2>3. ReadInv'
      BY <2>1 DEF SyncIInv, ReadInv, Exact, ActiveRows
    <2>4. LateInv' /\ AloneInv'
      BY <2>1 DEF SyncIInv, LateInv, AloneInv, OneCall, Busy
    <2> QED
      BY <2>2, <2>3, <2>4 DEF SyncIInv
  <1> QED
    BY <1>1, <1>2, <1>3, <1>4 DEF SyncNext

\* The invariant holds in every reachable state.
LEMMA SyncInvariance ==
    SyncSpec => []SyncIInv
  BY SyncInitIInv, SyncNextIInv, PTL DEF SyncSpec

\* What the phone stores names devices of the server, and every variable keeps its type.
THEOREM SyncTypeCorrect ==
    SyncSpec => []SyncTypeOK
  <1>1. SyncIInv => SyncTypeOK
    BY DEF SyncIInv
  <1> QED
    BY <1>1, SyncInvariance, PTL

\* The list that the phone has is the one of the second it was read in, however many
\* syncs overlap, fail or are cut off by a restart or a sign-out.
THEOREM ListIsExact ==
    SyncSpec => []ListExactAsRead
  <1>1. SyncIInv => ListExactAsRead
    BY DEF SyncIInv, ReadInv, Exact, ListExactAsRead
  <1> QED
    BY <1>1, SyncInvariance, PTL

\* A device that was revoked before a sync began gets nothing from it.
THEOREM RevocationHolds ==
    SyncSpec => []RevokedGetsNothing
  <1>1. SyncIInv => RevokedGetsNothing
    BY DEF SyncIInv, LateInv, RevokedGetsNothing
  <1> QED
    BY <1>1, SyncInvariance, PTL

\* The comparison of versions drops no row that was stamped after the version the phone
\* has, whatever the lag between the stamps and the commits.
THEOREM DropIsHarmless ==
    SyncSpec => []NothingNewIsDropped
  <1>1. SyncIInv => NothingNewIsDropped
    <2> SUFFICES ASSUME SyncIInv, NEW s \in Syncs, sync[s].at = "answered",
                        sync[s].payload.version <= cache.version,
                        NEW r \in ActiveRows, ~(row[r].updated_at + MaxLag >= sync[s].payload.read_at)
                 PROVE  row[r].updated_at <= cache.version
      BY DEF NothingNewIsDropped
    <2>1. /\ row[r].updated_at \in Int /\ cache.version \in Int
          /\ sync[s].payload.version \in Int /\ sync[s].payload.read_at \in Int
      BY DEF SyncIInv, SyncTypeOK, SyncCall, Lists, ActiveRows
    <2>2. row[r].updated_at <= sync[s].payload.version
      BY <2>1, SyncAssumption DEF SyncIInv, ReadInv
    <2> QED
      BY <2>1, <2>2
  <1> QED
    BY <1>1, SyncInvariance, PTL

\* Without an overlap of its functions, the phone's key, token and list belong together.
THEOREM SecretsBelongTogether ==
    SyncSpec => []SecretsAgree
  <1>1. SyncIInv => SecretsAgree
    BY DEF SyncIInv, AloneInv, SecretsAgree
  <1> QED
    BY <1>1, SyncInvariance, PTL
=============================================================================
