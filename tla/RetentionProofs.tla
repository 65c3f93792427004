-------------------------- MODULE RetentionProofs ---------------------------
(***************************************************************************)
(* Theorems about Retention for any number of complaints and sightings, any *)
(* retentions and any length of the run.                                    *)
(*                                                                         *)
(* What a committed purge leaves behind was decided steps earlier, by       *)
(* queries whose answers others may have changed since.  JobInv says what    *)
(* remains true of an answer until the commit, and HistoryInv what the       *)
(* tables keep of the order in which their rows were written.               *)
(***************************************************************************)
EXTENDS Retention, TLAPS

-----------------------------------------------------------------------------
(* The inductive invariant.                                                *)

\* A row that is out of use has no sighting from after the day it was settled, reopened
\* before that or not; a complaint has a row only if it was approved, and is rejected in
\* spite of it only by a second decision.
HistoryInv ==
    /\ \A c \in Complaints :
          /\ row[c].status = None => row[c] = NoRow
          /\ row[c].settled <= day
          /\ complaint[c].status = "PENDING_VERIFICATION" => row[c] = NoRow
          /\ complaint[c].status = "REJECTED" /\ row[c] # NoRow => complaint[c].twice
          /\ row[c].status # "ACTIVE" /\ row[c].settled < lastDone /\ row[c].cooldown_until # -1 =>
                row[c].cooldown_until >= lastDone - EXPIRED_HOTLIST_RETENTION_DAYS
          /\ complaint[c].status = "REJECTED" /\ complaint[c].decided < lastDone =>
                complaint[c].created_at >= lastDone - REJECTED_COMPLAINT_RETENTION_DAYS
    /\ \A s \in Stored :
          /\ sighting[s].captured_at <= day + Tolerance
          /\ sighting[s].captured_at >= lastDone - SIGHTING_RETENTION_DAYS
          /\ row[sighting[s].row].status # "ACTIVE" =>
                sighting[s].captured_at <= row[sighting[s].row].settled + Tolerance
    /\ \A a \in audits : a >= lastDone - AUDIT_LOG_RETENTION_DAYS

\* What the purge has selected stays deletable, and what it has not selected was not due.
JobInv ==
    /\ job.at \in {"idle", "complaints"} => job.complaints = {}
    /\ job.at \in {"idle", "complaints", "rows"} => job.rows = {}
    /\ job.at # "photos" => job.sightings = {}
    /\ \A c \in job.complaints : complaint[c].status = "REJECTED" /\ row[c] = NoRow
    /\ \A c \in job.rows :
          /\ row[c].status \in {"EXPIRED", "CLOSED"}
          /\ \A s \in Stored : sighting[s].row # c
    /\ \A s \in job.sightings :
          s \in Stored /\ sighting[s].captured_at < job.now - SIGHTING_RETENTION_DAYS
    /\ job.at \in {"rows", "sightings", "photos"} =>
          \A c \in Complaints \ job.complaints :
             complaint[c].status = "REJECTED" /\ complaint[c].decided < job.now =>
                complaint[c].created_at >= job.now - REJECTED_COMPLAINT_RETENTION_DAYS
    /\ job.at \in {"sightings", "photos"} =>
          \A c \in Complaints \ job.rows :
             row[c].status # "ACTIVE" /\ row[c].settled < job.now /\ row[c].cooldown_until # -1 =>
             row[c].cooldown_until >= job.now - EXPIRED_HOTLIST_RETENTION_DAYS
    /\ job.at = "photos" =>
          \A s \in Stored \ job.sightings :
             sighting[s].captured_at >= job.now - SIGHTING_RETENTION_DAYS

\* It also says that the photos follow the rows, which is inductive together with JobInv.
IInv == TypeOK /\ HistoryInv /\ JobInv /\ PhotosFollowRows

-----------------------------------------------------------------------------
(* One lemma per action, in the order of the module.                       *)

\* A day passes: what was captured near the clock or kept by the last purge stays so.
LEMMA Step_Tick ==
    ASSUME IInv, Tick
    PROVE  IInv'
  <1> USE RetentionAssumption
  <1>1. TypeOK'
    BY DEF IInv, TypeOK, Tick, Stored, tables, jobVars
  <1>2. HistoryInv'
    BY DEF IInv, Times, Tick, Stored, tables, jobVars, TypeOK, HistoryInv
  <1>3. JobInv'
    BY DEF IInv, JobInv, Tick, Stored, tables, jobVars
  <1>4. PhotosFollowRows'
    BY DEF IInv, Times, Tick, Stored, tables, jobVars, TypeOK, PhotosFollowRows
  <1> QED
    BY <1>1, <1>2, <1>3, <1>4 DEF IInv

\* A new complaint is pending and has no row.
LEMMA Step_create_complaint ==
    ASSUME IInv, NEW c \in Complaints, create_complaint(c)
    PROVE  IInv'
  <1> USE RetentionAssumption
  <1>1. TypeOK'
    BY DEF IInv, jobVars, TypeOK, create_complaint, Stored
  <1>2. HistoryInv'
    BY DEF IInv, TypeOK, HistoryInv, create_complaint, Stored, jobVars
  <1>3. JobInv'
    BY DEF IInv, create_complaint, Stored, NoComplaint, None, jobVars, JobInv
  <1>4. PhotosFollowRows'
    BY DEF IInv, PhotosFollowRows, create_complaint, Stored, jobVars
  <1> QED
    BY <1>1, <1>2, <1>3, <1>4 DEF IInv

\* A decision is of today, and the first one unless another of today came before it.
LEMMA Step_verify_complaint ==
    ASSUME IInv, NEW c \in Complaints, NEW decision \in {"VERIFIED", "REJECTED"},
           verify_complaint(c, decision)
    PROVE  IInv'
  <1> USE RetentionAssumption
  <1>1. TypeOK'
    <2> DEFINE twice == complaint[c].status # "PENDING_VERIFICATION"
    <2>1. twice \in BOOLEAN
      OBVIOUS
    <2>2. complaint' = [complaint EXCEPT ![c] = [@ EXCEPT !.status = decision, !.decided = day, !.twice = twice]]
      BY DEF verify_complaint
    <2>3. complaint[c] \in [status : {None, "PENDING_VERIFICATION", "VERIFIED", "REJECTED"},
                            created_at : 0..MaxDay, decided : 0..MaxDay, twice : BOOLEAN]
      BY DEF IInv, TypeOK
    <2> HIDE DEF twice
    <2>4. complaint' \in [Complaints -> [status : {None, "PENDING_VERIFICATION", "VERIFIED", "REJECTED"},
                                         created_at : 0..MaxDay, decided : 0..MaxDay, twice : BOOLEAN]]
      BY <2>1, <2>2, <2>3 DEF IInv, TypeOK
    <2>5. row' \in [Complaints -> [status : {None, "ACTIVE", "EXPIRED", "CLOSED"},
                                   cooldown_until : -1..(MaxDay + COOLDOWN_DAYS), settled : 0..MaxDay]]
      BY DEF IInv, TypeOK, verify_complaint
    <2>6. \A d \in Complaints : row'[d] # NoRow => complaint'[d] # NoComplaint
      BY DEF IInv, NoComplaint, None, TypeOK, verify_complaint
    <2>7. \A s \in Stored' : row'[sighting'[s].row] # NoRow
      BY DEF IInv, TypeOK, verify_complaint, Stored
    <2> QED
      BY <2>4, <2>5, <2>6, <2>7 DEF IInv, jobVars, TypeOK, verify_complaint
  <1>2. HistoryInv'
    BY DEF IInv, HistoryInv, verify_complaint, Stored, NoRow, jobVars, TypeOK
  <1>3. JobInv'
    BY DEF IInv, verify_complaint, Stored, NoRow, None, jobVars, TypeOK, JobInv
  <1>4. PhotosFollowRows'
    BY DEF IInv, PhotosFollowRows, verify_complaint, Stored, jobVars
  <1> QED
    BY <1>1, <1>2, <1>3, <1>4 DEF IInv

\* The row is settled today, and no capture is later than the clock allows.
LEMMA Step_expire ==
    ASSUME IInv, NEW c \in Complaints, expire(c)
    PROVE  IInv'
  <1> USE RetentionAssumption
  <1>1. TypeOK'
    BY DEF IInv, TypeOK, expire, ActiveWhenLoaded, Stored, NoRow, None, jobVars
  <1>2. HistoryInv'
    BY DEF IInv, expire, ActiveWhenLoaded, Stored, NoRow, None, jobVars, TypeOK, HistoryInv
  <1>3. JobInv'
    BY DEF IInv, expire, ActiveWhenLoaded, Stored, NoRow, None, jobVars, TypeOK, JobInv
  <1>4. PhotosFollowRows'
    BY DEF IInv, PhotosFollowRows, expire, Stored, jobVars
  <1> QED
    BY <1>1, <1>2, <1>3, <1>4 DEF IInv

\* The cooldown stays as it is, and a row that is being deleted is locked.
LEMMA Step_close ==
    ASSUME IInv, NEW c \in Complaints, close(c)
    PROVE  IInv'
  <1> USE RetentionAssumption
  <1>1. TypeOK'
    <2> DEFINE settled == IF row[c].status = "ACTIVE" THEN day ELSE row[c].settled
    <2>1. settled \in 0..MaxDay
      BY DEF IInv, TypeOK
    <2>2. row' = [row EXCEPT ![c] = [@ EXCEPT !.status = "CLOSED", !.settled = settled]]
      BY DEF IInv, TypeOK, close
    <2> HIDE DEF settled
    <2>3. row' \in [Complaints -> [status : {None, "ACTIVE", "EXPIRED", "CLOSED"},
                                   cooldown_until : -1..(MaxDay + COOLDOWN_DAYS), settled : 0..MaxDay]]
      BY <2>1, <2>2 DEF IInv, TypeOK
    <2>4. row[c] # NoRow /\ row'[c] # NoRow
      <3>1. row[c].status # None /\ row'[c].status = "CLOSED"
        BY <2>2 DEF IInv, TypeOK, close, None
      <3> QED
        BY <3>1 DEF NoRow, None
    <2>5. \A d \in Complaints \ {c} : row'[d] = row[d]
      BY <2>2 DEF IInv, TypeOK
    <2>6. /\ UNCHANGED <<day, complaint, sighting, photos, job, lastDone, orphaned, failures>>
          /\ audits' \subseteq 0..MaxDay
      BY DEF IInv, TypeOK, close, jobVars
    <2>7. \A d \in Complaints : row'[d] # NoRow => complaint'[d] # NoComplaint
      BY <2>4, <2>5, <2>6 DEF IInv, TypeOK
    <2>8. \A s \in Stored' : row'[sighting'[s].row] # NoRow
      BY <2>4, <2>5, <2>6 DEF IInv, TypeOK, Stored
    <2> QED
      BY <2>3, <2>6, <2>7, <2>8 DEF IInv, TypeOK
  <1>2. HistoryInv'
    BY DEF IInv, close, Stored, NoRow, None, jobVars, TypeOK, HistoryInv
  <1>3. JobInv'
    BY DEF IInv, close, Stored, NoRow, None, jobVars, TypeOK, JobInv
  <1>4. PhotosFollowRows'
    BY DEF IInv, PhotosFollowRows, close, Stored, jobVars
  <1> QED
    BY <1>1, <1>2, <1>3, <1>4 DEF IInv

\* The row has its old cooldown again, and is settled anew before the purge may look at it.
LEMMA Step_reopen ==
    ASSUME IInv, NEW c \in Complaints, reopen(c)
    PROVE  IInv'
  <1> USE RetentionAssumption
  <1>1. TypeOK'
    BY DEF IInv, TypeOK, reopen, ActiveWhenLoaded, Stored, NoRow, None, jobVars
  <1>2. HistoryInv'
    BY DEF IInv, reopen, ActiveWhenLoaded, Stored, NoRow, None, jobVars, TypeOK, HistoryInv
  <1>3. JobInv'
    BY DEF IInv, reopen, ActiveWhenLoaded, Stored, NoRow, None, jobVars, TypeOK, JobInv
  <1>4. PhotosFollowRows'
    BY DEF IInv, PhotosFollowRows, reopen, Stored, jobVars
  <1> QED
    BY <1>1, <1>2, <1>3, <1>4 DEF IInv

\* A sighting is captured near the clock, and its row was in use today and is not being
\* deleted.
LEMMA Step_ingest ==
    ASSUME IInv, NEW s \in Sightings, NEW c \in Complaints, NEW captured_at \in Times,
           ingest(s, c, captured_at)
    PROVE  IInv'
  <1> USE RetentionAssumption
  <1>1. TypeOK'
    BY DEF IInv, TypeOK, ingest, ActiveWhenLoaded, Stored, NoRow, None, jobVars
  <1>2. HistoryInv'
    BY DEF IInv, TypeOK, Times, HistoryInv, ingest, ActiveWhenLoaded, Stored, jobVars
  <1>3. JobInv'
    BY DEF IInv, JobInv, ingest, ActiveWhenLoaded, Stored, NoSighting, jobVars, TypeOK, Times
  <1>4. PhotosFollowRows'
    BY DEF IInv, PhotosFollowRows, ingest, Stored, None, jobVars, TypeOK
  <1> QED
    BY <1>1, <1>2, <1>3, <1>4 DEF IInv

\* A run begins with nothing deleted.
LEMMA Step_purge_old_data ==
    ASSUME IInv, purge_old_data
    PROVE  IInv'
  <1> USE RetentionAssumption
  <1>1. TypeOK'
    <2>1. job' = [at |-> "complaints", now |-> day, complaints |-> {}, rows |-> {}, sightings |-> {}]
      BY DEF purge_old_data, NoJob
    <2>2. UNCHANGED <<day, complaint, row, sighting, photos, audits, lastDone, orphaned, failures>>
      BY DEF purge_old_data, tables
    <2> QED
      BY <2>1, <2>2 DEF IInv, TypeOK, Stored
  <1>2. HistoryInv'
    BY DEF IInv, HistoryInv, purge_old_data, Stored, tables
  <1>3. JobInv'
    BY DEF NoJob, JobInv, purge_old_data
  <1>4. PhotosFollowRows'
    BY DEF IInv, PhotosFollowRows, purge_old_data, Stored, tables
  <1> QED
    BY <1>1, <1>2, <1>3, <1>4 DEF IInv

\* What is not blocked has no row, and what is not selected was not due.
LEMMA Step_purge_rejected_complaints ==
    ASSUME IInv, purge_rejected_complaints
    PROVE  IInv'
  <1> USE RetentionAssumption
  <1>1. TypeOK'
    BY DEF IInv, purge_rejected_complaints, Stored, tables, DueComplaints, TypeOK
  <1>2. HistoryInv'
    BY DEF IInv, purge_rejected_complaints, Stored, tables, HistoryInv
  <1>3. JobInv'
    BY DEF IInv, tables, DueComplaints, ComplaintsBlocked, TypeOK, JobInv, purge_rejected_complaints
  <1>4. PhotosFollowRows'
    BY DEF IInv, purge_rejected_complaints, Stored, tables, PhotosFollowRows
  <1> QED
    BY <1>1, <1>2, <1>3, <1>4 DEF IInv

\* What is not blocked has no sighting, and what is not selected was not due.
LEMMA Step_purge_expired_hotlist_entries ==
    ASSUME IInv, purge_expired_hotlist_entries
    PROVE  IInv'
  <1> USE RetentionAssumption
  <1>1. TypeOK'
    BY DEF IInv, purge_expired_hotlist_entries, Stored, tables, DueRows, TypeOK
  <1>2. HistoryInv'
    BY DEF IInv, purge_expired_hotlist_entries, Stored, tables, HistoryInv
  <1>3. JobInv'
    BY DEF IInv, tables, DueRows, RowsBlocked, NoRow, None, TypeOK, HistoryInv, JobInv, purge_expired_hotlist_entries, Stored
  <1>4. PhotosFollowRows'
    BY DEF IInv, purge_expired_hotlist_entries, Stored, tables, PhotosFollowRows
  <1> QED
    BY <1>1, <1>2, <1>3, <1>4 DEF IInv

\* A refusal deletes nothing.
LEMMA Step_purge_aborts ==
    ASSUME IInv, purge_aborts
    PROVE  IInv'
  <1> USE RetentionAssumption
  <1>1. TypeOK'
    BY DEF IInv, Stored, tables, Ended, NoJob, TypeOK, purge_aborts
  <1>2. HistoryInv'
    BY DEF IInv, purge_aborts, Stored, tables, HistoryInv
  <1>3. JobInv'
    BY DEF purge_aborts, Ended, NoJob, JobInv
  <1>4. PhotosFollowRows'
    BY DEF IInv, purge_aborts, Stored, tables, PhotosFollowRows
  <1> QED
    BY <1>1, <1>2, <1>3, <1>4 DEF IInv

\* What is not selected was not due.
LEMMA Step_purge_old_sightings ==
    ASSUME IInv, purge_old_sightings
    PROVE  IInv'
  <1> USE RetentionAssumption
  <1>1. TypeOK'
    BY DEF IInv, TypeOK, purge_old_sightings, Stored, tables, DueSightings
  <1>2. HistoryInv'
    BY DEF IInv, HistoryInv, purge_old_sightings, Stored, tables
  <1>3. JobInv'
    BY DEF IInv, purge_old_sightings, Stored, tables, DueSightings, TypeOK, JobInv, Times
  <1>4. PhotosFollowRows'
    BY DEF IInv, PhotosFollowRows, purge_old_sightings, Stored, tables
  <1> QED
    BY <1>1, <1>2, <1>3, <1>4 DEF IInv

\* Only the photo of a sighting that is due is removed.
LEMMA Step_delete_photo_safely ==
    ASSUME IInv, NEW s \in Sightings, delete_photo_safely(s)
    PROVE  IInv'
  <1> USE RetentionAssumption
  <1>1. TypeOK'
    BY DEF IInv, TypeOK, delete_photo_safely, Stored, jobVars
  <1>2. HistoryInv'
    BY DEF IInv, HistoryInv, delete_photo_safely, Stored, jobVars
  <1>3. JobInv'
    BY DEF IInv, JobInv, delete_photo_safely, Stored, jobVars
  <1>4. PhotosFollowRows'
    BY DEF IInv, delete_photo_safely, Stored, jobVars, PhotosLeft, TypeOK, JobInv, PhotosFollowRows, Times
  <1> QED
    BY <1>1, <1>2, <1>3, <1>4 DEF IInv

\* A photo that cannot be removed is remembered as orphaned.
LEMMA Step_photo_delete_failed ==
    ASSUME IInv, NEW s \in Sightings, photo_delete_failed(s)
    PROVE  IInv'
  <1> USE RetentionAssumption
  <1>1. TypeOK'
    BY DEF IInv, TypeOK, photo_delete_failed, Stored, tables
  <1>2. HistoryInv'
    BY DEF IInv, HistoryInv, photo_delete_failed, Stored, tables
  <1>3. JobInv'
    BY DEF IInv, JobInv, photo_delete_failed, Stored, tables
  <1>4. PhotosFollowRows'
    BY DEF IInv, PhotosFollowRows, photo_delete_failed, Stored, tables
  <1> QED
    BY <1>1, <1>2, <1>3, <1>4 DEF IInv

\* What is committed was selected, and every photo of it is gone or orphaned.
LEMMA Step_purge_commit ==
    ASSUME IInv, purge_commit
    PROVE  IInv'
  <1> USE RetentionAssumption
  <1>1. TypeOK'
    BY DEF IInv, NoSighting, Ended, NoJob, TypeOK, JobInv, Times, purge_commit, Stored, NoRow, NoComplaint
  <1>2. HistoryInv'
    BY DEF IInv, NoSighting, None, TypeOK, HistoryInv, JobInv, purge_commit, Stored, NoRow, NoComplaint
  <1>3. JobInv'
    BY DEF Ended, NoJob, JobInv, purge_commit
  <1>4. PhotosFollowRows'
    BY DEF IInv, NoSighting, PhotosLeft, PhotosFollowRows, purge_commit, Stored
  <1> QED
    BY <1>1, <1>2, <1>3, <1>4 DEF IInv

\* A crash deletes nothing but photos.
LEMMA Step_purge_fails ==
    ASSUME IInv, purge_fails
    PROVE  IInv'
  <1> USE RetentionAssumption
  <1>1. TypeOK'
    BY DEF IInv, Stored, tables, Ended, NoJob, TypeOK, purge_fails
  <1>2. HistoryInv'
    BY DEF IInv, purge_fails, Stored, tables, HistoryInv
  <1>3. JobInv'
    BY DEF purge_fails, Ended, NoJob, JobInv
  <1>4. PhotosFollowRows'
    BY DEF IInv, purge_fails, Stored, tables, PhotosFollowRows
  <1> QED
    BY <1>1, <1>2, <1>3, <1>4 DEF IInv

-----------------------------------------------------------------------------
(* The theorems.                                                           *)

\* The tables are empty at the start.
LEMMA InitIInv ==
    Init => IInv
  <1> USE RetentionAssumption
  <1> SUFFICES ASSUME Init PROVE IInv
    OBVIOUS
  <1>1. /\ Stored = {} /\ \A c \in Complaints : complaint[c] = NoComplaint /\ row[c] = NoRow
        /\ job = NoJob /\ day = 0 /\ lastDone = 0
    BY DEF Init, Stored, NoSighting, NoRow, None
  <1>2. TypeOK
    <2>1. complaint \in [Complaints -> [status : {None, "PENDING_VERIFICATION", "VERIFIED", "REJECTED"},
                                        created_at : 0..MaxDay, decided : 0..MaxDay, twice : BOOLEAN]]
      BY DEF Init, NoComplaint
    <2>2. row \in [Complaints -> [status : {None, "ACTIVE", "EXPIRED", "CLOSED"},
                                  cooldown_until : -1..(MaxDay + COOLDOWN_DAYS), settled : 0..MaxDay]]
      BY DEF Init, NoRow
    <2>3. sighting \in [Sightings -> [row : Complaints \cup {None}, captured_at : Times]]
      BY DEF Init, NoSighting, Times
    <2> QED
      BY <1>1, <2>1, <2>2, <2>3 DEF Init, TypeOK, NoJob
  <1>3. HistoryInv
    BY <1>1 DEF Init, HistoryInv, NoComplaint, NoRow, None
  <1>4. JobInv
    BY <1>1 DEF JobInv, NoJob
  <1>5. PhotosFollowRows
    BY <1>1 DEF Init, PhotosFollowRows
  <1> QED
    BY <1>2, <1>3, <1>4, <1>5 DEF IInv

\* Every step keeps the invariant.
LEMMA NextIInv ==
    IInv /\ [Next]_vars => IInv'
  <1> SUFFICES ASSUME IInv, [Next]_vars PROVE IInv'
    OBVIOUS
  <1>1. CASE Tick
    BY <1>1, Step_Tick
  <1>2. CASE \E c \in Complaints :
                \/ create_complaint(c) \/ expire(c) \/ close(c) \/ reopen(c)
                \/ \E decision \in {"VERIFIED", "REJECTED"} : verify_complaint(c, decision)
    BY <1>2, Step_create_complaint, Step_expire, Step_close, Step_reopen, Step_verify_complaint
  <1>3. CASE \E s \in Sightings, c \in Complaints, at \in Times : ingest(s, c, at)
    BY <1>3, Step_ingest
  <1>4. CASE Purge
    BY <1>4, Step_purge_old_data, Step_purge_rejected_complaints, Step_purge_expired_hotlist_entries,
       Step_purge_aborts, Step_purge_old_sightings, Step_delete_photo_safely, Step_photo_delete_failed,
       Step_purge_commit, Step_purge_fails DEF Purge
  <1>5. CASE UNCHANGED vars
    BY <1>5 DEF vars, tables, jobVars, IInv, TypeOK, HistoryInv, JobInv, PhotosFollowRows, Stored, Times
  <1> QED
    BY <1>1, <1>2, <1>3, <1>4, <1>5 DEF Next, Times

\* The invariant holds in every reachable state.
LEMMA Invariance ==
    Spec => []IInv
  BY InitIInv, NextIInv, PTL DEF Spec

\* Every variable keeps its type, and no foreign key points to a row that is gone.
THEOREM TypeCorrect ==
    Spec => []TypeOK
  <1>1. IInv => TypeOK
    BY DEF IInv
  <1> QED
    BY <1>1, Invariance, PTL

\* What a committed purge should have removed is gone, whatever went on beside it and
\* however many runs before it were refused or cut off.
THEOREM PurgeIsComplete ==
    Spec => []NothingOverdueAfterPurge
  <1>1. IInv => NothingOverdueAfterPurge
    BY DEF IInv, HistoryInv, NothingOverdueAfterPurge
  <1> QED
    BY <1>1, Invariance, PTL

\* Photos and sightings go together, except for what is due or could not be removed.
THEOREM PhotosAreKept ==
    Spec => []PhotosFollowRows
  <1>1. IInv => PhotosFollowRows
    BY DEF IInv
  <1> QED
    BY <1>1, Invariance, PTL

\* The database refuses a purge only after a gap between the purges, after a row was
\* reopened that had expired, or after a complaint was decided twice.
THEOREM RefusalsExplained ==
    Spec => []BlockedOnlyAfterAGap
  <1>1. ASSUME IInv, RowsBlocked,
               \A s \in Stored : sighting[s].row \in DueRows => ~Reopened(sighting[s].row)
        PROVE  job.now - lastDone > EXPIRED_HOTLIST_RETENTION_DAYS + COOLDOWN_DAYS
                                    - SIGHTING_RETENTION_DAYS - Tolerance
    <2>1. PICK s \in Stored : sighting[s].row \in DueRows
      BY <1>1 DEF RowsBlocked
    <2> DEFINE due == row[sighting[s].row]
    <2>2. /\ due.cooldown_until \in Int /\ due.settled \in Int /\ sighting[s].captured_at \in Int
          /\ job.now \in Int /\ lastDone \in Int
      BY <1>1, <2>1, RetentionAssumption DEF IInv, TypeOK, DueRows, Stored, Times
    <2>3. /\ due.status # "ACTIVE"
          /\ due.cooldown_until < job.now - EXPIRED_HOTLIST_RETENTION_DAYS
      BY <2>1 DEF DueRows
    <2>4. /\ sighting[s].captured_at >= lastDone - SIGHTING_RETENTION_DAYS
          /\ sighting[s].captured_at <= due.settled + Tolerance
      BY <1>1, <2>1, <2>3 DEF IInv, HistoryInv
    <2>5. due.settled <= due.cooldown_until - COOLDOWN_DAYS
      BY <1>1, <2>1, <2>2, RetentionAssumption DEF Reopened
    <2> QED
      BY <2>2, <2>3, <2>4, <2>5, RetentionAssumption
  <1>2. ASSUME IInv, ComplaintsBlocked
        PROVE  \E c \in DueComplaints : complaint[c].twice
    BY <1>2 DEF IInv, HistoryInv, ComplaintsBlocked, DueComplaints
  <1>3. IInv => BlockedOnlyAfterAGap
    BY <1>1, <1>2 DEF BlockedOnlyAfterAGap
  <1> QED
    BY <1>3, Invariance, PTL
=============================================================================
