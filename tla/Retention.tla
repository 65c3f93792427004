------------------------------ MODULE Retention ------------------------------
(***************************************************************************)
(* The nightly purge: one transaction that deletes rejected complaints,     *)
(* hotlist rows past their cooldown, old sightings with their photos, and   *)
(* old audit rows, in this order, while the server goes on.                 *)
(*                                                                         *)
(* The database checks the foreign keys hotlist.complaint_id and            *)
(* sightings.hotlist_id at each DELETE; one violation raises and the whole  *)
(* transaction is rolled back.  Photos are files outside of it.             *)
(*                                                                         *)
(* Time is counted in days.  A complaint has at most one row here, and the  *)
(* two share a name.                                                        *)
(***************************************************************************)
EXTENDS Integers

CONSTANTS
    Complaints, Sightings,               \* ids
    REJECTED_COMPLAINT_RETENTION_DAYS, EXPIRED_HOTLIST_RETENTION_DAYS,
    SIGHTING_RETENTION_DAYS, AUDIT_LOG_RETENTION_DAYS, COOLDOWN_DAYS,
    Tolerance,                           \* how far captured_at may be from the clock
    MaxDay,                              \* bound on the clock
    MaxFailures                          \* bound on crashes and photos that cannot be removed

ASSUME RetentionAssumption ==
    /\ "none" \notin Complaints
    /\ REJECTED_COMPLAINT_RETENTION_DAYS \in Nat /\ EXPIRED_HOTLIST_RETENTION_DAYS \in Nat
    /\ SIGHTING_RETENTION_DAYS \in Nat /\ AUDIT_LOG_RETENTION_DAYS \in Nat
    /\ COOLDOWN_DAYS \in Nat
    /\ Tolerance \in Nat /\ Tolerance <= SIGHTING_RETENTION_DAYS
    /\ MaxDay \in Nat /\ MaxFailures \in Nat

VARIABLES
    day,       \* the clock
    complaint, \* the complaints, with the day of their last decision
    row,       \* the hotlist rows
    sighting,  \* the sightings
    photos,    \* the sightings whose photo file exists
    audits,    \* the days on which rows of audit_logs were written
    job,       \* the purge: its next step, its "now", what it has deleted and not committed
    lastDone,  \* the "now" of the last purge that was committed
    orphaned,  \* history: sightings whose photo could not be removed
    failures

tables == <<complaint, row, sighting, photos, audits>>
jobVars == <<job, lastDone, orphaned, failures>>
vars == <<day, tables, jobVars>>

-----------------------------------------------------------------------------
None == "none"

NoComplaint == [status |-> None, created_at |-> 0, decided |-> 0, twice |-> FALSE]
\* -1 stands for NULL.  "settled" is history: the day on which the row last stopped being active.
NoRow == [status |-> None, cooldown_until |-> -1, settled |-> 0]
NoSighting == [row |-> None, captured_at |-> 0]
NoJob == [at |-> "idle", now |-> 0, complaints |-> {}, rows |-> {}, sightings |-> {}]

Init ==
    /\ day = 0
    /\ complaint = [c \in Complaints |-> NoComplaint]
    /\ row = [c \in Complaints |-> NoRow]
    /\ sighting = [s \in Sightings |-> NoSighting]
    /\ photos = {} /\ audits = {}
    /\ job = NoJob
    /\ lastDone = 0 /\ orphaned = {} /\ failures = 0

Stored == {s \in Sightings : sighting[s].row # None}

-----------------------------------------------------------------------------
(* What goes on by day.                                                    *)

Tick ==
    /\ day < MaxDay
    /\ day' = day + 1
    /\ UNCHANGED <<tables, jobVars>>

create_complaint(c) ==
    /\ complaint[c] = NoComplaint
    /\ complaint' = [complaint EXCEPT ![c] = [status |-> "PENDING_VERIFICATION", created_at |-> day,
                                              decided |-> day, twice |-> FALSE]]
    /\ UNCHANGED <<day, row, sighting, photos, audits, jobVars>>

\* An officer decides what he loaded pending; when another officer decides it meanwhile,
\* the later commit is the second of the same day.  The row of a complaint that is being
\* deleted is locked.
verify_complaint(c, decision) ==
    /\ complaint[c].status # None /\ c \notin job.complaints
    /\ \/ complaint[c].status = "PENDING_VERIFICATION"
       \/ complaint[c].status \in {"VERIFIED", "REJECTED"} \ {decision} /\ complaint[c].decided = day
    /\ complaint' = [complaint EXCEPT ![c].status = decision, ![c].decided = day,
                                      ![c].twice = complaint[c].status # "PENDING_VERIFICATION"]
    /\ row' = IF decision = "VERIFIED" /\ row[c] = NoRow
              THEN [row EXCEPT ![c].status = "ACTIVE"] ELSE row
    /\ audits' = audits \cup {day}
    /\ UNCHANGED <<day, sighting, photos, jobVars>>

\* The row as one sees it who loaded it today while it was active; a row that is being
\* deleted is locked.
ActiveWhenLoaded(c) ==
    /\ c \notin job.rows
    /\ \/ row[c].status = "ACTIVE"
       \/ row[c].status \in {"EXPIRED", "CLOSED"} /\ row[c].settled = day

\* Only the expiry job sets a cooldown.
expire(c) ==
    /\ ActiveWhenLoaded(c)
    /\ row' = [row EXCEPT ![c] = [status |-> "EXPIRED", cooldown_until |-> day + COOLDOWN_DAYS,
                                  settled |-> day]]
    /\ UNCHANGED <<day, complaint, sighting, photos, audits, jobVars>>

\* PUT and DELETE close a row and leave its cooldown as it is.
close(c) ==
    /\ row[c].status \in {"ACTIVE", "EXPIRED"} /\ c \notin job.rows
    /\ row' = [row EXCEPT ![c].status = "CLOSED",
                          ![c].settled = IF row[c].status = "ACTIVE" THEN day ELSE @]
    /\ audits' = audits \cup {day}
    /\ UNCHANGED <<day, complaint, sighting, photos, jobVars>>

\* A PUT that confirms a row it loaded active, after the row has expired or was closed.
reopen(c) ==
    /\ ActiveWhenLoaded(c)
    /\ row[c].status # "ACTIVE"
    /\ row' = [row EXCEPT ![c].status = "ACTIVE"]
    /\ audits' = audits \cup {day}
    /\ UNCHANGED <<day, complaint, sighting, photos, jobVars>>

\* A device reports a row that is active when the event is matched; the server accepts a
\* capture near its own time.
ingest(s, c, captured_at) ==
    /\ sighting[s] = NoSighting /\ s \notin orphaned
    /\ ActiveWhenLoaded(c)
    /\ captured_at \in (day - Tolerance)..(day + Tolerance)
    /\ sighting' = [sighting EXCEPT ![s] = [row |-> c, captured_at |-> captured_at]]
    /\ photos' = photos \cup {s}
    /\ UNCHANGED <<day, complaint, row, audits, jobVars>>

-----------------------------------------------------------------------------
(* The purge.                                                              *)

\* The job runs once a night, unless the server is down.
purge_old_data ==
    /\ job.at = "idle" /\ job.now < day
    /\ job' = [NoJob EXCEPT !.at = "complaints", !.now = day]
    /\ UNCHANGED <<day, tables, lastDone, orphaned, failures>>

DueComplaints ==
    {c \in Complaints : /\ complaint[c].status = "REJECTED"
                        /\ complaint[c].created_at < job.now - REJECTED_COMPLAINT_RETENTION_DAYS}

\* Mutant: the cooldown is taken for the end of the retention.
DueRows_at_cooldown ==
    {c \in Complaints : /\ row[c].status \in {"EXPIRED", "CLOSED"}
                        /\ row[c].cooldown_until # -1
                        /\ row[c].cooldown_until < job.now}

DueRows ==
    {c \in Complaints : /\ row[c].status \in {"EXPIRED", "CLOSED"}
                        /\ row[c].cooldown_until # -1
                        /\ row[c].cooldown_until < job.now - EXPIRED_HOTLIST_RETENTION_DAYS}

\* Mutant: only sightings of rows that are gone or closed are purged.
DueSightings_of_closed ==
    {s \in Stored : /\ sighting[s].captured_at < job.now - SIGHTING_RETENTION_DAYS
                    /\ row[sighting[s].row].status # "ACTIVE"}

DueSightings == {s \in Stored : sighting[s].captured_at < job.now - SIGHTING_RETENTION_DAYS}

\* Mutant: hotlist.complaint_id is no foreign key.
ComplaintsBlocked_never == FALSE

\* A DELETE that a foreign key refuses.
ComplaintsBlocked == job.at = "complaints" /\ \E c \in DueComplaints : row[c] # NoRow
RowsBlocked == job.at = "rows" /\ \E s \in Stored : sighting[s].row \in DueRows

\* The end of a run; its "now" stays.
Ended == [NoJob EXCEPT !.now = job.now]

purge_rejected_complaints ==
    /\ job.at = "complaints" /\ ~ComplaintsBlocked
    /\ job' = [job EXCEPT !.at = "rows", !.complaints = DueComplaints]
    /\ UNCHANGED <<day, tables, lastDone, orphaned, failures>>

purge_expired_hotlist_entries ==
    /\ job.at = "rows" /\ ~RowsBlocked
    /\ job' = [job EXCEPT !.at = "sightings", !.rows = DueRows]
    /\ UNCHANGED <<day, tables, lastDone, orphaned, failures>>

\* The exception is logged and the transaction rolled back, tonight and every night.
purge_aborts ==
    /\ ComplaintsBlocked \/ RowsBlocked
    /\ job' = Ended
    /\ UNCHANGED <<day, tables, lastDone, orphaned, failures>>

purge_old_sightings ==
    /\ job.at = "sightings"
    /\ job' = [job EXCEPT !.at = "photos", !.sightings = DueSightings]
    /\ UNCHANGED <<day, tables, lastDone, orphaned, failures>>

\* The files that are still there and that nothing has refused to remove.
PhotosLeft == (job.sightings \cap photos) \ orphaned

\* A file that is gone already is passed over.
delete_photo_safely(s) ==
    /\ job.at = "photos"
    /\ s \in PhotosLeft
    /\ photos' = photos \ {s}
    /\ UNCHANGED <<day, complaint, row, sighting, audits, jobVars>>

\* Any other error leaves the file and the job goes on.
photo_delete_failed(s) ==
    /\ job.at = "photos"
    /\ s \in PhotosLeft
    /\ failures < MaxFailures
    /\ failures' = failures + 1
    /\ orphaned' = orphaned \cup {s}
    /\ UNCHANGED <<day, tables, job, lastDone>>

\* Mutant: the sightings are committed before their photos are removed.
purge_commit_early ==
    /\ job.at = "photos"
    /\ complaint' = [c \in Complaints |-> IF c \in job.complaints THEN NoComplaint ELSE complaint[c]]
    /\ row' = [c \in Complaints |-> IF c \in job.rows THEN NoRow ELSE row[c]]
    /\ sighting' = [s \in Sightings |-> IF s \in job.sightings THEN NoSighting ELSE sighting[s]]
    /\ audits' = {a \in audits : a >= job.now - AUDIT_LOG_RETENTION_DAYS}
    /\ lastDone' = job.now
    /\ job' = Ended
    /\ UNCHANGED <<day, photos, orphaned, failures>>

\* The audit rows go last, and everything is committed.
purge_commit ==
    /\ job.at = "photos" /\ PhotosLeft = {}
    /\ complaint' = [c \in Complaints |-> IF c \in job.complaints THEN NoComplaint ELSE complaint[c]]
    /\ row' = [c \in Complaints |-> IF c \in job.rows THEN NoRow ELSE row[c]]
    /\ sighting' = [s \in Sightings |-> IF s \in job.sightings THEN NoSighting ELSE sighting[s]]
    /\ audits' = {a \in audits : a >= job.now - AUDIT_LOG_RETENTION_DAYS}
    /\ lastDone' = job.now
    /\ job' = Ended
    /\ UNCHANGED <<day, photos, orphaned, failures>>

\* The connection or the process is lost.
purge_fails ==
    /\ job.at # "idle"
    /\ failures < MaxFailures
    /\ failures' = failures + 1
    /\ job' = Ended
    /\ UNCHANGED <<day, tables, lastDone, orphaned>>

-----------------------------------------------------------------------------
Purge ==
    \/ purge_old_data
    \/ purge_rejected_complaints
    \/ purge_expired_hotlist_entries
    \/ purge_aborts
    \/ purge_old_sightings
    \/ \E s \in Sightings : delete_photo_safely(s) \/ photo_delete_failed(s)
    \/ purge_commit
    \/ purge_fails

Next ==
    \/ Tick
    \/ \E c \in Complaints : \/ create_complaint(c) \/ expire(c) \/ close(c) \/ reopen(c)
                             \/ \E decision \in {"VERIFIED", "REJECTED"} : verify_complaint(c, decision)
    \/ \E s \in Sightings, c \in Complaints, at \in (-Tolerance)..(MaxDay + Tolerance) : ingest(s, c, at)
    \/ Purge

Spec == Init /\ [][Next]_vars

-----------------------------------------------------------------------------
(* Properties.                                                             *)

Times == (-Tolerance)..(MaxDay + Tolerance)

\* Everything is of its type, and no foreign key points to a row that is gone.
TypeOK ==
    /\ day \in 0..MaxDay
    /\ complaint \in [Complaints -> [status : {None, "PENDING_VERIFICATION", "VERIFIED", "REJECTED"},
                                     created_at : 0..MaxDay, decided : 0..MaxDay, twice : BOOLEAN]]
    /\ row \in [Complaints -> [status : {None, "ACTIVE", "EXPIRED", "CLOSED"},
                               cooldown_until : -1..(MaxDay + COOLDOWN_DAYS), settled : 0..MaxDay]]
    /\ sighting \in [Sightings -> [row : Complaints \cup {None}, captured_at : Times]]
    /\ photos \subseteq Sightings /\ audits \subseteq 0..MaxDay
    /\ job \in [at : {"idle", "complaints", "rows", "sightings", "photos"}, now : 0..MaxDay,
                complaints : SUBSET Complaints, rows : SUBSET Complaints, sightings : SUBSET Sightings]
    /\ job.now <= day /\ lastDone \in 0..day
    /\ orphaned \subseteq Sightings /\ failures \in 0..MaxFailures
    /\ \A c \in Complaints : row[c] # NoRow => complaint[c] # NoComplaint
    /\ \A s \in Stored : row[sighting[s].row] # NoRow

\* A committed purge leaves nothing that was overdue when it began: no sighting older
\* than its limit, no row past its cooldown that was out of use by then, no audit row,
\* and no complaint that had been rejected by then.
NothingOverdueAfterPurge ==
    lastDone > 0 =>
        /\ \A s \in Stored : sighting[s].captured_at >= lastDone - SIGHTING_RETENTION_DAYS
        /\ \A c \in Complaints :
              (row[c].status # "ACTIVE" /\ row[c].settled < lastDone /\ row[c].cooldown_until # -1) =>
              row[c].cooldown_until >= lastDone - EXPIRED_HOTLIST_RETENTION_DAYS
        /\ \A c \in Complaints : (complaint[c].status = "REJECTED" /\ complaint[c].decided < lastDone) =>
              complaint[c].created_at >= lastDone - REJECTED_COMPLAINT_RETENTION_DAYS
        /\ \A a \in audits : a >= lastDone - AUDIT_LOG_RETENTION_DAYS

\* Photos are removed before the commit and for good.  Still, a sighting without its
\* photo is one that was due for removal, and a photo without its sighting is one that
\* could not be removed.
PhotosFollowRows ==
    /\ \A s \in Stored \ photos : sighting[s].captured_at < day - SIGHTING_RETENTION_DAYS
    /\ photos \ Stored \subseteq orphaned

\* The row was in use after it had expired: its cooldown is older than its last sightings.
Reopened(c) == row[c].settled > row[c].cooldown_until - COOLDOWN_DAYS

\* A row still has sightings when it is due only if it was reopened after its expiry, or if
\* no purge was committed for longer than the difference of the two retentions; a rejected
\* complaint has a row only if it was decided twice.  Nothing else makes the database
\* refuse a purge.
BlockedOnlyAfterAGap ==
    /\ (RowsBlocked /\ \A s \in Stored : sighting[s].row \in DueRows => ~Reopened(sighting[s].row)) =>
          job.now - lastDone > EXPIRED_HOTLIST_RETENTION_DAYS + COOLDOWN_DAYS
                               - SIGHTING_RETENTION_DAYS - Tolerance
    /\ ComplaintsBlocked => \E c \in DueComplaints : complaint[c].twice
=============================================================================
