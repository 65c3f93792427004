-------------------------- MODULE HotlistLifecycle --------------------------
(***************************************************************************)
(* Complaints, the hotlist rows they give rise to, and everybody who       *)
(* writes them: officers (verify, PUT, DELETE), citizens (file, submit     *)
(* FIR) and the five-minute expiry job.                                    *)
(*                                                                         *)
(* Every endpoint loads a row, decides on what it loaded, and commits      *)
(* later; no row is locked and no version is compared (READ COMMITTED).    *)
(* So a request is a record per worker thread that remembers what the      *)
(* load saw, and the load and the commit are two actions.  A flush writes  *)
(* only the columns whose value changed with respect to the load.  The     *)
(* audit row is a second commit after the mutation's own.                  *)
(***************************************************************************)
EXTENDS Integers

CONSTANTS
    Complaints,    \* complaint ids
    Entries,       \* hotlist row ids (fresh UUIDs: a bound on approvals)
    Threads,       \* worker threads, each serving one request at a time
    None,          \* no complaint, no entry
    FirDeadline,   \* settings.FIR_DEADLINE_HOURS
    CooldownTime,  \* settings.COOLDOWN_DAYS
    MaxTime,       \* bound on the clock
    MaxRequests,   \* bound on the requests served
    MaxFailures    \* bound on crashes and failed transactions

ASSUME NoneAssumption == None \notin Complaints \cup Entries
ASSUME TimeAssumption ==
    /\ FirDeadline \in Nat \ {0}
    /\ CooldownTime \in Nat
    /\ MaxTime \in Nat
ASSUME BoundAssumption == MaxRequests \in Nat /\ MaxFailures \in Nat

VARIABLES
    now,        \* the clock
    complaint,  \* complaints.status of every complaint, "NONE" before it is filed
    hotlist,    \* the hotlist row of every entry id
    request,    \* what every worker thread is doing
    job,        \* the expiry job: the rows it read and when
    issued,     \* requests started so far; the next request's number
    committed,  \* requests of officers whose mutation is in the database
    audited,    \* requests with a row in audit_logs
    failures    \* crashes and failed transactions so far

vars == <<now, complaint, hotlist, request, job, issued, committed, audited, failures>>

-----------------------------------------------------------------------------
(* The tables.                                                             *)

ComplaintStatus == {"PENDING_VERIFICATION", "VERIFIED", "REJECTED"}

HotlistStatus == {"PENDING_VERIFICATION", "ACTIVE_UNCONFIRMED",
                  "ACTIVE_CONFIRMED", "EXPIRED", "CLOSED", "REJECTED"}

\* A deadline or cooldown of 0 stands for NULL.
NoRow == [status |-> "NONE", complaint |-> None, fir_deadline |-> 0,
          cooldown_until |-> 0, fir_ref |-> FALSE]

Row == [status : HotlistStatus \cup {"NONE"}, complaint : Complaints \cup {None},
        fir_deadline : Nat, cooldown_until : Nat, fir_ref : BOOLEAN]

LegalTransitions ==
    [s \in HotlistStatus |->
        CASE s = "PENDING_VERIFICATION" -> {"ACTIVE_UNCONFIRMED", "REJECTED"}
          [] s = "ACTIVE_UNCONFIRMED"   -> {"ACTIVE_CONFIRMED", "CLOSED", "EXPIRED"}
          [] s = "ACTIVE_CONFIRMED"     -> {"CLOSED"}
          [] OTHER                      -> {}]

is_legal_transition(current, new) ==
    current = new \/ new \in LegalTransitions[current]

Rows == {e \in Entries : hotlist[e].status # "NONE"}

-----------------------------------------------------------------------------
(* Requests.  "seen" is the status the load returned, "to" the one the     *)
(* commit will leave in the session's copy of the row.                     *)

Idle == [op |-> "idle", stage |-> "none", complaint |-> None, entry |-> None,
         seen |-> "NONE", to |-> "NONE", fir |-> FALSE, id |-> 0]

Request == [op : {"idle", "approve", "reject", "update", "delete", "submit_fir"},
            stage : {"none", "find", "commit", "audit"},
            complaint : Complaints \cup {None}, entry : Entries \cup {None},
            seen : HotlistStatus \cup {"NONE"}, to : HotlistStatus \cup {"NONE"},
            fir : BOOLEAN, id : Nat]

JobIdle == [running |-> FALSE, batch |-> {}, at |-> 0]

\* Thread t starts the request r.
Begin(t, r) ==
    /\ request[t] = Idle
    /\ issued < MaxRequests
    /\ issued' = issued + 1
    /\ request' = [request EXCEPT ![t] = [r EXCEPT !.id = issued + 1]]

At(t, op, stage) == request[t].op = op /\ request[t].stage = stage

\* An officer's mutation is in the database; its audit row is still to come.
Mutated(t) ==
    /\ committed' = committed \cup {request[t].id}
    /\ request' = [request EXCEPT ![t].stage = "audit"]

Init ==
    /\ now = 0
    /\ complaint = [c \in Complaints |-> "NONE"]
    /\ hotlist = [e \in Entries |-> NoRow]
    /\ request = [t \in Threads |-> Idle]
    /\ job = JobIdle
    /\ issued = 0
    /\ committed = {}
    /\ audited = {}
    /\ failures = 0

Tick ==
    /\ now < MaxTime
    /\ now' = now + 1
    /\ UNCHANGED <<complaint, hotlist, request, job, issued, committed, audited, failures>>

-----------------------------------------------------------------------------
(* Complaints.                                                             *)

create_complaint(c) ==
    /\ complaint[c] = "NONE"
    /\ complaint' = [complaint EXCEPT ![c] = "PENDING_VERIFICATION"]
    /\ UNCHANGED <<now, hotlist, request, job, issued, committed, audited, failures>>

\* verify_complaint_endpoint up to the status check: 404 and 409 change nothing.
verify_load(t, c, decision) ==
    /\ complaint[c] = "PENDING_VERIFICATION"
    /\ Begin(t, [Idle EXCEPT !.op = decision, !.stage = "commit", !.complaint = c])
    /\ UNCHANGED <<now, complaint, hotlist, job, committed, audited, failures>>

\* Mutant: the row is never added to the session.
approve_without_row(t) ==
    /\ At(t, "approve", "commit")
    /\ complaint' = [complaint EXCEPT ![request[t].complaint] = "VERIFIED"]
    /\ Mutated(t)
    /\ UNCHANGED <<now, hotlist, job, issued, audited, failures>>

\* One commit sets the complaint VERIFIED and inserts its hotlist row.
approve_commit(t) ==
    /\ At(t, "approve", "commit")
    /\ LET c == request[t].complaint IN
       \E e \in Entries \ Rows :
         /\ complaint' = [complaint EXCEPT ![c] = "VERIFIED"]
         /\ hotlist' = [hotlist EXCEPT ![e] =
                          [status |-> "ACTIVE_UNCONFIRMED", complaint |-> c,
                           fir_deadline |-> now + FirDeadline,
                           cooldown_until |-> 0, fir_ref |-> FALSE]]
    /\ Mutated(t)
    /\ UNCHANGED <<now, job, issued, audited, failures>>

\* Mutant: the rejecting branch returns before the audit row.
reject_unaudited(t) ==
    /\ At(t, "reject", "commit")
    /\ complaint' = [complaint EXCEPT ![request[t].complaint] = "REJECTED"]
    /\ committed' = committed \cup {request[t].id}
    /\ request' = [request EXCEPT ![t] = Idle]
    /\ UNCHANGED <<now, hotlist, job, issued, audited, failures>>

reject_commit(t) ==
    /\ At(t, "reject", "commit")
    /\ complaint' = [complaint EXCEPT ![request[t].complaint] = "REJECTED"]
    /\ Mutated(t)
    /\ UNCHANGED <<now, hotlist, job, issued, audited, failures>>

\* submit_fir reads the complaint, then looks for a row awaiting its FIR.
fir_load(t, c) ==
    /\ complaint[c] = "VERIFIED"
    /\ Begin(t, [Idle EXCEPT !.op = "submit_fir", !.stage = "find", !.complaint = c])
    /\ UNCHANGED <<now, complaint, hotlist, job, committed, audited, failures>>

Awaiting(c) == {e \in Rows : /\ hotlist[e].complaint = c
                             /\ hotlist[e].status = "ACTIVE_UNCONFIRMED"}

fir_find(t) ==
    /\ At(t, "submit_fir", "find")
    /\ \/ \E e \in Awaiting(request[t].complaint) :
            request' = [request EXCEPT ![t].stage = "commit", ![t].entry = e]
       \/ /\ Awaiting(request[t].complaint) = {}      \* 409
          /\ request' = [request EXCEPT ![t] = Idle]
    /\ UNCHANGED <<now, complaint, hotlist, job, issued, committed, audited, failures>>

fir_commit(t) ==
    /\ At(t, "submit_fir", "commit")
    /\ hotlist' = [hotlist EXCEPT ![request[t].entry].fir_ref = TRUE]
    /\ request' = [request EXCEPT ![t] = Idle]
    /\ UNCHANGED <<now, complaint, job, issued, committed, audited, failures>>

-----------------------------------------------------------------------------
(* The hotlist API.                                                        *)

\* Mutant: the legality check is dropped.
update_unchecked(t, e, to, fir) ==
    /\ e \in Rows
    /\ Begin(t, [Idle EXCEPT !.op = "update", !.stage = "commit", !.entry = e,
                             !.seen = hotlist[e].status, !.to = to, !.fir = fir])
    /\ UNCHANGED <<now, complaint, hotlist, job, committed, audited, failures>>

\* PUT: "to" is the status of the payload, or the present one when the payload
\* has none; the legality check reads the loaded row.
update_load(t, e, to, fir) ==
    /\ e \in Rows
    /\ is_legal_transition(hotlist[e].status, to)
    /\ Begin(t, [Idle EXCEPT !.op = "update", !.stage = "commit", !.entry = e,
                             !.seen = hotlist[e].status, !.to = to, !.fir = fir])
    /\ UNCHANGED <<now, complaint, hotlist, job, committed, audited, failures>>

\* DELETE: sets CLOSED and does not ask whether the transition is legal.
delete_load(t, e) ==
    /\ e \in Rows
    /\ Begin(t, [Idle EXCEPT !.op = "delete", !.stage = "commit", !.entry = e,
                             !.seen = hotlist[e].status, !.to = "CLOSED"])
    /\ UNCHANGED <<now, complaint, hotlist, job, committed, audited, failures>>

\* Mutant: every column of the loaded row is written back.
FlushedWhole(row, r) ==
    [row EXCEPT !.status = r.to, !.fir_ref = @ \/ r.fir]

\* The flush of a PUT or a DELETE writes a column only if the session changed it.
Flushed(row, r) ==
    [row EXCEPT !.status = IF r.to = r.seen THEN @ ELSE r.to,
                !.fir_ref = @ \/ r.fir]

entry_commit(t) ==
    /\ At(t, "update", "commit") \/ At(t, "delete", "commit")
    /\ hotlist' = [hotlist EXCEPT ![request[t].entry] = Flushed(@, request[t])]
    /\ Mutated(t)
    /\ UNCHANGED <<now, complaint, job, issued, audited, failures>>

\* write_audit_log: the second commit of every officer's request.
write_audit_log(t) ==
    /\ request[t].stage = "audit"
    /\ audited' = audited \cup {request[t].id}
    /\ request' = [request EXCEPT ![t] = Idle]
    /\ UNCHANGED <<now, complaint, hotlist, job, issued, committed, failures>>

-----------------------------------------------------------------------------
(* The expiry job (APScheduler runs one instance of it at a time).         *)

\* Mutant: the deadline is not part of the query.
Unconfirmed == {e \in Rows : hotlist[e].status = "ACTIVE_UNCONFIRMED"}

Overdue == {e \in Rows : /\ hotlist[e].status = "ACTIVE_UNCONFIRMED"
                         /\ hotlist[e].fir_deadline < now}

\* Mutant: rows that already have an FIR reference are skipped.
find_without_fir ==
    /\ ~job.running
    /\ \E e \in Overdue : ~hotlist[e].fir_ref
    /\ job' = [running |-> TRUE, batch |-> {e \in Overdue : ~hotlist[e].fir_ref}, at |-> now]
    /\ UNCHANGED <<now, complaint, hotlist, request, issued, committed, audited, failures>>

find_expired_entries ==
    /\ ~job.running
    /\ Overdue # {}
    /\ job' = [running |-> TRUE, batch |-> Overdue, at |-> now]
    /\ UNCHANGED <<now, complaint, hotlist, request, issued, committed, audited, failures>>

\* Mutant: a status outside the enum.
mark_inactive(row) ==
    [row EXCEPT !.status = "INACTIVE", !.cooldown_until = job.at + CooldownTime]

mark_expired(row) ==
    [row EXCEPT !.status = "EXPIRED", !.cooldown_until = job.at + CooldownTime]

expire_commit ==
    /\ job.running
    /\ hotlist' = [e \in Entries |-> IF e \in job.batch THEN mark_expired(hotlist[e])
                                                        ELSE hotlist[e]]
    /\ job' = JobIdle
    /\ UNCHANGED <<now, complaint, request, issued, committed, audited, failures>>

-----------------------------------------------------------------------------
(* Failures: a transaction that raises is rolled back and ends its request *)
(* (or this run of the job); a crash of the process ends all of them.      *)

Fail == failures < MaxFailures /\ failures' = failures + 1

request_fails(t) ==
    /\ Fail
    /\ request[t] # Idle
    /\ request' = [request EXCEPT ![t] = Idle]
    /\ UNCHANGED <<now, complaint, hotlist, job, issued, committed, audited>>

job_fails ==
    /\ Fail
    /\ job.running
    /\ job' = JobIdle
    /\ UNCHANGED <<now, complaint, hotlist, request, issued, committed, audited>>

crash ==
    /\ Fail
    /\ request' = [t \in Threads |-> Idle]
    /\ job' = JobIdle
    /\ UNCHANGED <<now, complaint, hotlist, issued, committed, audited>>

-----------------------------------------------------------------------------
\* A request that has begun runs on to its end.
Continue(t) ==
    \/ approve_commit(t)
    \/ reject_commit(t)
    \/ fir_find(t)
    \/ fir_commit(t)
    \/ entry_commit(t)
    \/ write_audit_log(t)

Serve(t) ==
    \/ \E c \in Complaints, d \in {"approve", "reject"} : verify_load(t, c, d)
    \/ \E c \in Complaints : fir_load(t, c)
    \/ \E e \in Entries, to \in HotlistStatus, fir \in BOOLEAN : update_load(t, e, to, fir)
    \/ \E e \in Entries : delete_load(t, e)

Next ==
    \/ Tick
    \/ \E c \in Complaints : create_complaint(c)
    \/ \E t \in Threads : Serve(t) \/ Continue(t) \/ request_fails(t)
    \/ find_expired_entries
    \/ expire_commit
    \/ job_fails
    \/ crash

Spec == Init /\ [][Next]_vars

\* The process keeps running its job and its requests; nobody has to send one.
Fairness ==
    /\ WF_vars(find_expired_entries)
    /\ WF_vars(expire_commit)
    /\ \A t \in Threads : WF_vars(Continue(t))

FairSpec == Spec /\ Fairness

-----------------------------------------------------------------------------
(* Types.                                                                  *)

\* Every variable keeps the shape of the table or session it stands for.
TypeOK ==
    /\ now \in 0..MaxTime
    /\ complaint \in [Complaints -> ComplaintStatus \cup {"NONE"}]
    /\ hotlist \in [Entries -> Row]
    /\ request \in [Threads -> Request]
    /\ job \in [running : BOOLEAN, batch : SUBSET Entries, at : 0..MaxTime]
    /\ issued \in 0..MaxRequests
    /\ committed \subseteq 1..MaxRequests
    /\ audited \subseteq 1..MaxRequests
    /\ failures \in 0..MaxFailures

(* Safety.                                                                 *)

\* No row is expired early: a cooldown exists only on a row that has left
\* ACTIVE_UNCONFIRMED for good, and it was counted from an instant after that row's
\* own FIR deadline.
CooldownAfterDeadline ==
    \A e \in Entries : hotlist[e].cooldown_until # 0 =>
        /\ hotlist[e].cooldown_until > hotlist[e].fir_deadline + CooldownTime
        /\ hotlist[e].status \notin {"NONE", "ACTIVE_UNCONFIRMED"}

\* No row is overlooked: what is not in the batch of a running job and still waits was
\* not overdue when the job read the table.
BatchComplete ==
    job.running => \A e \in Entries \ job.batch :
        hotlist[e].status = "ACTIVE_UNCONFIRMED" => hotlist[e].fir_deadline >= job.at

\* The expiry job takes the rows whose deadline has passed and no others, whatever it
\* races with between its query and its commit.
ExpiryIsExact == CooldownAfterDeadline /\ BatchComplete

\* The complaint and its row are one transaction: a complaint is VERIFIED only
\* together with a row listed for it, and no row ever belongs to a complaint
\* nobody has decided (verification.py commits both at once).
DecisionMatchesRows ==
    /\ \A c \in Complaints : complaint[c] = "VERIFIED" =>
           \E e \in Rows : hotlist[e].complaint = c
    /\ \A e \in Rows : complaint[hotlist[e].complaint] \in {"VERIFIED", "REJECTED"}

\* A row of audit_logs stands for a mutation that is really in the database: the
\* log may lag behind the tables and never runs ahead of them.
NoAuditWithoutWrite == audited \subseteq committed

\* The excuses for a status change that is_legal_transition forbids: a DELETE, which
\* does not ask, or a request or job run whose load is older than another commit.
Excused(e) ==
    \/ \E t \in Threads :
         /\ entry_commit(t)
         /\ request[t].entry = e
         /\ request[t].op = "delete" \/ request[t].seen # hotlist[e].status
    \/ /\ expire_commit
       /\ e \in job.batch
       /\ hotlist[e].status # "ACTIVE_UNCONFIRMED"

\* LEGAL_TRANSITIONS is left in two ways only: by a DELETE, which does not ask, and by
\* a writer whose load is stale.  A writer that saw the present status of the row
\* never takes it where it may not go.
IllegalOnlyWhenStale ==
    [][\A e \in Rows :
         is_legal_transition(hotlist[e].status, hotlist'[e].status) \/ Excused(e)]_vars

\* As long as nothing fails, an officer's write without an audit row has a thread that
\* is about to insert it: only a failure between the two commits loses an audit row.
AuditLostOnlyByFailure ==
    failures = 0 => \A i \in committed \ audited :
        \E t \in Threads : request[t].id = i /\ request[t].stage = "audit"

\* A run of the expiry job that commits leaves nothing that was overdue when it read.
ExpiryLeavesNothingOverdue ==
    [][expire_commit => \A e \in Entries :
           hotlist'[e].status = "ACTIVE_UNCONFIRMED" => hotlist'[e].fir_deadline >= job.at]_vars

(* Liveness.                                                               *)

\* A row whose FIR deadline has passed does not stay ACTIVE_UNCONFIRMED: the job
\* (or an officer) takes it out, failed runs and crashes notwithstanding.
OverdueIsResolved ==
    \A e \in Entries : (e \in Overdue) ~> (hotlist[e].status # "ACTIVE_UNCONFIRMED")

\* Every officer's committed write gets its row in audit_logs, as long as nothing
\* fails: the audit row is a commit of its own and does not survive a crash before it.
AuditedUnlessFailure ==
    \A i \in 1..MaxRequests :
        (i \in committed) ~> (i \in audited \/ failures > 0)

-----------------------------------------------------------------------------
(* What the documents say and the interleavings break.                     *)

\* Once confirmed, a row is never expired ("scheduler no longer expires").
ConfirmedNeverExpires ==
    [][\A e \in Entries : hotlist[e].status = "ACTIVE_CONFIRMED"
                          => hotlist'[e].status # "EXPIRED"]_vars

\* A complaint is decided once: a decision on one that is not pending is refused.
DecidedOnce ==
    [][\A c \in Complaints : complaint[c] \in {"VERIFIED", "REJECTED"}
         => /\ complaint'[c] = complaint[c]
            /\ \A e \in Entries \ Rows : hotlist'[e].complaint # c]_vars

-----------------------------------------------------------------------------
\* The promise that survives every interleaving, stated in HotlistPromise.
StatusOf == [e \in Entries |-> hotlist[e].status]

Promise == INSTANCE HotlistPromise WITH status <- StatusOf

\* Whatever overlaps, a row waits for its FIR once and settles for good: a commit
\* made from a stale load never brings ACTIVE_UNCONFIRMED back.
ImplementsPromise == Promise!Spec

\* What the ingest endpoint sees of a row when it looks for matches.
ViewOf ==
    [e \in Entries |-> CASE hotlist[e].status = "NONE" -> "NONE"
                         [] hotlist[e].status \in {"ACTIVE_UNCONFIRMED", "ACTIVE_CONFIRMED"} -> "ACTIVE"
                         [] OTHER -> "INACTIVE"]

View == INSTANCE HotlistView WITH row <- ViewOf

\* SightingIngest assumes of the hotlist no more than its writers guarantee: whatever they
\* do, the rows _find_active_hotlist reads come and go as HotlistView says.
ProvidesView == View!Spec
=============================================================================
