----------------------- MODULE HotlistLifecycleProofs -----------------------
(***************************************************************************)
(* Theorems about HotlistLifecycle for any number of complaints, rows,     *)
(* threads, requests, failures and any length of the run.                  *)
(*                                                                         *)
(* The safety properties are not inductive: they depend on what a request  *)
(* or the job remembers from its load.  IInv adds that memory.             *)
(***************************************************************************)
EXTENDS HotlistLifecycle, TLAPS

-----------------------------------------------------------------------------
(* The inductive invariant.                                                *)

Listed == {"ACTIVE_UNCONFIRMED", "ACTIVE_CONFIRMED", "EXPIRED", "CLOSED"}

\* A row has one of the four statuses some writer produces, and belongs to a
\* complaint that has been decided; an id without a row is blank.
RowInv ==
    \A e \in Entries :
        \/ hotlist[e] = NoRow
        \/ /\ hotlist[e].status \in Listed
           /\ hotlist[e].complaint \in Complaints
           /\ complaint[hotlist[e].complaint] \in {"VERIFIED", "REJECTED"}

\* What a request remembers: the number it was given, rows that exist, and a
\* status to write that is never ACTIVE_UNCONFIRMED unless nothing is written; a PUT
\* has checked it against the status it saw.
RequestInv ==
    \A t \in Threads :
        /\ request[t].stage # "none" => request[t].id \in 1..issued
        /\ request[t].stage = "audit" => request[t].id \in committed
        /\ request[t].op \in {"approve", "reject"} => request[t].complaint \in Complaints
        /\ request[t].op \in {"update", "delete"} =>
              /\ request[t].entry \in Rows
              /\ request[t].seen \in Listed
              /\ request[t].to = request[t].seen \/ request[t].to \in Listed \ {"ACTIVE_UNCONFIRMED"}
        /\ request[t].op = "update" => is_legal_transition(request[t].seen, request[t].to)
        /\ At(t, "submit_fir", "commit") => request[t].entry \in Rows

\* What the job remembers: rows whose deadline was over when it read them.
JobInv ==
    job.running => \A e \in job.batch : e \in Rows /\ hotlist[e].fir_deadline < job.at

IInv ==
    /\ TypeOK
    /\ RowInv
    /\ RequestInv
    /\ JobInv
    /\ CooldownAfterDeadline
    /\ DecisionMatchesRows
    /\ NoAuditWithoutWrite

-----------------------------------------------------------------------------
(* Typing.                                                                 *)

\* An officer's request that committed: the set of numbers and the threads keep
\* their types.
LEMMA MutatedType ==
    ASSUME TypeOK, RequestInv, NEW t \in Threads, request[t].stage = "commit", Mutated(t)
    PROVE  /\ committed' \subseteq 1..MaxRequests
           /\ request' \in [Threads -> Request]
  <1>1. request[t].id \in 1..MaxRequests
    BY BoundAssumption DEF TypeOK, RequestInv
  <1>2. committed' \subseteq 1..MaxRequests
    BY <1>1 DEF TypeOK, Mutated
  <1>3. request' \in [Threads -> Request]
    BY DEF TypeOK, Mutated, Request
  <1> QED
    BY <1>2, <1>3

\* Starting a request keeps the types of the threads and of the counter.
LEMMA BeginType ==
    ASSUME TypeOK, NEW t \in Threads, NEW r \in Request, Begin(t, r)
    PROVE  /\ issued' \in 0..MaxRequests
           /\ request' \in [Threads -> Request]
  BY BoundAssumption DEF TypeOK, Begin, Request

\* The idle record is a request.
LEMMA IdleType == Idle \in Request
  BY DEF Idle, Request

\* TypeOK holds initially.
LEMMA InitType == Init => TypeOK
  BY IdleType, TimeAssumption, BoundAssumption
  DEF Init, TypeOK, NoRow, Row, JobIdle, ComplaintStatus, HotlistStatus

\* Every step keeps the types (RequestInv bounds the numbers, JobInv the rows).
LEMMA NextType == TypeOK /\ RequestInv /\ [Next]_vars => TypeOK'
  <1> SUFFICES ASSUME TypeOK, RequestInv, [Next]_vars PROVE TypeOK'
    OBVIOUS
  <1> USE TimeAssumption, BoundAssumption
  <1>1. CASE Tick
    BY <1>1 DEF Tick, TypeOK
  <1>2. ASSUME NEW c \in Complaints, create_complaint(c) PROVE TypeOK'
    BY <1>2 DEF create_complaint, TypeOK, ComplaintStatus
  <1>3. ASSUME NEW t \in Threads, NEW c \in Complaints, NEW d \in {"approve", "reject"},
               verify_load(t, c, d)
        PROVE  TypeOK'
    <2>1. [Idle EXCEPT !.op = d, !.stage = "commit", !.complaint = c] \in Request
      BY DEF Idle, Request
    <2> QED
      BY <1>3, <2>1, BeginType DEF verify_load, TypeOK
  <1>4. ASSUME NEW t \in Threads, NEW c \in Complaints, fir_load(t, c) PROVE TypeOK'
    <2>1. [Idle EXCEPT !.op = "submit_fir", !.stage = "find", !.complaint = c] \in Request
      BY DEF Idle, Request
    <2> QED
      BY <1>4, <2>1, BeginType DEF fir_load, TypeOK
  <1>5. ASSUME NEW t \in Threads, NEW e \in Entries, NEW to \in HotlistStatus,
               NEW fir \in BOOLEAN, update_load(t, e, to, fir)
        PROVE  TypeOK'
    <2>1. [Idle EXCEPT !.op = "update", !.stage = "commit", !.entry = e,
                       !.seen = hotlist[e].status, !.to = to, !.fir = fir] \in Request
      BY DEF Idle, Request, TypeOK, Row
    <2> QED
      BY <1>5, <2>1, BeginType DEF update_load, TypeOK
  <1>6. ASSUME NEW t \in Threads, NEW e \in Entries, delete_load(t, e) PROVE TypeOK'
    <2>1. [Idle EXCEPT !.op = "delete", !.stage = "commit", !.entry = e,
                       !.seen = hotlist[e].status, !.to = "CLOSED"] \in Request
      BY DEF Idle, Request, TypeOK, Row, HotlistStatus
    <2> QED
      BY <1>6, <2>1, BeginType DEF delete_load, TypeOK
  <1>7. ASSUME NEW t \in Threads, approve_commit(t) PROVE TypeOK'
    <2>1. request[t].stage = "commit" /\ request[t].complaint \in Complaints
      BY <1>7 DEF approve_commit, At, RequestInv
    <2>2. hotlist' \in [Entries -> Row]
      BY <1>7, <2>1 DEF approve_commit, TypeOK, Row, HotlistStatus
    <2>3. complaint' \in [Complaints -> ComplaintStatus \cup {"NONE"}]
      BY <1>7 DEF approve_commit, TypeOK, ComplaintStatus
    <2> QED
      BY <1>7, <2>1, <2>2, <2>3, MutatedType DEF approve_commit, TypeOK
  <1>8. ASSUME NEW t \in Threads, reject_commit(t) PROVE TypeOK'
    <2>1. request[t].stage = "commit"
      BY <1>8 DEF reject_commit, At
    <2> QED
      BY <1>8, <2>1, MutatedType DEF reject_commit, TypeOK, ComplaintStatus
  <1>9. ASSUME NEW t \in Threads, fir_find(t) PROVE TypeOK'
    <2>1. request' \in [Threads -> Request]
      BY <1>9, IdleType DEF fir_find, TypeOK, Request, Awaiting, Rows
    <2> QED
      BY <1>9, <2>1 DEF fir_find, TypeOK
  <1>10. ASSUME NEW t \in Threads, fir_commit(t) PROVE TypeOK'
    <2>1. hotlist' \in [Entries -> Row]
      BY <1>10 DEF fir_commit, TypeOK, Row
    <2> QED
      BY <1>10, <2>1, IdleType DEF fir_commit, TypeOK
  <1>11. ASSUME NEW t \in Threads, entry_commit(t) PROVE TypeOK'
    <2>1. request[t].stage = "commit"
      BY <1>11 DEF entry_commit, At
    <2>2. Flushed(hotlist[request[t].entry], request[t]) \in Row
      <3>1. request[t].op \in {"update", "delete"}
        BY <1>11 DEF entry_commit, At
      <3>2. /\ request[t].entry \in Entries
            /\ request[t].to \in HotlistStatus
            /\ request[t].fir \in BOOLEAN
        BY <3>1 DEF RequestInv, TypeOK, Request, Rows, Listed, HotlistStatus
      <3>3. hotlist[request[t].entry] \in Row
        BY <3>2 DEF TypeOK
      <3> QED
        BY <3>2, <3>3 DEF Flushed, Row
    <2>3. hotlist' \in [Entries -> Row]
      BY <1>11, <2>2 DEF entry_commit, TypeOK
    <2> QED
      BY <1>11, <2>1, <2>3, MutatedType DEF entry_commit, TypeOK
  <1>12. ASSUME NEW t \in Threads, write_audit_log(t) PROVE TypeOK'
    BY <1>12, IdleType DEF write_audit_log, TypeOK, RequestInv
  <1>13. CASE find_expired_entries
    BY <1>13 DEF find_expired_entries, TypeOK, Overdue, Rows
  <1>14. CASE expire_commit
    <2>1. \A e \in Entries : mark_expired(hotlist[e]) \in Row
      <3>1. job.at + CooldownTime \in Nat
        BY DEF TypeOK
      <3> QED
        BY <3>1 DEF TypeOK, mark_expired, Row, HotlistStatus
    <2> QED
      BY <1>14, <2>1 DEF expire_commit, TypeOK, JobIdle
  <1>15. ASSUME NEW t \in Threads, request_fails(t) PROVE TypeOK'
    BY <1>15, IdleType DEF request_fails, Fail, TypeOK
  <1>16. CASE job_fails
    BY <1>16 DEF job_fails, Fail, TypeOK, JobIdle
  <1>17. CASE crash
    BY <1>17, IdleType DEF crash, Fail, TypeOK, JobIdle
  <1>18. CASE UNCHANGED vars
    BY <1>18 DEF vars, TypeOK
  <1> QED
    BY <1>1, <1>2, <1>3, <1>4, <1>5, <1>6, <1>7, <1>8, <1>9, <1>10, <1>11, <1>12, <1>13,
       <1>14, <1>15, <1>16, <1>17, <1>18
    DEF Next, Serve, Continue

-----------------------------------------------------------------------------
(* The rest of the invariant, one step per action.                         *)

\* IInv holds initially.
LEMMA InitIInv == Init => IInv
  <1> SUFFICES ASSUME Init PROVE IInv
    OBVIOUS
  <1>1. RowInv /\ RequestInv /\ JobInv
    BY DEF Init, RowInv, RequestInv, JobInv, Idle, JobIdle, At
  <1>2. CooldownAfterDeadline /\ DecisionMatchesRows /\ NoAuditWithoutWrite
    BY DEF Init, CooldownAfterDeadline, DecisionMatchesRows, NoAuditWithoutWrite, Rows, NoRow
  <1> QED
    BY <1>1, <1>2, InitType DEF IInv

\* A blank id is not one of the rows, a row is.
LEMMA RowsAreListed ==
    ASSUME RowInv
    PROVE  Rows = {e \in Entries : hotlist[e].status \in Listed}
  BY DEF RowInv, Rows, NoRow, Listed

\* Loading a row (or a complaint) disturbs only what requests remember.
LEMMA BeginKeeps ==
    ASSUME IInv, TypeOK', NEW t \in Threads, NEW r \in Request, Begin(t, r),
           UNCHANGED <<now, complaint, hotlist, job, committed, audited>>,
           r.op \in {"approve", "reject"} => r.complaint \in Complaints,
           r.op \in {"update", "delete"} =>
              /\ r.entry \in Rows
              /\ r.seen \in Listed
              /\ r.to = r.seen \/ r.to \in Listed \ {"ACTIVE_UNCONFIRMED"},
           r.op = "update" => is_legal_transition(r.seen, r.to),
           r.stage \in {"find", "commit"},
           r.op = "submit_fir" => r.stage = "find"
    PROVE  IInv'
  <1>1. RequestInv'
    <2> SUFFICES ASSUME NEW u \in Threads
                 PROVE  /\ request'[u].stage # "none" => request'[u].id \in 1..issued'
                        /\ request'[u].stage = "audit" => request'[u].id \in committed
                        /\ request'[u].op \in {"approve", "reject"} => request'[u].complaint \in Complaints
                        /\ request'[u].op \in {"update", "delete"} =>
                              /\ request'[u].entry \in Rows
                              /\ request'[u].seen \in Listed
                              /\ request'[u].to = request'[u].seen
                                 \/ request'[u].to \in Listed \ {"ACTIVE_UNCONFIRMED"}
                        /\ request'[u].op = "update" =>
                              is_legal_transition(request'[u].seen, request'[u].to)
                        /\ (request'[u].op = "submit_fir" /\ request'[u].stage = "commit")
                               => request'[u].entry \in Rows
      BY DEF RequestInv, At, Rows
    <2>1. CASE u = t
      BY <2>1, BoundAssumption DEF Begin, IInv, TypeOK, Request
    <2>2. CASE u # t
      <3>1. request'[u] = request[u]
        BY <2>2 DEF Begin, IInv, TypeOK
      <3> QED
        BY <3>1 DEF Begin, IInv, TypeOK, RequestInv, At
    <2> QED
      BY <2>1, <2>2
  <1> QED
    BY <1>1 DEF IInv, RowInv, JobInv, CooldownAfterDeadline, DecisionMatchesRows,
                NoAuditWithoutWrite, Rows

\* A request that ends or reaches its audit stage disturbs no other request.
LEMMA RequestsKeep ==
    ASSUME IInv, TypeOK', NEW t \in Threads, Rows \subseteq Rows', issued' = issued,
           \/ request' = [request EXCEPT ![t] = Idle] /\ committed' = committed
           \/ Mutated(t) /\ request[t].stage = "commit"
    PROVE  RequestInv'
  <1> SUFFICES ASSUME NEW u \in Threads
               PROVE  /\ request'[u].stage # "none" => request'[u].id \in 1..issued'
                      /\ request'[u].stage = "audit" => request'[u].id \in committed'
                      /\ request'[u].op \in {"approve", "reject"} => request'[u].complaint \in Complaints
                      /\ request'[u].op \in {"update", "delete"} =>
                            /\ request'[u].entry \in Rows'
                            /\ request'[u].seen \in Listed
                            /\ request'[u].to = request'[u].seen
                               \/ request'[u].to \in Listed \ {"ACTIVE_UNCONFIRMED"}
                      /\ request'[u].op = "update" =>
                            is_legal_transition(request'[u].seen, request'[u].to)
                      /\ (request'[u].op = "submit_fir" /\ request'[u].stage = "commit")
                             => request'[u].entry \in Rows'
    BY DEF RequestInv, At
  <1>1. CASE u = t
    <2>1. CASE request' = [request EXCEPT ![t] = Idle]
      BY <1>1, <2>1 DEF IInv, TypeOK, Idle
    <2>2. CASE Mutated(t) /\ request[t].stage = "commit"
      <3>1. request[t] \in Request /\ request'[u] = [request[t] EXCEPT !.stage = "audit"]
        BY <1>1, <2>2 DEF Mutated, IInv, TypeOK
      <3>2. /\ request'[u].stage = "audit"
            /\ request'[u].id = request[t].id
            /\ request'[u].op = request[t].op
            /\ request'[u].complaint = request[t].complaint
            /\ request'[u].entry = request[t].entry
            /\ request'[u].seen = request[t].seen
            /\ request'[u].to = request[t].to
        BY <3>1 DEF Request
      <3> QED
        BY <2>2, <3>2 DEF Mutated, IInv, RequestInv
    <2> QED
      BY <2>1, <2>2
  <1>2. CASE u # t
    <2>1. request'[u] = request[u] /\ committed \subseteq committed'
      BY <1>2 DEF Mutated, IInv, TypeOK
    <2> QED
      BY <2>1 DEF IInv, RequestInv, At
  <1> QED
    BY <1>1, <1>2

\* The job's memory survives while rows stay and keep their deadlines.
LEMMA JobKeeps ==
    ASSUME IInv, Rows \subseteq Rows', job' = job,
           \A e \in Rows : hotlist'[e].fir_deadline = hotlist[e].fir_deadline
    PROVE  JobInv'
  BY DEF IInv, JobInv

\* approve_commit: the new row is listed for the complaint it verifies.
LEMMA ApproveKeeps ==
    ASSUME IInv, TypeOK', NEW t \in Threads, approve_commit(t)
    PROVE  IInv'
  <1> DEFINE c == request[t].complaint
  <1>1. c \in Complaints /\ request[t].stage = "commit"
    BY DEF approve_commit, At, IInv, RequestInv
  <1>2. PICK e \in Entries \ Rows :
          /\ complaint' = [complaint EXCEPT ![c] = "VERIFIED"]
          /\ hotlist' = [hotlist EXCEPT ![e] =
                          [status |-> "ACTIVE_UNCONFIRMED", complaint |-> c,
                           fir_deadline |-> now + FirDeadline,
                           cooldown_until |-> 0, fir_ref |-> FALSE]]
    BY DEF approve_commit
  <1>3. /\ hotlist'[e].status = "ACTIVE_UNCONFIRMED"
        /\ hotlist'[e].complaint = c
        /\ hotlist'[e].cooldown_until = 0
    BY <1>2 DEF IInv, TypeOK
  <1>4. \A f \in Entries : f # e => hotlist'[f] = hotlist[f]
    BY <1>2 DEF IInv, TypeOK
  <1>5. Rows' = Rows \cup {e}
    BY <1>3, <1>4, <1>2 DEF Rows
  <1>6. complaint'[c] = "VERIFIED" /\ \A d \in Complaints : d # c => complaint'[d] = complaint[d]
    BY <1>1, <1>2 DEF IInv, TypeOK
  <1>7. RowInv'
    BY <1>1, <1>3, <1>4, <1>6 DEF IInv, RowInv, Listed
  <1>8. RequestInv'
    BY <1>1, <1>5, RequestsKeep DEF approve_commit
  <1>9. JobInv'
    BY <1>2, <1>4, <1>5, JobKeeps DEF approve_commit
  <1>10. CooldownAfterDeadline'
    BY <1>3, <1>4 DEF IInv, CooldownAfterDeadline
  <1>11. DecisionMatchesRows'
    <2>1. \A d \in Complaints : complaint'[d] = "VERIFIED" =>
             \E f \in Rows' : hotlist'[f].complaint = d
      BY <1>2, <1>3, <1>4, <1>5, <1>6 DEF IInv, DecisionMatchesRows
    <2>2. \A f \in Rows' : complaint'[hotlist'[f].complaint] \in {"VERIFIED", "REJECTED"}
      BY <1>7, <1>5 DEF RowInv, Rows, NoRow
    <2> QED
      BY <2>1, <2>2 DEF DecisionMatchesRows
  <1>12. NoAuditWithoutWrite'
    BY DEF IInv, NoAuditWithoutWrite, approve_commit, Mutated
  <1> QED
    BY <1>7, <1>8, <1>9, <1>10, <1>11, <1>12 DEF IInv

\* reject_commit: the complaint may already have rows; they stay decided.
LEMMA RejectKeeps ==
    ASSUME IInv, TypeOK', NEW t \in Threads, reject_commit(t)
    PROVE  IInv'
  <1> DEFINE c == request[t].complaint
  <1>1. c \in Complaints /\ request[t].stage = "commit"
    BY DEF reject_commit, At, IInv, RequestInv
  <1>2. complaint'[c] = "REJECTED" /\ \A d \in Complaints : d # c => complaint'[d] = complaint[d]
    BY <1>1 DEF reject_commit, IInv, TypeOK
  <1>3. Rows' = Rows /\ hotlist' = hotlist
    BY DEF reject_commit, Rows
  <1>4. RowInv'
    BY <1>2, <1>3 DEF IInv, RowInv
  <1>5. RequestInv'
    BY <1>1, <1>3, RequestsKeep DEF reject_commit
  <1>6. JobInv' /\ CooldownAfterDeadline'
    BY <1>3 DEF IInv, JobInv, CooldownAfterDeadline, reject_commit
  <1>7. DecisionMatchesRows'
    BY <1>2, <1>3, <1>4 DEF IInv, DecisionMatchesRows, RowInv, Rows, NoRow
  <1>8. NoAuditWithoutWrite'
    BY DEF IInv, NoAuditWithoutWrite, reject_commit, Mutated
  <1> QED
    BY <1>4, <1>5, <1>6, <1>7, <1>8 DEF IInv

\* A writer of existing rows that leaves complaint, deadline and cooldown alone and
\* never writes ACTIVE_UNCONFIRMED keeps the row part of the invariant.
LEMMA RowsKeep ==
    ASSUME IInv, UNCHANGED complaint,
           \A e \in Entries :
              \/ hotlist'[e] = hotlist[e]
              \/ /\ e \in Rows
                 /\ hotlist'[e].complaint = hotlist[e].complaint
                 /\ hotlist'[e].fir_deadline = hotlist[e].fir_deadline
                 /\ hotlist'[e].cooldown_until = hotlist[e].cooldown_until
                 /\ \/ hotlist'[e].status = hotlist[e].status
                    \/ hotlist'[e].status \in Listed \ {"ACTIVE_UNCONFIRMED"}
    PROVE  /\ Rows' = Rows
           /\ RowInv'
           /\ CooldownAfterDeadline'
           /\ DecisionMatchesRows'
           /\ \A e \in Rows : hotlist'[e].fir_deadline = hotlist[e].fir_deadline
  <1>1. Rows = {e \in Entries : hotlist[e].status \in Listed}
    BY RowsAreListed DEF IInv
  <1>2. Rows' = Rows
    BY <1>1 DEF Rows, Listed
  <1>3. RowInv'
    <2> SUFFICES ASSUME NEW e \in Entries
                 PROVE  \/ hotlist'[e] = NoRow
                        \/ /\ hotlist'[e].status \in Listed
                           /\ hotlist'[e].complaint \in Complaints
                           /\ complaint[hotlist'[e].complaint] \in {"VERIFIED", "REJECTED"}
      BY DEF RowInv
    <2>1. CASE hotlist'[e] = hotlist[e]
      BY <2>1 DEF IInv, RowInv
    <2>2. CASE hotlist'[e] # hotlist[e]
      <3>1. hotlist[e].status \in Listed /\ hotlist[e] # NoRow
        BY <1>1, <2>2 DEF NoRow, Listed
      <3>2. hotlist'[e].status \in Listed
        BY <2>2, <3>1
      <3> QED
        BY <2>2, <3>1, <3>2 DEF IInv, RowInv
    <2> QED
      BY <2>1, <2>2
  <1>4. CooldownAfterDeadline'
    BY DEF IInv, CooldownAfterDeadline, Listed
  <1>5. \A e \in Entries : hotlist'[e].complaint = hotlist[e].complaint
    OBVIOUS
  <1>6. DecisionMatchesRows'
    <2>1. Rows \subseteq Entries
      BY DEF Rows
    <2> QED
      BY <1>2, <1>5, <2>1 DEF IInv, DecisionMatchesRows
  <1> QED
    BY <1>1, <1>2, <1>3, <1>4, <1>6 DEF Rows

\* entry_commit: the flush writes a settled status, or none.
LEMMA EntryKeeps ==
    ASSUME IInv, TypeOK', NEW t \in Threads, entry_commit(t)
    PROVE  IInv'
  <1> DEFINE f == request[t].entry
  <1>1. /\ request[t].stage = "commit" /\ f \in Rows /\ f \in Entries
        /\ request[t].to = request[t].seen \/ request[t].to \in Listed \ {"ACTIVE_UNCONFIRMED"}
    BY DEF entry_commit, At, IInv, RequestInv, Rows
  <1>2. /\ hotlist'[f] = Flushed(hotlist[f], request[t])
        /\ \A e \in Entries : e # f => hotlist'[e] = hotlist[e]
    BY <1>1 DEF entry_commit, IInv, TypeOK
  <1>3. hotlist[f] \in Row
    BY <1>1 DEF IInv, TypeOK
  <1>4. /\ hotlist'[f].complaint = hotlist[f].complaint
        /\ hotlist'[f].fir_deadline = hotlist[f].fir_deadline
        /\ hotlist'[f].cooldown_until = hotlist[f].cooldown_until
        /\ \/ hotlist'[f].status = hotlist[f].status
           \/ hotlist'[f].status \in Listed \ {"ACTIVE_UNCONFIRMED"}
    BY <1>1, <1>2, <1>3 DEF Flushed, Row
  <1>5. /\ Rows' = Rows /\ RowInv' /\ CooldownAfterDeadline' /\ DecisionMatchesRows'
        /\ \A e \in Rows : hotlist'[e].fir_deadline = hotlist[e].fir_deadline
    BY <1>1, <1>2, <1>4, RowsKeep DEF entry_commit
  <1>6. RequestInv'
    BY <1>1, <1>5, RequestsKeep DEF entry_commit
  <1>7. JobInv'
    BY <1>5, JobKeeps DEF entry_commit
  <1>8. NoAuditWithoutWrite'
    BY DEF IInv, NoAuditWithoutWrite, entry_commit, Mutated
  <1> QED
    BY <1>5, <1>6, <1>7, <1>8 DEF IInv

\* fir_commit: only the reference changes.
LEMMA FirKeeps ==
    ASSUME IInv, TypeOK', NEW t \in Threads, fir_commit(t)
    PROVE  IInv'
  <1> DEFINE f == request[t].entry
  <1>1. f \in Rows /\ f \in Entries
    BY DEF fir_commit, IInv, RequestInv, Rows
  <1>2. /\ hotlist'[f] = [hotlist[f] EXCEPT !.fir_ref = TRUE]
        /\ \A e \in Entries : e # f => hotlist'[e] = hotlist[e]
    BY <1>1 DEF fir_commit, IInv, TypeOK
  <1>3. hotlist[f] \in Row
    BY <1>1 DEF IInv, TypeOK
  <1>4. /\ hotlist'[f].complaint = hotlist[f].complaint
        /\ hotlist'[f].fir_deadline = hotlist[f].fir_deadline
        /\ hotlist'[f].cooldown_until = hotlist[f].cooldown_until
        /\ hotlist'[f].status = hotlist[f].status
    BY <1>2, <1>3 DEF Row
  <1>5. /\ Rows' = Rows /\ RowInv' /\ CooldownAfterDeadline' /\ DecisionMatchesRows'
        /\ \A e \in Rows : hotlist'[e].fir_deadline = hotlist[e].fir_deadline
    BY <1>1, <1>2, <1>4, RowsKeep DEF fir_commit
  <1>6. RequestInv'
    BY <1>5, RequestsKeep DEF fir_commit
  <1>7. JobInv'
    BY <1>5, JobKeeps DEF fir_commit
  <1>8. NoAuditWithoutWrite'
    BY DEF IInv, NoAuditWithoutWrite, fir_commit
  <1> QED
    BY <1>5, <1>6, <1>7, <1>8 DEF IInv

\* expire_commit: JobInv says the deadline of every row of the batch was over.
LEMMA ExpireKeeps ==
    ASSUME IInv, TypeOK', expire_commit
    PROVE  IInv'
  <1>1. /\ job.at \in Nat /\ \A e \in Entries : hotlist[e] \in Row
        /\ CooldownTime \in Nat
    BY TimeAssumption DEF IInv, TypeOK
  <1>2. \A e \in Entries : e \notin job.batch => hotlist'[e] = hotlist[e]
    BY DEF expire_commit
  <1>3. \A e \in job.batch :
          /\ e \in Rows /\ e \in Entries
          /\ hotlist[e].fir_deadline < job.at
    BY DEF expire_commit, IInv, JobInv, Rows
  <1>4. \A e \in job.batch :
          /\ hotlist'[e].status = "EXPIRED"
          /\ hotlist'[e].complaint = hotlist[e].complaint
          /\ hotlist'[e].fir_deadline = hotlist[e].fir_deadline
          /\ hotlist'[e].cooldown_until = job.at + CooldownTime
    BY <1>1, <1>3 DEF expire_commit, mark_expired, Row
  <1>5. Rows' = Rows
    BY <1>2, <1>3, <1>4 DEF Rows
  <1>6. RowInv'
    <2> SUFFICES ASSUME NEW e \in Entries
                 PROVE  \/ hotlist'[e] = NoRow
                        \/ /\ hotlist'[e].status \in Listed
                           /\ hotlist'[e].complaint \in Complaints
                           /\ complaint'[hotlist'[e].complaint] \in {"VERIFIED", "REJECTED"}
      BY DEF RowInv
    <2>1. CASE e \in job.batch
      <3>1. hotlist[e] # NoRow
        BY <1>3, <2>1 DEF Rows, NoRow
      <3> QED
        BY <1>4, <2>1, <3>1 DEF IInv, RowInv, Listed, expire_commit
    <2>2. CASE e \notin job.batch
      BY <1>2, <2>2 DEF IInv, RowInv, expire_commit
    <2> QED
      BY <2>1, <2>2
  <1>7. RequestInv'
    BY <1>5 DEF IInv, RequestInv, expire_commit, At
  <1>8. JobInv'
    BY DEF JobInv, expire_commit, JobIdle
  <1>9. CooldownAfterDeadline'
    <2> SUFFICES ASSUME NEW e \in Entries, hotlist'[e].cooldown_until # 0
                 PROVE  /\ hotlist'[e].cooldown_until > hotlist'[e].fir_deadline + CooldownTime
                        /\ hotlist'[e].status \notin {"NONE", "ACTIVE_UNCONFIRMED"}
      BY DEF CooldownAfterDeadline
    <2>1. CASE e \in job.batch
      <3>1. hotlist[e].fir_deadline \in Nat
        BY <1>1 DEF Row
      <3> QED
        BY <1>1, <1>3, <1>4, <2>1, <3>1
    <2>2. CASE e \notin job.batch
      BY <1>2, <2>2 DEF IInv, CooldownAfterDeadline
    <2> QED
      BY <2>1, <2>2
  <1>10. DecisionMatchesRows'
    <2>1. \A e \in Entries : hotlist'[e].complaint = hotlist[e].complaint
      BY <1>2, <1>4
    <2> QED
      BY <1>5, <2>1 DEF IInv, DecisionMatchesRows, Rows, expire_commit
  <1>11. NoAuditWithoutWrite'
    BY DEF IInv, NoAuditWithoutWrite, expire_commit
  <1> QED
    BY <1>6, <1>7, <1>8, <1>9, <1>10, <1>11 DEF IInv

\* The invariant is inductive.
LEMMA NextIInv == IInv /\ [Next]_vars => IInv'
  <1> SUFFICES ASSUME IInv, [Next]_vars PROVE IInv'
    OBVIOUS
  <1>0. TypeOK'
    BY NextType DEF IInv
  <1>1. CASE Tick
    BY <1>0, <1>1 DEF Tick, IInv, RowInv, RequestInv, JobInv, At, CooldownAfterDeadline,
                      DecisionMatchesRows, NoAuditWithoutWrite, Rows
  <1>2. ASSUME NEW c \in Complaints, create_complaint(c) PROVE IInv'
    <2>1. /\ complaint[c] = "NONE" /\ complaint'[c] = "PENDING_VERIFICATION"
          /\ \A d \in Complaints : d # c => complaint'[d] = complaint[d]
      BY <1>2 DEF create_complaint, IInv, TypeOK
    <2>2. RowInv'
      BY <1>2, <2>1 DEF create_complaint, IInv, RowInv
    <2>3. DecisionMatchesRows'
      BY <1>2, <2>1, <2>2 DEF create_complaint, IInv, DecisionMatchesRows, RowInv, Rows, NoRow
    <2> QED
      BY <1>0, <1>2, <2>2, <2>3 DEF create_complaint, IInv, RequestInv, JobInv, At,
         CooldownAfterDeadline, NoAuditWithoutWrite, Rows
  <1>3. ASSUME NEW t \in Threads, NEW c \in Complaints, NEW d \in {"approve", "reject"},
               verify_load(t, c, d)
        PROVE  IInv'
    <2> DEFINE r == [Idle EXCEPT !.op = d, !.stage = "commit", !.complaint = c]
    <2>1. r \in Request /\ r.op = d /\ r.stage = "commit" /\ r.complaint = c
      BY DEF Idle, Request
    <2>2. Begin(t, r)
      BY <1>3 DEF verify_load
    <2> HIDE DEF r
    <2> QED
      BY <1>0, <1>3, <2>1, <2>2, BeginKeeps DEF verify_load
  <1>4. ASSUME NEW t \in Threads, NEW c \in Complaints, fir_load(t, c) PROVE IInv'
    <2> DEFINE r == [Idle EXCEPT !.op = "submit_fir", !.stage = "find", !.complaint = c]
    <2>1. r \in Request /\ r.op = "submit_fir" /\ r.stage = "find"
      BY DEF Idle, Request
    <2>2. Begin(t, r)
      BY <1>4 DEF fir_load
    <2> HIDE DEF r
    <2> QED
      BY <1>0, <1>4, <2>1, <2>2, BeginKeeps DEF fir_load
  <1>5. ASSUME NEW t \in Threads, NEW e \in Entries, NEW to \in HotlistStatus,
               NEW fir \in BOOLEAN, update_load(t, e, to, fir)
        PROVE  IInv'
    <2> DEFINE r == [Idle EXCEPT !.op = "update", !.stage = "commit", !.entry = e,
                                 !.seen = hotlist[e].status, !.to = to, !.fir = fir]
    <2>1. /\ r \in Request /\ r.op = "update" /\ r.stage = "commit" /\ r.entry = e
          /\ r.seen = hotlist[e].status /\ r.to = to
      BY DEF Idle, Request, IInv, TypeOK, Row
    <2>2. Begin(t, r)
      BY <1>5 DEF update_load
    <2>3. hotlist[e].status \in Listed
      BY <1>5, RowsAreListed DEF update_load, IInv
    <2>4. to = hotlist[e].status \/ to \in Listed \ {"ACTIVE_UNCONFIRMED"}
      BY <1>5, <2>3 DEF update_load, is_legal_transition, LegalTransitions, Listed, HotlistStatus
    <2>5. e \in Rows
      BY <1>5 DEF update_load
    <2> HIDE DEF r
    <2> QED
      BY <1>0, <1>5, <2>1, <2>2, <2>3, <2>4, <2>5, BeginKeeps DEF update_load
  <1>6. ASSUME NEW t \in Threads, NEW e \in Entries, delete_load(t, e) PROVE IInv'
    <2> DEFINE r == [Idle EXCEPT !.op = "delete", !.stage = "commit", !.entry = e,
                                 !.seen = hotlist[e].status, !.to = "CLOSED"]
    <2>1. /\ r \in Request /\ r.op = "delete" /\ r.stage = "commit" /\ r.entry = e
          /\ r.seen = hotlist[e].status /\ r.to = "CLOSED"
      BY DEF Idle, Request, IInv, TypeOK, Row, HotlistStatus
    <2>2. Begin(t, r)
      BY <1>6 DEF delete_load
    <2>3. hotlist[e].status \in Listed /\ e \in Rows
      BY <1>6, RowsAreListed DEF delete_load, IInv
    <2>4. "CLOSED" \in Listed \ {"ACTIVE_UNCONFIRMED"}
      BY DEF Listed
    <2> HIDE DEF r
    <2> QED
      BY <1>0, <1>6, <2>1, <2>2, <2>3, <2>4, BeginKeeps DEF delete_load
  <1>7. ASSUME NEW t \in Threads, approve_commit(t) PROVE IInv'
    BY <1>0, <1>7, ApproveKeeps
  <1>8. ASSUME NEW t \in Threads, reject_commit(t) PROVE IInv'
    BY <1>0, <1>8, RejectKeeps
  <1>9. ASSUME NEW t \in Threads, fir_find(t) PROVE IInv'
    <2>1. RequestInv'
      <3>1. CASE request' = [request EXCEPT ![t] = Idle]
        BY <1>0, <1>9, <3>1, RequestsKeep DEF fir_find, Rows
      <3>2. ASSUME NEW e \in Awaiting(request[t].complaint),
                   request' = [request EXCEPT ![t].stage = "commit", ![t].entry = e]
            PROVE  RequestInv'
        <4>1. e \in Rows
          BY DEF Awaiting
        <4>2. request[t].op = "submit_fir" /\ request[t].stage = "find" /\ request[t] \in Request
          BY <1>9 DEF fir_find, At, IInv, TypeOK
        <4>3. /\ request'[t].op = "submit_fir" /\ request'[t].stage = "commit"
              /\ request'[t].entry = e /\ request'[t].id = request[t].id
          BY <3>2, <4>2 DEF IInv, TypeOK, Request
        <4>4. \A u \in Threads : u # t => request'[u] = request[u]
          BY <3>2 DEF IInv, TypeOK
        <4> QED
          BY <1>9, <4>1, <4>2, <4>3, <4>4 DEF fir_find, IInv, RequestInv, At, Rows
      <3> QED
        BY <1>9, <3>1, <3>2 DEF fir_find
    <2> QED
      BY <1>0, <1>9, <2>1 DEF fir_find, IInv, RowInv, JobInv, CooldownAfterDeadline,
         DecisionMatchesRows, NoAuditWithoutWrite, Rows
  <1>10. ASSUME NEW t \in Threads, fir_commit(t) PROVE IInv'
    BY <1>0, <1>10, FirKeeps
  <1>11. ASSUME NEW t \in Threads, entry_commit(t) PROVE IInv'
    BY <1>0, <1>11, EntryKeeps
  <1>12. ASSUME NEW t \in Threads, write_audit_log(t) PROVE IInv'
    <2>1. RequestInv'
      BY <1>0, <1>12, RequestsKeep DEF write_audit_log, Rows
    <2>2. NoAuditWithoutWrite'
      BY <1>12 DEF write_audit_log, IInv, RequestInv, NoAuditWithoutWrite
    <2> QED
      BY <1>0, <1>12, <2>1, <2>2 DEF write_audit_log, IInv, RowInv, JobInv,
         CooldownAfterDeadline, DecisionMatchesRows, Rows
  <1>13. CASE find_expired_entries
    <2>1. JobInv'
      BY <1>13 DEF find_expired_entries, JobInv, Overdue, Rows
    <2> QED
      BY <1>0, <1>13, <2>1 DEF find_expired_entries, IInv, RowInv, RequestInv, At,
         CooldownAfterDeadline, DecisionMatchesRows, NoAuditWithoutWrite, Rows
  <1>14. CASE expire_commit
    BY <1>0, <1>14, ExpireKeeps
  <1>15. ASSUME NEW t \in Threads, request_fails(t) PROVE IInv'
    <2>1. RequestInv'
      BY <1>0, <1>15, RequestsKeep DEF request_fails, Rows
    <2> QED
      BY <1>0, <1>15, <2>1 DEF request_fails, IInv, RowInv, JobInv, CooldownAfterDeadline,
         DecisionMatchesRows, NoAuditWithoutWrite, Rows
  <1>16. CASE job_fails
    BY <1>0, <1>16 DEF job_fails, JobIdle, IInv, RowInv, RequestInv, JobInv, At,
       CooldownAfterDeadline, DecisionMatchesRows, NoAuditWithoutWrite, Rows
  <1>17. CASE crash
    <2>1. RequestInv' /\ JobInv'
      BY <1>17 DEF crash, JobIdle, Idle, RequestInv, JobInv, At
    <2> QED
      BY <1>0, <1>17, <2>1 DEF crash, IInv, RowInv, CooldownAfterDeadline,
         DecisionMatchesRows, NoAuditWithoutWrite, Rows
  <1>18. CASE UNCHANGED vars
    BY <1>0, <1>18 DEF vars, IInv, RowInv, RequestInv, JobInv, At, CooldownAfterDeadline,
       DecisionMatchesRows, NoAuditWithoutWrite, Rows
  <1> QED
    BY <1>1, <1>2, <1>3, <1>4, <1>5, <1>6, <1>7, <1>8, <1>9, <1>10, <1>11, <1>12, <1>13,
       <1>14, <1>15, <1>16, <1>17, <1>18
    DEF Next, Serve, Continue

\* IInv holds in every state of every behaviour.
LEMMA Invariance == Spec => []IInv
  BY InitIInv, NextIInv, PTL DEF Spec

-----------------------------------------------------------------------------
(* The theorems.                                                           *)

\* The tables, requests and logs keep their types.
THEOREM TypeCorrect == Spec => []TypeOK
  <1>1. IInv => TypeOK
    BY DEF IInv
  <1> QED
    BY <1>1, Invariance, PTL

\* A verified complaint always has a row and a row always a decided complaint.
THEOREM DecisionsMatchRows == Spec => []DecisionMatchesRows
  <1>1. IInv => DecisionMatchesRows
    BY DEF IInv
  <1> QED
    BY <1>1, Invariance, PTL

\* audit_logs never names a mutation that is not in the database.
THEOREM AuditNeverRunsAhead == Spec => []NoAuditWithoutWrite
  <1>1. IInv => NoAuditWithoutWrite
    BY DEF IInv
  <1> QED
    BY <1>1, Invariance, PTL

-----------------------------------------------------------------------------
(* The steps that change a status, and what they promise.                  *)

\* A step that changes a row's status is one of three, and the status it writes is
\* never ACTIVE_UNCONFIRMED unless the id had no row.
LEMMA StatusSteps ==
    ASSUME IInv, [Next]_vars
    PROVE  \/ UNCHANGED StatusOf
           \/ \E t \in Threads : approve_commit(t)
           \/ \E t \in Threads : entry_commit(t)
           \/ expire_commit
  <1>1. ASSUME NEW t \in Threads, fir_commit(t) PROVE UNCHANGED StatusOf
    <2>1. request[t].entry \in Entries
      BY <1>1 DEF fir_commit, IInv, RequestInv, Rows
    <2>2. \A e \in Entries : hotlist'[e].status = hotlist[e].status
      BY <1>1, <2>1 DEF fir_commit, IInv, TypeOK, Row
    <2> QED
      BY <2>2 DEF StatusOf
  <1>2. hotlist' = hotlist => UNCHANGED StatusOf
    BY DEF StatusOf
  <1> QED
    BY <1>1, <1>2 DEF Next, Serve, Continue, vars, Tick, create_complaint, verify_load, fir_load,
       update_load, delete_load, reject_commit, fir_find, write_audit_log,
       find_expired_entries, request_fails, job_fails, crash

\* What entry_commit does to the statuses.
LEMMA EntryStatus ==
    ASSUME IInv, NEW t \in Threads, entry_commit(t)
    PROVE  /\ request[t].entry \in Rows
           /\ \A e \in Entries : e # request[t].entry => hotlist'[e].status = hotlist[e].status
           /\ hotlist'[request[t].entry].status =
                 IF request[t].to = request[t].seen THEN hotlist[request[t].entry].status
                                                    ELSE request[t].to
           /\ request[t].to # request[t].seen => request[t].to \in Listed \ {"ACTIVE_UNCONFIRMED"}
  <1>1. request[t].entry \in Rows /\ request[t].entry \in Entries
    BY DEF entry_commit, At, IInv, RequestInv, Rows
  <1>2. hotlist[request[t].entry] \in Row
    BY <1>1 DEF IInv, TypeOK
  <1>3. /\ hotlist'[request[t].entry] = Flushed(hotlist[request[t].entry], request[t])
        /\ \A e \in Entries : e # request[t].entry => hotlist'[e] = hotlist[e]
    BY <1>1 DEF entry_commit, IInv, TypeOK
  <1>4. hotlist'[request[t].entry].status =
          IF request[t].to = request[t].seen THEN hotlist[request[t].entry].status
                                             ELSE request[t].to
    BY <1>2, <1>3 DEF Flushed, Row
  <1>5. request[t].to # request[t].seen => request[t].to \in Listed \ {"ACTIVE_UNCONFIRMED"}
    BY DEF entry_commit, At, IInv, RequestInv
  <1> QED
    BY <1>1, <1>3, <1>4, <1>5

\* Every step of the detailed specification is a step of the promise or a stutter.
LEMMA StepRefines == IInv /\ [Next]_vars => [Promise!Next]_StatusOf
  <1> SUFFICES ASSUME IInv, [Next]_vars, StatusOf' # StatusOf PROVE Promise!Next
    OBVIOUS
  <1>1. \A e \in Entries : StatusOf[e] = hotlist[e].status /\ StatusOf'[e] = hotlist'[e].status
    BY DEF StatusOf
  <1>2. Rows = {e \in Entries : hotlist[e].status \in Listed}
    BY RowsAreListed DEF IInv
  <1>3. ASSUME NEW t \in Threads, approve_commit(t) PROVE Promise!Next
    <2>1. PICK e \in Entries \ Rows :
            hotlist' = [hotlist EXCEPT ![e] =
                          [status |-> "ACTIVE_UNCONFIRMED", complaint |-> request[t].complaint,
                           fir_deadline |-> now + FirDeadline,
                           cooldown_until |-> 0, fir_ref |-> FALSE]]
      BY <1>3 DEF approve_commit
    <2>2. /\ hotlist'[e].status = "ACTIVE_UNCONFIRMED"
          /\ \A f \in Entries : f # e => hotlist'[f] = hotlist[f]
      BY <2>1 DEF IInv, TypeOK
    <2>3. StatusOf' = [StatusOf EXCEPT ![e] = "ACTIVE_UNCONFIRMED"]
      BY <2>2 DEF StatusOf
    <2>4. StatusOf[e] = "NONE"
      BY <1>1, <2>1 DEF Rows
    <2> QED
      BY <2>3, <2>4 DEF Promise!Next, Promise!List
  <1>4. ASSUME NEW t \in Threads, entry_commit(t) PROVE Promise!Next
    <2> DEFINE f == request[t].entry
               s == request[t].to
    <2>1. /\ f \in Rows /\ f \in Entries
          /\ \A e \in Entries : e # f => hotlist'[e].status = hotlist[e].status
          /\ hotlist'[f].status = s
          /\ s \in Listed \ {"ACTIVE_UNCONFIRMED"}
      <3>1. CASE request[t].to = request[t].seen
        <4>1. \A e \in Entries : hotlist'[e].status = hotlist[e].status
          BY <1>4, <3>1, EntryStatus
        <4> QED
          BY <4>1 DEF StatusOf
      <3>2. CASE request[t].to # request[t].seen
        BY <1>4, <3>2, EntryStatus DEF Rows
      <3> QED
        BY <3>1, <3>2
    <2>2. s \in Promise!Settled /\ hotlist[f].status \in Promise!Settled \cup {"ACTIVE_UNCONFIRMED"}
      BY <1>2, <2>1 DEF Promise!Settled, Listed
    <2>3. Promise!Settle({f}, s)
      BY <1>1, <2>1, <2>2 DEF Promise!Settle, StatusOf
    <2> QED
      BY <2>1, <2>2, <2>3 DEF Promise!Next
  <1>5. CASE expire_commit
    <2>1. job.batch \in SUBSET Entries /\ \A e \in job.batch : e \in Rows
      BY <1>5 DEF expire_commit, IInv, TypeOK, JobInv
    <2>2. \A e \in Entries : hotlist'[e].status = IF e \in job.batch THEN "EXPIRED"
                                                                     ELSE hotlist[e].status
      BY <1>5 DEF expire_commit, mark_expired, IInv, TypeOK, Row
    <2>3. Promise!Settle(job.batch, "EXPIRED")
      BY <1>1, <1>2, <2>1, <2>2 DEF Promise!Settle, Promise!Settled, StatusOf, Listed
    <2> QED
      BY <2>1, <2>3 DEF Promise!Next, Promise!Settled
  <1> QED
    BY <1>3, <1>4, <1>5, StatusSteps

\* The lifecycle implements HotlistPromise: a row waits for its FIR once, and no
\* overlap of requests, job runs and failures brings the wait back.
THEOREM PromiseKept == Spec => ImplementsPromise
  <1>1. Init => Promise!Init
    BY DEF Init, Promise!Init, StatusOf, NoRow
  <1> QED
    BY <1>1, StepRefines, Invariance, PTL DEF Spec, ImplementsPromise, Promise!Spec

\* What the promise lets happen to the statuses is what the readers reckon with.
LEMMA PromiseWithinView ==
    ASSUME IInv, [Promise!Next]_StatusOf
    PROVE  [View!Next]_ViewOf
  <1> SUFFICES ASSUME ViewOf' # ViewOf PROVE View!Next
    OBVIOUS
  <1> DEFINE Seen(s) == CASE s = "NONE" -> "NONE"
                          [] s \in {"ACTIVE_UNCONFIRMED", "ACTIVE_CONFIRMED"} -> "ACTIVE"
                          [] OTHER -> "INACTIVE"
  <1>1. /\ ViewOf = [e \in Entries |-> Seen(StatusOf[e])]
        /\ ViewOf' = [e \in Entries |-> Seen(StatusOf'[e])]
    BY DEF ViewOf, StatusOf
  <1>2. Promise!Next
    BY <1>1
  <1>3. ASSUME NEW e \in Entries, Promise!List(e) PROVE View!Next
    <2>1. /\ StatusOf[e] = "NONE"
          /\ StatusOf'[e] = "ACTIVE_UNCONFIRMED"
          /\ \A f \in Entries : f # e => StatusOf'[f] = StatusOf[f]
      BY <1>3 DEF Promise!List, StatusOf
    <2>2. ViewOf[e] = "NONE" /\ ViewOf' = [ViewOf EXCEPT ![e] = "ACTIVE"]
      BY <1>1, <2>1
    <2> QED
      BY <2>2 DEF View!Next, View!Insert
  <1>4. ASSUME NEW batch \in SUBSET Entries, NEW s \in Promise!Settled, Promise!Settle(batch, s)
        PROVE  View!Next
    <2> DEFINE changed == {e \in batch : ViewOf[e] # Seen(s)}
    <2>1. /\ \A e \in batch : StatusOf[e] \in Promise!Settled \cup {"ACTIVE_UNCONFIRMED"}
          /\ \A e \in Entries : StatusOf'[e] = IF e \in batch THEN s ELSE StatusOf[e]
      BY <1>4 DEF Promise!Settle
    <2>2. Seen(s) \in {"ACTIVE", "INACTIVE"}
      BY DEF Promise!Settled
    <2>3. \A e \in changed : ViewOf[e] \notin {"NONE", Seen(s)}
      BY <1>1, <2>1 DEF Promise!Settled
    <2>4. ViewOf' = [e \in Entries |-> IF e \in changed THEN Seen(s) ELSE ViewOf[e]]
      BY <1>1, <2>1
    <2>5. changed \in SUBSET Entries /\ changed # {}
      <3>1. changed = {} => ViewOf' = ViewOf
        BY <1>1, <2>4
      <3> QED
        BY <3>1
    <2>6. View!Set(changed, Seen(s))
      BY <2>3, <2>4, <2>5 DEF View!Set
    <2> HIDE DEF changed
    <2> QED
      BY <2>2, <2>5, <2>6 DEF View!Next
  <1> QED
    BY <1>2, <1>3, <1>4 DEF Promise!Next

\* The surroundings that SightingIngest assumes are the ones the lifecycle provides:
\* rows are inserted once, and later commits only move them in and out of the matches.
THEOREM ViewProvided == Spec => ProvidesView
  <1>1. Init => View!Init
    BY DEF Init, View!Init, ViewOf, NoRow
  <1>2. IInv /\ [Next]_vars => [View!Next]_ViewOf
    BY StepRefines, PromiseWithinView
  <1> QED
    BY <1>1, <1>2, Invariance, PTL DEF Spec, ProvidesView, View!Spec

\* An illegal change of status has one of the two excuses.
LEMMA StepExcused ==
    ASSUME IInv, [Next]_vars, NEW e \in Rows
    PROVE  is_legal_transition(hotlist[e].status, hotlist'[e].status) \/ Excused(e)
  <1>1. e \in Entries /\ hotlist[e].status \in Listed
    BY RowsAreListed DEF IInv, Rows
  <1>2. CASE UNCHANGED StatusOf
    <2>1. hotlist'[e].status = hotlist[e].status
      BY <1>1, <1>2 DEF StatusOf
    <2> QED
      BY <2>1 DEF is_legal_transition
  <1>3. ASSUME NEW t \in Threads, approve_commit(t)
        PROVE  hotlist'[e].status = hotlist[e].status
    BY <1>1, <1>3 DEF approve_commit, IInv, TypeOK
  <1>4. ASSUME NEW t \in Threads, entry_commit(t)
        PROVE  is_legal_transition(hotlist[e].status, hotlist'[e].status) \/ Excused(e)
    <2>1. CASE hotlist'[e].status = hotlist[e].status
      BY <2>1 DEF is_legal_transition
    <2>2. CASE hotlist'[e].status # hotlist[e].status
      <3>1. request[t].entry = e /\ hotlist'[e].status = request[t].to
        BY <1>1, <1>4, <2>2, EntryStatus
      <3>2. request[t].op = "delete" \/ is_legal_transition(request[t].seen, request[t].to)
        BY <1>4 DEF entry_commit, At, IInv, RequestInv
      <3> QED
        BY <1>4, <3>1, <3>2 DEF Excused
    <2> QED
      BY <2>1, <2>2
  <1>5. CASE expire_commit
    <2>1. CASE e \in job.batch /\ hotlist[e].status = "ACTIVE_UNCONFIRMED"
      <3>1. hotlist'[e].status = "EXPIRED"
        BY <1>1, <1>5, <2>1 DEF expire_commit, mark_expired, IInv, TypeOK, Row
      <3> QED
        BY <2>1, <3>1 DEF is_legal_transition, LegalTransitions, HotlistStatus
    <2>2. CASE e \in job.batch /\ hotlist[e].status # "ACTIVE_UNCONFIRMED"
      BY <1>5, <2>2 DEF Excused
    <2>3. CASE e \notin job.batch
      BY <1>1, <1>5, <2>3 DEF expire_commit, is_legal_transition
    <2> QED
      BY <2>1, <2>2, <2>3
  <1>6. hotlist'[e].status = hotlist[e].status
           => is_legal_transition(hotlist[e].status, hotlist'[e].status)
    BY DEF is_legal_transition
  <1> QED
    BY <1>2, <1>3, <1>4, <1>5, <1>6, StatusSteps

\* The state machine of the documents is broken by DELETE and by stale loads only.
THEOREM OnlyStaleWritersBreakTheMachine == Spec => IllegalOnlyWhenStale
  <1> DEFINE A == \A e \in Rows :
                    is_legal_transition(hotlist[e].status, hotlist'[e].status) \/ Excused(e)
  <1>1. IInv /\ [Next]_vars => [A]_vars
    BY StepExcused
  <1> QED
    BY <1>1, Invariance, PTL DEF Spec, IllegalOnlyWhenStale

-----------------------------------------------------------------------------
(* The expiry job overlooks nothing, and only failures lose audit rows.    *)

\* The job read the table at some time before now.
CompleteInv == job.at <= now /\ BatchComplete

\* A row that waits after a step which is neither an approval nor a commit of the job
\* waited before it, with the same deadline.
LEMMA WaitingStays ==
    ASSUME IInv, [Next]_vars, ~expire_commit, \A t \in Threads : ~approve_commit(t),
           NEW e \in Entries, hotlist'[e].status = "ACTIVE_UNCONFIRMED"
    PROVE  /\ hotlist[e].status = "ACTIVE_UNCONFIRMED"
           /\ hotlist'[e].fir_deadline = hotlist[e].fir_deadline
  <1>1. ASSUME NEW t \in Threads, entry_commit(t)
        PROVE  /\ hotlist[e].status = "ACTIVE_UNCONFIRMED"
               /\ hotlist'[e].fir_deadline = hotlist[e].fir_deadline
    <2>1. hotlist[e].status = "ACTIVE_UNCONFIRMED"
      BY <1>1, EntryStatus
    <2>2. request[t].entry \in Entries /\ hotlist[request[t].entry] \in Row
      BY <1>1, EntryStatus DEF Rows, IInv, TypeOK
    <2>3. hotlist'[e].fir_deadline = hotlist[e].fir_deadline
      BY <1>1, <2>2 DEF entry_commit, Flushed, IInv, TypeOK, Row
    <2> QED
      BY <2>1, <2>3
  <1>2. ASSUME NEW t \in Threads, fir_commit(t)
        PROVE  /\ hotlist[e].status = "ACTIVE_UNCONFIRMED"
               /\ hotlist'[e].fir_deadline = hotlist[e].fir_deadline
    BY <1>2 DEF fir_commit, IInv, TypeOK, Row
  <1>3. CASE hotlist' = hotlist
    BY <1>3
  <1> QED
    BY <1>1, <1>2, <1>3 DEF Next, Serve, Continue, vars, Tick, create_complaint, verify_load,
       fir_load, update_load, delete_load, reject_commit, fir_find, write_audit_log,
       find_expired_entries, request_fails, job_fails, crash

\* What a step does to the clock and to the job's memory.
LEMMA JobSteps ==
    ASSUME IInv, [Next]_vars
    PROVE  /\ now' \in Nat /\ now' >= now
           /\ job' = job \/ job' = JobIdle \/ find_expired_entries
  <1>1. now \in Nat
    BY TimeAssumption DEF IInv, TypeOK
  <1>2. now' = now \/ now' = now + 1
    BY DEF Next, Serve, Continue, vars, Tick, create_complaint, verify_load, fir_load, update_load,
       delete_load, approve_commit, reject_commit, fir_find, fir_commit, entry_commit,
       write_audit_log, find_expired_entries, expire_commit, request_fails, job_fails, crash
  <1>3. job' = job \/ job' = JobIdle \/ find_expired_entries
    BY DEF Next, Serve, Continue, vars, Tick, create_complaint, verify_load, fir_load, update_load,
       delete_load, approve_commit, reject_commit, fir_find, fir_commit, entry_commit,
       write_audit_log, expire_commit, request_fails, job_fails, crash
  <1> QED
    BY <1>1, <1>2, <1>3

\* Every step keeps the batch complete: rows that begin to wait later have later deadlines.
LEMMA NextComplete == IInv /\ CompleteInv /\ [Next]_vars => CompleteInv'
  <1> SUFFICES ASSUME IInv, CompleteInv, [Next]_vars PROVE CompleteInv'
    OBVIOUS
  <1> USE TimeAssumption
  <1>1. job.at \in Nat /\ now \in Nat
    BY DEF IInv, TypeOK
  <1>2. CASE job' = JobIdle
    BY <1>2, JobSteps DEF CompleteInv, BatchComplete, JobIdle
  <1>3. CASE find_expired_entries
    <2>1. ASSUME NEW e \in Entries \ job'.batch, hotlist'[e].status = "ACTIVE_UNCONFIRMED"
          PROVE  hotlist'[e].fir_deadline >= now
      <3>1. hotlist[e].fir_deadline \in Nat
        BY DEF IInv, TypeOK, Row
      <3> QED
        BY <1>1, <1>3, <2>1, <3>1 DEF find_expired_entries, Overdue, Rows
    <2> QED
      BY <1>1, <1>3, <2>1 DEF find_expired_entries, CompleteInv, BatchComplete
  <1>4. ASSUME job' = job, NEW t \in Threads, approve_commit(t) PROVE CompleteInv'
    <2>1. PICK e \in Entries \ Rows :
            hotlist' = [hotlist EXCEPT ![e] =
                          [status |-> "ACTIVE_UNCONFIRMED", complaint |-> request[t].complaint,
                           fir_deadline |-> now + FirDeadline,
                           cooldown_until |-> 0, fir_ref |-> FALSE]]
      BY <1>4 DEF approve_commit
    <2>2. /\ hotlist'[e].fir_deadline >= job.at
          /\ \A f \in Entries : f # e => hotlist'[f] = hotlist[f]
      BY <1>1, <2>1 DEF IInv, TypeOK, CompleteInv
    <2> QED
      BY <1>4, <2>2 DEF approve_commit, CompleteInv, BatchComplete
  <1>5. CASE job' = job /\ ~expire_commit /\ \A t \in Threads : ~approve_commit(t)
    <2>1. job.at <= now'
      BY <1>1, JobSteps DEF CompleteInv
    <2>2. ASSUME job.running, NEW e \in Entries \ job.batch,
                 hotlist'[e].status = "ACTIVE_UNCONFIRMED"
          PROVE  hotlist'[e].fir_deadline >= job.at
      BY <1>5, <2>2, WaitingStays DEF CompleteInv, BatchComplete
    <2> QED
      BY <1>5, <2>1, <2>2 DEF CompleteInv, BatchComplete
  <1>6. expire_commit => job' = JobIdle
    BY DEF expire_commit
  <1> QED
    BY <1>2, <1>3, <1>4, <1>5, <1>6, JobSteps

\* CompleteInv holds in every state of every behaviour.
LEMMA CompleteInvariance == Spec => []CompleteInv
  <1>1. Init => CompleteInv
    BY DEF Init, CompleteInv, BatchComplete, JobIdle
  <1> QED
    BY <1>1, NextComplete, Invariance, PTL DEF Spec

\* The expiry job is exact: no row is expired before its FIR deadline and none that was
\* overdue is missed, for any overlap of requests, job runs, failures and crashes.
THEOREM ExpiryExact == Spec => []ExpiryIsExact
  <1>1. IInv /\ CompleteInv => ExpiryIsExact
    BY DEF IInv, CompleteInv, ExpiryIsExact
  <1> QED
    BY <1>1, Invariance, CompleteInvariance, PTL

\* The commit of the job leaves no waiting row that was overdue at its query.
THEOREM ExpiryCatchesAll == Spec => ExpiryLeavesNothingOverdue
  <1> DEFINE A == expire_commit => \A e \in Entries :
                    hotlist'[e].status = "ACTIVE_UNCONFIRMED" => hotlist'[e].fir_deadline >= job.at
  <1>1. ASSUME IInv, CompleteInv, expire_commit, NEW e \in Entries,
               hotlist'[e].status = "ACTIVE_UNCONFIRMED"
        PROVE  hotlist'[e].fir_deadline >= job.at
    <2>1. CASE e \in job.batch
      BY <1>1, <2>1 DEF expire_commit, mark_expired, IInv, TypeOK, Row
    <2>2. CASE e \notin job.batch
      BY <1>1, <2>2 DEF expire_commit, CompleteInv, BatchComplete
    <2> QED
      BY <2>1, <2>2
  <1>2. IInv /\ CompleteInv => [A]_vars
    BY <1>1
  <1> QED
    BY <1>2, Invariance, CompleteInvariance, PTL DEF Spec, ExpiryLeavesNothingOverdue

\* Every step that is not a failure keeps a thread at the audit of every unaudited write.
LEMMA NextAudited == IInv /\ AuditLostOnlyByFailure /\ [Next]_vars => AuditLostOnlyByFailure'
  <1> SUFFICES ASSUME IInv, AuditLostOnlyByFailure, [Next]_vars, failures' = 0,
                      NEW i \in committed', i \notin audited'
               PROVE  \E t \in Threads : request'[t].id = i /\ request'[t].stage = "audit"
    BY DEF AuditLostOnlyByFailure
  <1>0. request \in [Threads -> Request] /\ failures \in Nat
    BY BoundAssumption DEF IInv, TypeOK
  \* A thread that neither mutates nor fails leaves the pending audit rows to their threads.
  <1>1. ASSUME failures = 0, UNCHANGED committed, UNCHANGED audited, NEW u \in Threads,
               request[u].stage # "audit",
               \A t \in Threads : t # u => request'[t] = request[t]
        PROVE  \E t \in Threads : request'[t].id = i /\ request'[t].stage = "audit"
    BY <1>1 DEF AuditLostOnlyByFailure
  <1>2. ASSUME failures = 0, UNCHANGED <<committed, audited, request>>
        PROVE  \E t \in Threads : request'[t].id = i /\ request'[t].stage = "audit"
    BY <1>2 DEF AuditLostOnlyByFailure
  <1>3. ASSUME failures = 0, NEW u \in Threads, request[u].stage = "commit", Mutated(u),
               UNCHANGED audited
        PROVE  \E t \in Threads : request'[t].id = i /\ request'[t].stage = "audit"
    <2>1. /\ request'[u].id = request[u].id /\ request'[u].stage = "audit"
          /\ \A t \in Threads : t # u => request'[t] = request[t]
      BY <1>0, <1>3 DEF Mutated, Request
    <2>2. i = request[u].id \/ i \in committed \ audited
      BY <1>3 DEF Mutated
    <2> QED
      BY <1>3, <2>1, <2>2 DEF AuditLostOnlyByFailure
  <1>4. ASSUME failures = 0, NEW u \in Threads, write_audit_log(u)
        PROVE  \E t \in Threads : request'[t].id = i /\ request'[t].stage = "audit"
    <2>1. i \in committed \ audited /\ i # request[u].id
      BY <1>4 DEF write_audit_log
    <2>2. PICK t \in Threads : request[t].id = i /\ request[t].stage = "audit"
      BY <1>4, <2>1 DEF AuditLostOnlyByFailure
    <2> QED
      BY <1>0, <1>4, <2>1, <2>2 DEF write_audit_log
  <1>5. ASSUME failures = 0, NEW u \in Threads, Serve(u)
        PROVE  \E t \in Threads : request'[t].id = i /\ request'[t].stage = "audit"
    <2>1. /\ request[u] = Idle
          /\ \A t \in Threads : t # u => request'[t] = request[t]
          /\ UNCHANGED <<committed, audited>>
      BY <1>0, <1>5 DEF Serve, verify_load, fir_load, update_load, delete_load, Begin
    <2> QED
      BY <1>1, <1>5, <2>1 DEF Idle
  <1>6. ASSUME failures = 0, NEW u \in Threads, fir_find(u) \/ fir_commit(u)
        PROVE  \E t \in Threads : request'[t].id = i /\ request'[t].stage = "audit"
    <2>1. /\ request[u].stage # "audit"
          /\ \A t \in Threads : t # u => request'[t] = request[t]
          /\ UNCHANGED <<committed, audited>>
      BY <1>0, <1>6 DEF fir_find, fir_commit, At
    <2> QED
      BY <1>1, <1>6, <2>1
  <1>7. ASSUME NEW u \in Threads, approve_commit(u) \/ reject_commit(u) \/ entry_commit(u)
        PROVE  request[u].stage = "commit" /\ Mutated(u) /\ UNCHANGED <<audited, failures>>
    BY <1>7 DEF approve_commit, reject_commit, entry_commit, At
  <1>8. CASE \/ Tick \/ (\E c \in Complaints : create_complaint(c))
             \/ find_expired_entries \/ expire_commit \/ UNCHANGED vars
    <2>1. UNCHANGED <<committed, audited, request, failures>>
      BY <1>8 DEF Tick, create_complaint, find_expired_entries, expire_commit, vars
    <2> QED
      BY <1>2, <2>1
  <1>9. failures = 0 /\ ~job_fails /\ ~crash /\ \A u \in Threads : ~request_fails(u)
    <2>1. Fail => failures' = failures + 1
      BY DEF Fail
    <2>2. failures' = failures \/ Fail
      BY DEF Next, Serve, Continue, vars, Tick, create_complaint, verify_load, fir_load, update_load,
         delete_load, approve_commit, reject_commit, fir_find, fir_commit, entry_commit,
         write_audit_log, find_expired_entries, expire_commit, request_fails, job_fails, crash
    <2>3. ~Fail /\ failures = 0
      BY <1>0, <2>1, <2>2
    <2> QED
      BY <2>3 DEF job_fails, crash, request_fails
  <1> QED
    BY <1>3, <1>4, <1>5, <1>6, <1>7, <1>8, <1>9 DEF Next, Continue

\* Without a failure no committed write of an officer stays without its audit row: the
\* thread that made it is still about to insert one.
THEOREM AuditSurvives == Spec => []AuditLostOnlyByFailure
  <1>1. Init => AuditLostOnlyByFailure
    BY DEF Init, AuditLostOnlyByFailure
  <1> QED
    BY <1>1, NextAudited, Invariance, PTL DEF Spec
=============================================================================
