------------------------------ MODULE JobTable ------------------------------
(***************************************************************************)
(* The `jobs` table of PAWE and the API requests that write it: the rows,  *)
(* the constraints the database puts on inserts, the statements with which *)
(* a request looks for an active job and inserts one, cooperative          *)
(* cancellation, and a runner's claim and closing update.  A row lock      *)
(* (SELECT ... FOR UPDATE) makes each update one atomic step on its row;   *)
(* an insert locks nothing before it happens, so that two requests may     *)
(* both have looked before either inserts.                                 *)
(*                                                                         *)
(* A row is identified by its position in creation order, so that the      *)
(* code's ORDER BY created_at is the order of the identifiers.             *)
(***************************************************************************)
EXTENDS Naturals

CONSTANTS MaxJobs,   \* bound: the rows a behaviour may insert
          Weeks,     \* natural weeks (week_id)
          Days,      \* trade dates a daily brief may be asked for
          NoDay,     \* "no trade date": weekly jobs and replays
          Keys,      \* idempotency keys
          Clients    \* concurrent API requests

\* A weekly job's missing date is no date; there is something to ask for.
ASSUME JobTableAssumption ==
    /\ MaxJobs \in Nat
    /\ NoDay \notin Days
    /\ Weeks # {}
    /\ Keys # {}

VARIABLES jobs,      \* row of each identifier; status "absent" before its insert
          created,   \* rows inserted so far
          request    \* each API request: where it is in its transaction

JobIds == 1 .. MaxJobs

Types == {"weekly_selection", "daily_brief", "weekly_review", "replay"}
ActiveStatuses == {"queued", "running"}
TerminalStatuses == {"succeeded", "failed", "cancelled"}
Statuses == {"absent"} \cup ActiveStatuses \cup TerminalStatuses

\* What a caller asks for, and the row that records it.  `started` is
\* started_at IS NOT NULL; `cancel` is cancel_requested_at IS NOT NULL.
Requests == [type: Types, week: Weeks, day: Days \cup {NoDay}, catchUp: BOOLEAN, key: Keys]
Rows == [of: Requests, status: Statuses, cancel: BOOLEAN, started: BOOLEAN]

JobsTypeOK ==
    /\ jobs \in [JobIds -> Rows]
    /\ created \in 0 .. MaxJobs
    /\ \A j \in JobIds : (jobs[j].status = "absent") <=> (j > created)
    /\ request \in [Clients -> [pc: {"idle", "active", "insert", "reuse", "answered"},
                                of: Requests, answer: 0 .. MaxJobs]]

\* Before its insert an identifier holds a row nobody can read.
BlankRow == [of |-> CHOOSE r \in Requests : TRUE, status |-> "absent",
             cancel |-> FALSE, started |-> FALSE]
NoJob == 0
IdleRequest == [pc |-> "idle", of |-> BlankRow.of, answer |-> NoJob]

JobsInit == /\ jobs = [j \in JobIds |-> BlankRow]
            /\ created = 0
            /\ request = [c \in Clients |-> IdleRequest]

-----------------------------------------------------------------------------
(* The queries                                                             *)

Present == {j \in JobIds : jobs[j].status # "absent"}
OfWeek(type, w) == {j \in Present : jobs[j].of.type = type /\ jobs[j].of.week = w}
ActiveJobs(type, w) == {j \in OfWeek(type, w) : jobs[j].status \in ActiveStatuses}
SucceededJobs(type, w) == {j \in OfWeek(type, w) : jobs[j].status = "succeeded"}
\* Mutant: the idempotency key is looked up in every week.
WithKeyOfAnyWeek(type, w, k) == {j \in Present : jobs[j].of.type = type /\ jobs[j].of.key = k}

WithKey(type, w, k) == {j \in OfWeek(type, w) : jobs[j].of.key = k}

\* ORDER BY created_at DESC LIMIT 1 and ORDER BY created_at LIMIT 1.
IsNewest(j, S) == j \in S /\ \A i \in S : i <= j
IsOldest(j, S) == j \in S /\ \A i \in S : j <= i

\* Mutant: without the partial index.
InsertableByKey(of, status) == WithKey(of.type, of.week, of.key) = {}

\* uq_job_idempotency, and the partial index uq_jobs_active_weekly_selection,
\* which covers weekly selections only.
Insertable(of, status) ==
    /\ WithKey(of.type, of.week, of.key) = {}
    /\ \/ of.type # "weekly_selection"
       \/ status \notin ActiveStatuses
       \/ ActiveJobs(of.type, of.week) = {}

-----------------------------------------------------------------------------
(* The writes                                                              *)

table == <<jobs, created>>

Insert(of, status) ==
    /\ created < MaxJobs
    /\ created' = created + 1
    /\ jobs' = [jobs EXCEPT ![created + 1] =
                  [of |-> of, status |-> status, cancel |-> FALSE,
                   started |-> status # "queued"]]

\* Mutant: a status the other code does not know.
ClaimUnknown(j) ==
    /\ jobs[j].status = "queued"
    /\ jobs' = [jobs EXCEPT ![j].status = "claimed", ![j].started = TRUE]
    /\ UNCHANGED created

\* A runner takes a queued row.
Claim(j) ==
    /\ jobs[j].status = "queued"
    /\ jobs' = [jobs EXCEPT ![j].status = "running", ![j].started = TRUE]
    /\ UNCHANGED created

\* Mutant: the runner's outcome is written over a cancellation.
FinishAnyway(j, outcome) ==
    /\ jobs' = [jobs EXCEPT ![j].status = outcome]
    /\ UNCHANGED created

\* Mutant: a row with a cancellation is left to the canceller.
FinishUncancelled(j, outcome) ==
    /\ jobs' = [jobs EXCEPT ![j].status = IF jobs[j].cancel THEN @ ELSE outcome]
    /\ UNCHANGED created

\* finish_output_job and the last transaction of execute_queued_weekly_selection:
\* whatever the row's status is by now, a recorded cancellation wins.
Finish(j, outcome) ==
    /\ jobs' = [jobs EXCEPT ![j].status = IF jobs[j].cancel THEN "cancelled" ELSE outcome]
    /\ UNCHANGED created

\* request_cancel: a queued row is cancelled on the spot, a running one only
\* carries the request; a second request, or one on a finished row, is void.
RequestCancel(j) ==
    /\ jobs[j].status \in ActiveStatuses
    /\ ~ jobs[j].cancel
    /\ jobs' = [jobs EXCEPT ![j].cancel = TRUE,
                            ![j].status = IF @ = "queued" THEN "cancelled" ELSE @]
    /\ UNCHANGED <<created, request>>

-----------------------------------------------------------------------------
(* An enqueue request after its first look at the table                    *)

Answer(c, j) ==
    request' = [request EXCEPT ![c] = [@ EXCEPT !.pc = "answered", !.answer = j]]

\* A queued or running job of this type and week is the answer, if there is one.
EnqueueActive(c) ==
    LET active == ActiveJobs(request[c].of.type, request[c].of.week)
    IN  /\ request[c].pc = "active"
        /\ \/ active = {} /\ request' = [request EXCEPT ![c].pc = "insert"]
           \/ \E j \in active : Answer(c, j)
        /\ UNCHANGED table

\* INSERT of a queued job, or of the record that its output exists already.
\* A violated constraint rolls back; the answer is then the newest active job, or
\* an error (NoJob) when there is none any more.  A replay gets the error at once.
EnqueueInsert(c) ==
    LET of == request[c].of
        status == IF request[c].pc = "reuse" THEN "succeeded" ELSE "queued"
        active == IF of.type = "replay" THEN {} ELSE ActiveJobs(of.type, of.week)
    IN  /\ request[c].pc \in {"insert", "reuse"}
        /\ \/ /\ Insertable(of, status)
              /\ Insert(of, status)
              /\ Answer(c, created + 1)
           \/ /\ ~ Insertable(of, status)
              /\ \/ \E j \in active : IsNewest(j, active) /\ Answer(c, j)
                 \/ active = {} /\ Answer(c, NoJob)
              /\ UNCHANGED table

\* The caller is done, or its transaction is rolled back (a lost connection).
NextRequest(c) ==
    /\ request[c].pc # "idle"
    /\ request' = [request EXCEPT ![c] = IdleRequest]
    /\ UNCHANGED table
=============================================================================
