----------------------------- MODULE WeeklyJobs -----------------------------
(***************************************************************************)
(* The weekly selection queue: administrators enqueue and cancel jobs      *)
(* through the API, the worker's poller prepares the data of the oldest    *)
(* queued job and only then claims it, and the pre-open task of the same   *)
(* worker runs the same rules without going through the queue.  Both end   *)
(* by creating, or reusing, the active rule decision of the week.          *)
(*                                                                         *)
(* Every action is one database transaction or one statement of a          *)
(* transaction that can interleave with another one under READ COMMITTED.  *)
(***************************************************************************)
EXTENDS JobTable

CONSTANTS AutoKeys,    \* the pre-open task's keys, one for each date it runs on
          MaxCrashes   \* bound: how often the worker process dies

\* The pre-open task's keys are keys; crashes are counted.
ASSUME WeeklyJobsAssumption ==
    /\ AutoKeys \subseteq Keys
    /\ MaxCrashes \in Nat

VARIABLES poller,    \* the poller thread (max_instances=1)
          preopen,   \* the pre-open thread
          decision,  \* who created the week's active rule decision
          ended,     \* weeks whose formal window is over
          lost,      \* history: rows whose runner died while they were running
          crashes    \* history: worker deaths so far

vars == <<jobs, created, request, poller, preopen, decision, ended, lost, crashes>>

Preopen == MaxJobs + 1          \* creator of a decision made by the pre-open task
Creators == 0 .. MaxJobs + 1    \* NoJob, a job, or Preopen

Weekly(w, k) == [type |-> "weekly_selection", week |-> w, day |-> NoDay,
                 catchUp |-> FALSE, key |-> k]

IdlePoller == [pc |-> "idle", job |-> NoJob, open |-> FALSE, saw |-> FALSE,
               result |-> "failed"]
IdlePreopen == [pc |-> "idle", of |-> BlankRow.of, open |-> FALSE, saw |-> FALSE]

\* Type of every variable.
TypeOK ==
    /\ JobsTypeOK
    /\ poller \in [pc: {"idle", "prepare", "claim", "read", "commit", "finish"},
                   job: 0 .. MaxJobs, open: BOOLEAN, saw: BOOLEAN,
                   result: {"succeeded", "failed"}]
    /\ preopen \in [pc: {"idle", "commit"}, of: Requests, open: BOOLEAN, saw: BOOLEAN]
    /\ decision \in [Weeks -> Creators]
    /\ ended \subseteq Weeks
    /\ lost \subseteq JobIds
    /\ crashes \in 0 .. MaxCrashes

Init ==
    /\ JobsInit
    /\ poller = IdlePoller
    /\ preopen = IdlePreopen
    /\ decision = [w \in Weeks |-> NoJob]
    /\ ended = {}
    /\ lost = {}
    /\ crashes = 0

-----------------------------------------------------------------------------
(* The API                                                                 *)

worker == <<poller, preopen, decision, ended, lost, crashes>>

\* enqueue_weekly_selection: the row of this key, or else the newest succeeded
\* job of the week, is the answer.
EnqueueLookup(c, w, k) ==
    LET same == WithKey("weekly_selection", w, k)
        done == SucceededJobs("weekly_selection", w)
        found == IF same # {} THEN same ELSE done
        of == Weekly(w, k)
    IN  /\ request[c].pc = "idle"
        /\ \/ /\ found = {}
              /\ request' = [request EXCEPT ![c] = [pc |-> "active", of |-> of, answer |-> NoJob]]
           \/ \E j \in found :
                 /\ IsNewest(j, found)
                 /\ request' = [request EXCEPT ![c] = [pc |-> "answered", of |-> of,
                                                      answer |-> j]]
        /\ UNCHANGED table

Api == /\ \/ \E c \in Clients :
                \/ \E w \in Weeks, k \in Keys \ AutoKeys : EnqueueLookup(c, w, k)
                \/ EnqueueActive(c)
                \/ EnqueueInsert(c)
                \/ NextRequest(c)
          \/ \E j \in JobIds : RequestCancel(j)
       /\ UNCHANGED worker

-----------------------------------------------------------------------------
(* execute_next_queued_weekly_selection_with_preparation                   *)

Queued == {j \in Present : jobs[j].status = "queued"}

environment == <<request, preopen, ended, lost, crashes>>

\* Reads the oldest queued job without claiming it.  `open` is local_now <
\* formal_end with the clock read here: everything below uses this value.
Pick ==
    /\ poller.pc = "idle"
    /\ \E j \in Queued :
          /\ IsOldest(j, Queued)
          /\ poller' = [IdlePoller EXCEPT
                          !.pc = IF jobs[j].of.week \in ended THEN "claim" ELSE "prepare",
                          !.job = j,
                          !.open = jobs[j].of.week \notin ended]
    /\ UNCHANGED <<table, decision, environment>>

PrepareOk ==
    /\ poller.pc = "prepare"
    /\ poller' = [poller EXCEPT !.pc = "claim"]
    /\ UNCHANGED <<table, decision, environment>>

\* The job fails without having been claimed.
PrepareFails ==
    /\ poller.pc = "prepare"
    /\ Finish(poller.job, "failed")
    /\ poller' = IdlePoller
    /\ UNCHANGED <<decision, environment>>

\* Mutant: the work goes on although the claim found the row cancelled.
ClaimOrNot ==
    /\ poller.pc = "claim"
    /\ IF jobs[poller.job].status = "queued" THEN Claim(poller.job) ELSE UNCHANGED table
    /\ poller' = [poller EXCEPT !.pc = "read"]
    /\ UNCHANGED <<decision, environment>>

\* First transaction of execute_queued_weekly_selection.
ClaimPicked ==
    /\ poller.pc = "claim"
    /\ IF jobs[poller.job].status = "queued"
       THEN Claim(poller.job) /\ poller' = [poller EXCEPT !.pc = "read"]
       ELSE poller' = IdlePoller /\ UNCHANGED table
    /\ UNCHANGED <<decision, environment>>

PickedWeek == jobs[poller.job].of.week

\* Mutant: an exception of the rules ends the runner.
WorkReadRaises ==
    /\ poller.pc = "read"
    /\ \/ poller' = IdlePoller
       \/ /\ poller.open
          /\ poller' = [poller EXCEPT !.pc = "commit", !.saw = decision[PickedWeek] # NoJob]
    /\ UNCHANGED <<table, decision, environment>>

\* Mutant: a closed gate is no failure.
WorkReadLenient ==
    /\ poller.pc = "read"
    /\ \/ poller' = [poller EXCEPT !.pc = "finish", !.result = "succeeded"]
       \/ /\ poller.open
          /\ poller' = [poller EXCEPT !.pc = "commit", !.saw = decision[PickedWeek] # NoJob]
    /\ UNCHANGED <<table, decision, environment>>

\* Second transaction: the gates (closed window, missing input) or the rules
\* fail and nothing is written, or the rules find candidates.
WorkRead ==
    /\ poller.pc = "read"
    /\ \/ poller' = [poller EXCEPT !.pc = "finish", !.result = "failed"]
       \/ /\ poller.open
          /\ poller' = [poller EXCEPT !.pc = "commit", !.saw = decision[PickedWeek] # NoJob]
    /\ UNCHANGED <<table, decision, environment>>

\* Mutant: without the version constraint.
WorkCommitTwice ==
    /\ poller.pc = "commit"
    /\ poller' = [poller EXCEPT !.pc = "finish", !.result = "succeeded"]
    /\ decision' = [decision EXCEPT ![PickedWeek] = IF poller.saw THEN @ ELSE poller.job]
    /\ UNCHANGED <<table, environment>>

\* The week's active rule decision is reused if the transaction saw it, and is
\* created otherwise; one that appeared meanwhile makes the insert fail.
WorkCommit ==
    /\ poller.pc = "commit"
    /\ \/ /\ ~ poller.saw
          /\ decision[PickedWeek] # NoJob
          /\ poller' = [poller EXCEPT !.pc = "finish", !.result = "failed"]
          /\ UNCHANGED decision
       \/ /\ poller.saw \/ decision[PickedWeek] = NoJob
          /\ poller' = [poller EXCEPT !.pc = "finish", !.result = "succeeded"]
          /\ decision' = [decision EXCEPT ![PickedWeek] =
                            IF poller.saw THEN @ ELSE poller.job]
    /\ UNCHANGED <<table, environment>>

\* Mutant: the runner leaves a cancelled row alone.
FinishIfUncancelled ==
    /\ poller.pc = "finish"
    /\ IF jobs[poller.job].cancel THEN UNCHANGED table ELSE Finish(poller.job, poller.result)
    /\ poller' = IdlePoller
    /\ UNCHANGED <<decision, environment>>

\* Third transaction: the status, unless a cancellation came in meanwhile.
FinishPicked ==
    /\ poller.pc = "finish"
    /\ Finish(poller.job, poller.result)
    /\ poller' = IdlePoller
    /\ UNCHANGED <<decision, environment>>

Poller == \/ Pick \/ PrepareOk \/ PrepareFails \/ ClaimPicked
          \/ WorkRead \/ WorkCommit \/ FinishPicked

-----------------------------------------------------------------------------
(* execute_weekly_preopen and trigger_weekly_selection: one transaction    *)
(* that runs the rules and records a finished job, without the queue.      *)

PreopenRead(w, k) ==
    /\ preopen.pc = "idle"
    /\ WithKey("weekly_selection", w, k) = {}
    /\ preopen' = [pc |-> "commit", of |-> Weekly(w, k), open |-> w \notin ended,
                   saw |-> decision[w] # NoJob]
    /\ UNCHANGED <<table, request, poller, decision, ended, lost, crashes>>

\* A gate or the rules fail, which the row records; or the decision is created or
\* reused; or an error, such as a violated constraint, rolls everything back.
PreopenCommit ==
    LET of == preopen.of
        w == of.week
    IN  /\ preopen.pc = "commit"
        /\ preopen' = IdlePreopen
        /\ \/ /\ Insertable(of, "failed")
              /\ Insert(of, "failed")
              /\ UNCHANGED decision
           \/ /\ preopen.open
              /\ Insertable(of, "succeeded")
              /\ preopen.saw \/ decision[w] = NoJob
              /\ Insert(of, "succeeded")
              /\ decision' = [decision EXCEPT ![w] = IF preopen.saw THEN @ ELSE Preopen]
           \/ UNCHANGED <<table, decision>>
        /\ UNCHANGED <<request, poller, ended, lost, crashes>>

-----------------------------------------------------------------------------

\* The next trading week begins.
WeekEnds(w) ==
    /\ w \notin ended
    /\ ended' = ended \cup {w}
    /\ UNCHANGED <<table, request, poller, preopen, decision, lost, crashes>>

\* The worker process dies and is restarted: its threads and open transactions
\* are gone, the committed rows stay, and build_scheduler starts from nothing.
Crash ==
    /\ crashes < MaxCrashes
    /\ crashes' = crashes + 1
    /\ lost' = lost \cup {j \in Present : jobs[j].status = "running"}
    /\ poller' = IdlePoller
    /\ preopen' = IdlePreopen
    /\ UNCHANGED <<table, request, decision, ended>>

Next ==
    \/ Api
    \/ Poller
    \/ \E w \in Weeks, k \in AutoKeys : PreopenRead(w, k)
    \/ PreopenCommit
    \/ \E w \in Weeks : WeekEnds(w)
    \/ Crash

Spec == Init /\ [][Next]_vars

\* The scheduler fires the poller every job_poll_seconds, and each coroutine it
\* submits to the event loop runs on to its next transaction.
FairSpec == Spec /\ WF_vars(Poller)

-----------------------------------------------------------------------------
(* Properties                                                              *)

\* At most one weekly selection of a week is queued or running, although
\* concurrent requests check and insert in separate statements.
OneActivePerWeek ==
    \A w \in Weeks : \A i, j \in ActiveJobs("weekly_selection", w) : i = j

\* A cancellation is never overruled: a finished job on which an administrator
\* had recorded one is cancelled, whatever its runner concluded, and no job is
\* cancelled unasked.
CancelWins ==
    \A j \in JobIds :
        /\ jobs[j].cancel /\ jobs[j].status \in TerminalStatuses => jobs[j].status = "cancelled"
        /\ jobs[j].status = "cancelled" => jobs[j].cancel

\* A decision attributed to a job comes from a job of that week that was really
\* claimed: cancelling a job while its data is still being prepared is safe.
OnlyClaimedJobsDecide ==
    \A w \in Weeks : decision[w] \in JobIds =>
        /\ jobs[decision[w]].started
        /\ jobs[decision[w]].of.week = w

\* A job reported as succeeded left an active rule decision for its week behind.
SucceededHasDecision ==
    \A j \in JobIds : jobs[j].status = "succeeded" => decision[jobs[j].of.week] # NoJob

\* A running job is in the hands of the poller, unless its runner has died.
RunningHasRunner ==
    \A j \in JobIds : jobs[j].status = "running" =>
        \/ poller.job = j /\ poller.pc \in {"read", "commit", "finish"}
        \/ j \in lost

\* A caller is told about a weekly selection of the week it asked for.
AnswerOfWeek ==
    \A c \in Clients : request[c].pc = "answered" /\ request[c].answer # NoJob =>
        request[c].answer \in OfWeek("weekly_selection", request[c].of.week)

\* A finished job keeps its outcome: neither a runner that comes late nor a late
\* cancellation changes what the audit shows.
TerminalIsFinal ==
    [][\A j \in JobIds : jobs[j].status \in TerminalStatuses =>
            /\ jobs'[j].status = jobs[j].status
            /\ jobs'[j].cancel = jobs[j].cancel]_vars

\* The rule decision of a week is created once, by the poller or by the pre-open
\* task, never by both.
DecisionIsFinal ==
    [][\A w \in Weeks : decision[w] # NoJob => decision'[w] = decision[w]]_vars

\* Every job is finished in the end, unless its runner died: the row that such a
\* runner leaves behind holds up no job of another week.
JobsFinish ==
    \A j \in JobIds : jobs[j].status \in ActiveStatuses
                      ~> (jobs[j].status \in TerminalStatuses \/ j \in lost)

\* The queue implements the life cycle of independent cancellable jobs.
Lifecycle == INSTANCE JobLifecycle WITH
    status <- [j \in JobIds |-> jobs[j].status],
    cancel <- [j \in JobIds |-> jobs[j].cancel]
LifecycleSpec == Lifecycle!Spec
=============================================================================
