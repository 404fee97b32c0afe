----------------------------- MODULE OutputJobs -----------------------------
(***************************************************************************)
(* The formal outputs of one trading week and the single worker thread     *)
(* that makes them (the scheduler's "outputs" executor has one worker):    *)
(* queued daily-brief, weekly-review and replay jobs, and the scheduled    *)
(* tasks, which make the same briefs and reviews without a job.  Each      *)
(* brief, and each version's review, is a transaction of its own, so a     *)
(* failure, a cancellation or a crash can fall between any two of them.    *)
(*                                                                         *)
(* Time is a clock that passes, for each date d, its beginning (2d - 1)    *)
(* and its 15:30 (2d); the dates are the Monday to Friday of the week,     *)
(* numbered 1 .. LastDate, of which OpenDates are trading days.            *)
(***************************************************************************)
EXTENDS JobTable, FiniteSets

CONSTANTS LastDate,    \* the week's last calendar date (its Friday)
          OpenDates,   \* the week's trading days
          MinOpenDates,\* a week with fewer trading days is not reviewed (3 in the code)
          Versions,    \* the week's decision versions, in the order they are reviewed
          Asked,       \* bound: the pairs <<date, catch_up_week>> that callers ask for
          MaxCrashes   \* bound: how often the worker process dies

\* The dates of one week, at least one of them open, and versions numbered in order.
ASSUME OutputJobsAssumption ==
    /\ LastDate \in Nat
    /\ OpenDates # {} /\ OpenDates \subseteq 1 .. LastDate
    /\ MinOpenDates \in Nat
    /\ Days = 1 .. LastDate
    /\ IsFiniteSet(Versions) /\ Versions \subseteq Nat /\ Versions # {}
    /\ Asked \subseteq Days \X BOOLEAN
    /\ MaxCrashes \in Nat

VARIABLES runner,     \* the outputs thread
          published,  \* the week's formal list is published
          briefs,     \* dates whose daily brief exists
          reviews,    \* decision versions whose weekly review exists
          watched,    \* the watchlists' weekly items exist
          clock,      \* what time it is
          starting,   \* the worker's start-up review catch-up has still to run
          lost,       \* history: rows whose runner died while they were running
          crashes     \* history: worker deaths so far

outputs == <<briefs, reviews, watched>>
history == <<published, clock, lost, crashes>>
vars == <<jobs, created, request, runner, outputs, starting, history>>

W == CHOOSE w \in Weeks : TRUE

Due(d) == 2 * d
WindowEnd == Due(LastDate) + 2     \* the next trading week's first day begins
Today(t) == (t + 1) \div 2
LastOpen == CHOOSE d \in OpenDates : \A e \in OpenDates : e <= d

IdleRunner == [pc |-> "idle", job |-> NoJob, now |-> 0, dates |-> {}, failed |-> FALSE,
               versions |-> {}, nested |-> FALSE]

\* Type of every variable.
TypeOK ==
    /\ JobsTypeOK
    /\ runner \in [pc: {"idle", "gate", "dates", "versions", "watch", "replay"},
                   job: 0 .. MaxJobs, now: 0 .. WindowEnd, dates: SUBSET Days,
                   failed: BOOLEAN, versions: SUBSET Versions, nested: BOOLEAN]
    /\ published \in BOOLEAN /\ watched \in BOOLEAN /\ starting \in BOOLEAN
    /\ briefs \subseteq Days
    /\ reviews \subseteq Versions
    /\ clock \in 0 .. WindowEnd
    /\ lost \subseteq JobIds
    /\ crashes \in 0 .. MaxCrashes

Init ==
    /\ JobsInit
    /\ runner = IdleRunner
    /\ published = FALSE
    /\ briefs = {} /\ reviews = {} /\ watched = FALSE
    /\ clock = 0
    /\ starting = TRUE
    /\ lost = {} /\ crashes = 0

-----------------------------------------------------------------------------
(* The API: enqueue_output_job, and the enqueueing of a replay             *)

Daily(d, catchUp, k) == [type |-> "daily_brief", week |-> W, day |-> d,
                         catchUp |-> catchUp, key |-> k]
Undated(type, k) == [type |-> type, week |-> W, day |-> NoDay, catchUp |-> FALSE, key |-> k]

FormalRequests == {Daily(a[1], a[2], k) : a \in Asked, k \in Keys}
                  \cup {Undated("weekly_review", k) : k \in Keys}

\* completed_output_id: any brief of the date, or any review of the week.
OutputExists(of) == IF of.type = "daily_brief" THEN of.day \in briefs ELSE reviews # {}

\* The row of this key is the answer.  Else, unless a catch-up is asked for, an
\* output that exists is reused: its newest succeeded job is the answer, or
\* such a job is recorded.  Else the request goes on to look for an active job.
EnqueueLookup(c, of) ==
    LET same == WithKey(of.type, W, of.key)
        done == {j \in SucceededJobs(of.type, W) : jobs[j].of.day = of.day}
        reuse == ~ of.catchUp /\ OutputExists(of)
        found == IF same # {} THEN same ELSE IF reuse THEN done ELSE {}
        next == IF reuse THEN "reuse" ELSE "active"
    IN  /\ request[c].pc = "idle"
        /\ \/ /\ found = {}
              /\ request' = [request EXCEPT ![c] = [pc |-> next, of |-> of, answer |-> NoJob]]
           \/ \E j \in found :
                 /\ IsNewest(j, found)
                 /\ request' = [request EXCEPT ![c] = [pc |-> "answered", of |-> of,
                                                      answer |-> j]]
        /\ UNCHANGED table

\* SqlReplayApplication.enqueue: only once the formal window is over; no look
\* for an active job.
EnqueueReplay(c, k) ==
    LET of == Undated("replay", k)
        same == WithKey("replay", W, k)
    IN  /\ request[c].pc = "idle"
        /\ clock >= WindowEnd
        /\ \/ /\ same = {}
              /\ request' = [request EXCEPT ![c] = [pc |-> "insert", of |-> of, answer |-> NoJob]]
           \/ \E j \in same :
                 request' = [request EXCEPT ![c] = [pc |-> "answered", of |-> of, answer |-> j]]
        /\ UNCHANGED table

Api == /\ \/ \E c \in Clients :
                \/ \E of \in FormalRequests : EnqueueLookup(c, of)
                \/ \E k \in Keys : EnqueueReplay(c, k)
                \/ EnqueueActive(c)
                \/ EnqueueInsert(c)
                \/ NextRequest(c)
          \/ \E j \in JobIds : RequestCancel(j)
       /\ UNCHANGED <<runner, outputs, starting, history>>

-----------------------------------------------------------------------------
(* Taking up work: the poller prefers replays; a scheduled task has no job. *)

QueuedOf(types) == {j \in Present : jobs[j].status = "queued" /\ jobs[j].of.type \in types}

Take(j, label) ==
    /\ runner.pc = "idle"
    /\ Claim(j)
    /\ runner' = [IdleRunner EXCEPT !.pc = label, !.job = j, !.now = clock]
    /\ UNCHANGED <<request, outputs, starting, history>>

ClaimReplay == \E j \in QueuedOf({"replay"}) :
    IsOldest(j, QueuedOf({"replay"})) /\ Take(j, "replay")

ClaimOutput ==
    LET queued == QueuedOf({"daily_brief", "weekly_review"})
    IN  /\ QueuedOf({"replay"}) = {}
        /\ \E j \in queued : IsOldest(j, queued) /\ Take(j, "gate")

\* Mutant: today counts as an earlier day.
MissingToo(last) == {d \in OpenDates : d <= last + 1 /\ d \notin briefs}

\* run_daily_brief at 15:30, and execute_daily_brief_catchup every half hour:
\* the missing briefs of the week's earlier trading days, and today's once due.
Missing(last) == {d \in OpenDates : d <= last /\ d \notin briefs}

Schedule ==
    LET today == Today(clock)
        dueToday == {d \in Days : d = today /\ Due(d) <= clock}
        earlier == IF published THEN Missing(today - 1) ELSE {}
    IN  /\ runner.pc = "idle"
        /\ clock < WindowEnd
        /\ \E dates \in {dueToday, earlier \cup dueToday} \ {{}} :
              runner' = [IdleRunner EXCEPT !.pc = "dates", !.now = clock, !.dates = dates]
        /\ UNCHANGED <<table, request, outputs, starting, history>>

\* Mutant: the review does not wait for the briefs.
ReviewDue(t, made) ==
    t >= Due(LastOpen) /\ published /\ Cardinality(OpenDates) >= MinOpenDates

\* The week's review is due and every formal brief it needs exists.
ReviewReady(t, made) ==
    /\ t >= Due(LastOpen)
    /\ published /\ OpenDates \subseteq made
    /\ Cardinality(OpenDates) >= MinOpenDates

\* execute_weekly_review_catchup, once after each start of the worker.
StartUp ==
    /\ starting /\ runner.pc = "idle"
    /\ starting' = FALSE
    /\ IF Today(clock) >= LastDate /\ ReviewReady(clock, briefs) /\ reviews = {}
       THEN runner' = [IdleRunner EXCEPT !.pc = "versions", !.now = clock, !.versions = Versions]
       ELSE UNCHANGED runner
    /\ UNCHANGED <<table, request, outputs, history>>

-----------------------------------------------------------------------------
(* Carrying the work out                                                   *)

Conclude(outcome) ==
    /\ IF runner.job = NoJob THEN UNCHANGED table ELSE Finish(runner.job, outcome)
    /\ runner' = IdleRunner

Job == jobs[runner.job]

\* A daily-brief job: too early, or a catch-up outside the formal window or of a
\* week without a published list, fails; with nothing left to make it succeeds
\* if its date is due.
DailyGate ==
    LET d == Job.of.day
        due == runner.now >= Due(d)
        through == IF due THEN d ELSE d - 1
        targets == IF Job.of.catchUp THEN Missing(through) ELSE {d}
        refused == \/ d > Today(runner.now)
                   \/ ~ Job.of.catchUp /\ ~ due
                   \/ Job.of.catchUp /\ (runner.now >= WindowEnd \/ ~ published)
    IN  /\ runner.pc = "gate" /\ Job.of.type = "daily_brief"
        /\ \/ /\ refused \/ (targets = {} /\ ~ due)
              /\ Conclude("failed")
           \/ /\ ~ refused /\ targets = {} /\ due
              /\ Conclude("succeeded")
           \/ /\ ~ refused /\ targets # {}
              /\ runner' = [runner EXCEPT !.pc = "dates", !.dates = targets]
              /\ UNCHANGED table
        /\ UNCHANGED <<request, outputs, starting, history>>

\* Only a catch-up looks at its cancellation between two dates.
Stopped == runner.job # NoJob /\ Job.of.catchUp /\ Job.cancel

NextDate(d) ==
    /\ runner.pc = "dates" /\ ~ Stopped
    /\ d \in runner.dates /\ \A e \in runner.dates : d <= e

\* execute_daily_brief: the brief is stored (or was already), and then the week's
\* review follows if this was the last brief it waited for.
MakeBrief(d) ==
    LET made == briefs \cup {d}
        review == ReviewReady(runner.now, made) /\ reviews = {}
    IN  /\ NextDate(d)
        /\ published /\ d \in OpenDates
        /\ briefs' = made
        /\ runner' = [runner EXCEPT !.dates = @ \ {d},
                                    !.pc = IF review THEN "versions" ELSE "dates",
                                    !.versions = IF review THEN Versions ELSE {},
                                    !.nested = review]
        /\ UNCHANGED <<table, request, reviews, watched, starting, history>>

\* No brief (a closed day, no published list, no market data), or the brief is
\* stored and the watchlist items that follow it fail: the date is reported failed.
MissBrief(d) ==
    /\ NextDate(d)
    /\ \/ UNCHANGED briefs
       \/ published /\ d \in OpenDates /\ briefs' = briefs \cup {d}
    /\ runner' = [runner EXCEPT !.dates = @ \ {d}, !.failed = TRUE]
    /\ UNCHANGED <<table, request, reviews, watched, starting, history>>

\* Mutant: what was done is called a success.
DatesForgiven ==
    /\ runner.pc = "dates"
    /\ runner.dates = {} \/ Stopped
    /\ Conclude(IF Stopped THEN "failed" ELSE "succeeded")
    /\ UNCHANGED <<request, outputs, starting, history>>

DatesDone ==
    /\ runner.pc = "dates"
    /\ runner.dates = {} \/ Stopped
    /\ Conclude(IF runner.failed \/ Stopped THEN "failed" ELSE "succeeded")
    /\ UNCHANGED <<request, outputs, starting, history>>

\* A weekly-review job.
ReviewGate ==
    /\ runner.pc = "gate" /\ Job.of.type = "weekly_review"
    /\ IF ReviewReady(runner.now, briefs)
       THEN /\ runner' = [runner EXCEPT !.pc = "versions", !.versions = Versions]
            /\ UNCHANGED table
       ELSE Conclude("failed")
    /\ UNCHANGED <<request, outputs, starting, history>>

\* SqlWeeklyReviewApplication.persist, one transaction for each version.
ReviewVersion(v) ==
    /\ runner.pc = "versions"
    /\ v \in runner.versions /\ \A u \in runner.versions : v <= u
    /\ reviews' = reviews \cup {v}
    /\ runner' = [runner EXCEPT !.versions = @ \ {v},
                                !.pc = IF runner.versions = {v} THEN "watch" ELSE "versions"]
    /\ UNCHANGED <<table, request, briefs, watched, starting, history>>

\* A review that followed a brief returns to the dates, and swallows its errors.
ReviewEnds(outcome) ==
    IF runner.nested
    THEN runner' = [runner EXCEPT !.pc = "dates", !.versions = {}, !.nested = FALSE]
         /\ UNCHANGED table
    ELSE Conclude(outcome)

\* The watchlists' weekly items come last.
WatchItems ==
    /\ runner.pc = "watch"
    /\ watched' = TRUE
    /\ ReviewEnds("succeeded")
    /\ UNCHANGED <<request, briefs, reviews, starting, history>>

\* Mutant: a job's review, too, swallows its errors.
ReviewSwallows ==
    /\ runner.pc \in {"versions", "watch"}
    /\ ReviewEnds("succeeded")
    /\ UNCHANGED <<request, outputs, starting, history>>

\* Market data, an incomplete classification or the database fails the review.
ReviewRaises ==
    /\ runner.pc \in {"versions", "watch"}
    /\ ReviewEnds("failed")
    /\ UNCHANGED <<request, outputs, starting, history>>

\* execute_replay_job runs every stage in one transaction and writes the outcome
\* without a look at the cancellation; an error rolls back and nobody finishes the job.
RunReplay ==
    /\ runner.pc = "replay"
    /\ runner' = IdleRunner
    /\ \/ /\ \E outcome \in {"succeeded", "failed"} :
                jobs' = [jobs EXCEPT ![runner.job].status = outcome]
          /\ UNCHANGED <<created, lost>>
       \/ /\ lost' = lost \cup {runner.job}
          /\ UNCHANGED table
    /\ UNCHANGED <<request, outputs, starting, published, clock, crashes>>

Work == \/ DailyGate \/ ReviewGate \/ DatesDone \/ WatchItems \/ ReviewRaises \/ RunReplay
        \/ \E d \in Days : MakeBrief(d) \/ MissBrief(d)
        \/ \E v \in Versions : ReviewVersion(v)

-----------------------------------------------------------------------------
(* The environment                                                         *)

\* An administrator publishes the week's list.
Publish ==
    /\ ~ published
    /\ published' = TRUE
    /\ UNCHANGED <<table, request, runner, outputs, starting, clock, lost, crashes>>

Tick ==
    /\ clock < WindowEnd
    /\ clock' = clock + 1
    /\ UNCHANGED <<table, request, runner, outputs, starting, published, lost, crashes>>

\* The worker dies and is restarted: its thread is gone, what it committed stays.
Crash ==
    /\ crashes < MaxCrashes
    /\ crashes' = crashes + 1
    /\ lost' = lost \cup {j \in Present : jobs[j].status = "running"}
    /\ runner' = IdleRunner
    /\ starting' = TRUE
    /\ UNCHANGED <<table, request, outputs, published, clock>>

Next == \/ Api
        \/ ClaimReplay \/ ClaimOutput \/ Schedule \/ StartUp
        \/ Work
        \/ Publish \/ Tick \/ Crash

Spec == Init /\ [][Next]_vars

\* The executor serves the poller every job_poll_seconds however many other tasks
\* are due, and a task that was taken up runs on.
FairSpec == Spec /\ SF_vars(ClaimReplay) /\ SF_vars(ClaimOutput) /\ WF_vars(Work)

-----------------------------------------------------------------------------
(* Properties                                                              *)

Formal(j) == jobs[j].of.type # "replay"

\* A daily job that reports success left the brief of its date behind; one that
\* catches up left every brief of the week's earlier trading days.
SucceededBriefsExist ==
    \A j \in JobIds : jobs[j].status = "succeeded" /\ jobs[j].of.type = "daily_brief" =>
        /\ ~ jobs[j].of.catchUp => jobs[j].of.day \in briefs
        /\ jobs[j].of.catchUp => \A d \in OpenDates : d < jobs[j].of.day => d \in briefs

\* A review exists only after the week's last close, on top of all its daily briefs.
ReviewsComeLast ==
    reviews # {} => clock >= Due(LastOpen) /\ OpenDates \subseteq briefs

\* No brief is made of a trading day that has not reached 15:30.
BriefsAreDue == \A d \in briefs : clock >= Due(d) /\ d \in OpenDates

\* A review job that reports success left a review of every decision version.
SucceededReviewsComplete ==
    \A j \in JobIds : jobs[j].status = "succeeded" /\ jobs[j].of.type = "weekly_review" =>
        reviews = Versions

\* A review job that was carried out, and not recorded as a reuse, reports success
\* only when every decision version and the watchlists are reviewed.
ReviewRunCompletes ==
    [][\A j \in JobIds :
          jobs[j].status = "running" /\ jobs'[j].status = "succeeded"
          /\ jobs[j].of.type = "weekly_review" => reviews' = Versions /\ watched']_vars

\* Brief and review jobs live the life of independent cancellable jobs.  A replay
\* does not: its runner writes the outcome over a cancellation.
Lives(j) == jobs[j].status # "absent" /\ Formal(j)
Lifecycle == INSTANCE JobLifecycle WITH
    status <- [j \in JobIds |-> IF Lives(j) THEN jobs[j].status ELSE "absent"],
    cancel <- [j \in JobIds |-> Lives(j) /\ jobs[j].cancel]
FormalLifecycle == Lifecycle!Spec

\* Every brief and review job is finished in the end, unless its runner died: the
\* replays that are claimed before it, closed dates, failing dates and cancellations
\* hold nothing up for ever.
FormalJobsFinish ==
    \A j \in JobIds : (Formal(j) /\ jobs[j].status \in ActiveStatuses)
                      ~> (jobs[j].status \in TerminalStatuses \/ j \in lost)
=============================================================================
