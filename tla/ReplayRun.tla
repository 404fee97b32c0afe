----------------------------- MODULE ReplayRun ------------------------------
(***************************************************************************)
(* The staged replay of one past trading week: what the eligibility list   *)
(* offers, the enqueueing of a run with its stages, and the worker that    *)
(* executes a run in ONE transaction (execute_replay_job locks the job,    *)
(* the run and the stages first, and commits last), with the data repair,  *)
(* which commits what it fetches in transactions of its own.               *)
(*                                                                         *)
(* A stage is named by its place in the order of execution: 0 is the       *)
(* weekly selection, d the daily brief of date d, Review the last one.     *)
(* Time is the clock of OutputJobs: date d begins at 2d - 1, its 15:30 is  *)
(* 2d, and the next trading week begins at WindowEnd.                      *)
(***************************************************************************)
EXTENDS Naturals, FiniteSets

CONSTANTS LastDate,     \* the week's last calendar date (its Friday)
          OpenDates,    \* the week's trading days
          MinOpenDates, \* a week with fewer trading days is not replayed (3 in the code)
          Codes,        \* the classified stocks of the week's universe
          Peers,        \* a stock's sector: the codes it is reviewed with, itself included
          MaxRepair,    \* the most codes one repair fetches (400 for the selection, else 48)
          Asked,        \* bound: what callers ask for
          Keys, Clients,
          MaxRuns,      \* bound: replay runs
          MaxCollects,  \* bound: collections by others, behind a run's back
          MaxAborts     \* bound: worker deaths and failed transactions

ASSUME ReplayAssumption ==
    /\ LastDate \in Nat /\ MinOpenDates \in Nat \ {0} /\ MaxRepair \in Nat
    /\ OpenDates # {} /\ OpenDates \subseteq 1 .. LastDate
    /\ IsFiniteSet(Codes) /\ Codes # {}
    /\ Peers \in [Codes -> SUBSET Codes] /\ \A c \in Codes : c \in Peers[c]
    /\ Keys # {}
    /\ MaxRuns \in Nat /\ MaxCollects \in Nat /\ MaxAborts \in Nat

VARIABLES clock,    \* what time it is
          calendar, \* the week's calendar rows
          request,  \* each administrator's request
          runs,     \* each replay run, its job and its stages
          created,  \* runs inserted so far
          outputs,  \* <<run, stage>> whose replay output is stored
          picks,    \* each run's stored selection
          stored,   \* <<code, day>> whose newest bars are usable; day 0 is all history before
          flight,   \* what another collection has fetched and not yet stored
          view,     \* usable by the versions fetched until the running job read its clock
          base,     \* history: what was usable when it did
          late,     \* history: bars fetched by then and stored later
          worker,   \* the outputs thread and its open transaction
          collects, aborts

vars == <<clock, calendar, request, runs, created, outputs, picks, stored, flight, view, base,
          late, worker, collects, aborts>>

Dates == 1 .. LastDate
NoDate == 0
LastOpen == CHOOSE d \in OpenDates : \A e \in OpenDates : e <= d
WindowEnd == 2 * LastDate + 2
Review == LastDate + 1
StageIds == 0 .. Review
Days == {0} \cup OpenDates
Bars == Codes \X Days
RunIds == 1 .. MaxRuns

\* The replay tables: a decision set, a daily brief or a weekly review of a stage.
Outputs == RunIds \X StageIds

\* ReplayJobRequest: a dated or a catching-up daily replay, or a weekly one.
Requests == {[stage |-> s, day |-> NoDate, fill |-> FALSE] : s \in {"selection", "review"}}
            \cup {[stage |-> "daily", day |-> d, fill |-> FALSE] : d \in Dates}
            \cup {[stage |-> "daily", day |-> NoDate, fill |-> TRUE]}

\* The API lets no other request through.
ASSUME AskedAssumption == Asked \subseteq Requests

JobStatuses == {"absent", "queued", "running", "succeeded", "failed", "cancelled"}
Stages == [status: {"none", "queued", "succeeded", "failed", "skipped"},
           error: {"", "data", "other", "dependency"},
           repair: {"none", "completed", "partial", "failed", "rejected"}]
Runs == [of: Requests, key: Keys, job: JobStatuses, cancel: BOOLEAN,
         run: {"queued", "succeeded", "failed"}, stages: [StageIds -> Stages]]

NoStage == [status |-> "none", error |-> "", repair |-> "none"]
NewStage == [NoStage EXCEPT !.status = "queued"]
NoRun == [of |-> CHOOSE of \in Requests : of.stage = "selection", key |-> CHOOSE k \in Keys : TRUE,
          job |-> "absent", cancel |-> FALSE, run |-> "queued",
          stages |-> [s \in StageIds |-> NoStage]]
IdleRequest == [pc |-> "idle", of |-> NoRun.of, key |-> NoRun.key, answer |-> 0]
IdleWorker == [pc |-> "idle", run |-> 0, stages |-> NoRun.stages, made |-> {}, picks |-> {},
               missing |-> {}]

\* A collection's bars: usable or not, which of them were fetched again and stored by
\* someone else meanwhile, and whether the running job's clock was read before.
Flights == [bars: SUBSET Bars, good: BOOLEAN, newer: SUBSET Bars, since: BOOLEAN]
NoFlight == [bars |-> {}, good |-> TRUE, newer |-> {}, since |-> FALSE]

\* Type of every variable.
TypeOK ==
    /\ clock \in 0 .. WindowEnd
    /\ calendar \in {"incomplete", "ready", "conflicted"}
    /\ request \in [Clients -> [pc: {"idle", "offered", "insert", "answered"}, of: Requests,
                                key: Keys, answer: 0 .. MaxRuns]]
    /\ created \in 0 .. MaxRuns
    /\ runs \in [RunIds -> Runs]
    /\ outputs \subseteq Outputs
    /\ picks \in [RunIds -> SUBSET Codes]
    /\ stored \subseteq Bars /\ flight \in Flights
    /\ view \subseteq Bars /\ base \subseteq Bars /\ late \subseteq Bars
    /\ worker \in [pc: {"idle", "claimed", "open", "repair", "retry"}, run: 0 .. MaxRuns,
                   stages: [StageIds -> Stages], made: SUBSET StageIds, picks: SUBSET Codes,
                   missing: SUBSET Codes]
    /\ collects \in 0 .. MaxCollects
    /\ aborts \in 0 .. MaxAborts

\* The model starts before, in or after the week, and each stock's bars have been
\* collected up to some day by then, if at all.
Init ==
    /\ clock \in {0, 2 * LastOpen, WindowEnd}
    /\ calendar \in {"incomplete", "ready"}
    /\ request = [c \in Clients |-> IdleRequest]
    /\ runs = [r \in RunIds |-> NoRun]
    /\ created = 0
    /\ outputs = {}
    /\ picks = [r \in RunIds |-> {}]
    /\ \E collected \in SUBSET Codes, upto \in [Codes -> Days] :
          /\ \A c \in Codes : 2 * upto[c] <= clock
          /\ stored = {b \in collected \X Days : b[2] <= upto[b[1]]}
    /\ flight = NoFlight /\ view = {} /\ base = {} /\ late = {}
    /\ worker = IdleWorker
    /\ collects = 0 /\ aborts = 0

-----------------------------------------------------------------------------
(* Windows                                                                 *)

\* The time from which a stage is due: the selection from the close before the
\* week on, a brief from its 15:30, the review from the final 15:30.
DueFrom(stage, d) == CASE stage = "selection" -> 0
                       [] stage = "daily" -> 2 * d
                       [] OTHER -> 2 * LastOpen

\* classify_replay_window: every stage stays formal until the next trading week.
Window(stage, d, t) == IF t < DueFrom(stage, d) THEN "not due"
                       ELSE IF t < WindowEnd THEN "formal" ELSE "replay"

DueDates(t) == {d \in OpenDates : 2 * d <= t}
Replayable == Cardinality(OpenDates) >= MinOpenDates

\* list_eligible_weeks: weeks with a doubtful calendar are left out; a daily
\* replay is offered when any due date is past the formal window.
Offered(of, t) ==
    /\ calendar = "ready" /\ Replayable
    /\ of.stage = "daily" => /\ \E d \in DueDates(t) : Window("daily", d, t) = "replay"
                             /\ of.fill \/ of.day \in DueDates(t)
    /\ of.stage # "daily" => Window(of.stage, NoDate, t) = "replay"

\* The gates of enqueue.  A conflicted calendar has no open date at all.
Accepted(of, t) ==
    /\ calendar = "ready" /\ Replayable
    /\ of.stage = "daily" /\ ~ of.fill => of.day \in OpenDates
    /\ of.fill => DueDates(t) # {}
    /\ LET gate == IF of.fill THEN CHOOSE d \in DueDates(t) : \A e \in DueDates(t) : e <= d
                   ELSE of.day
       IN  Window(of.stage, gate, t) = "replay"

\* replay_stage_order with the dates of the daily stage: a stage brings the
\* stages it depends on; a review needs the brief of every trading day.
StagesOf(of, t) == {0} \cup (CASE of.stage = "selection" -> {}
                               [] of.stage = "review" -> OpenDates \cup {Review}
                               [] of.fill -> DueDates(t)
                               [] OTHER -> {of.day})

-----------------------------------------------------------------------------
(* The API                                                                 *)

others == <<outputs, picks, stored, flight, view, base, late, worker, collects, aborts>>

Tick == /\ clock < WindowEnd
        /\ clock' = clock + 1
        /\ UNCHANGED <<calendar, request, runs, created, others>>

\* The days of the week that an exchange's annual notice leaves open.
Notices == SUBSET Dates

\* reconcile_trading_calendar: rows on which both agree, or conflicted rows.
Reconciled(sse, szse) == IF sse = szse THEN "ready" ELSE "conflicted"

\* prepare_calendar, one request at a time: five rows are left as they are; else
\* both exchanges are asked, and without both notices nothing is stored.
PrepareCalendar ==
    /\ calendar = "incomplete"
    /\ \E szse \in Notices : calendar' = Reconciled(OpenDates, szse)
    /\ UNCHANGED <<clock, request, runs, created, others>>

\* list_eligible_weeks shows a caller what it may ask for.
Offer(c, of) ==
    /\ request[c].pc = "idle"
    /\ Offered(of, clock)
    /\ request' = [request EXCEPT ![c] = [IdleRequest EXCEPT !.pc = "offered", !.of = of]]
    /\ UNCHANGED <<clock, calendar, runs, created, others>>

\* What was asked for does not matter any more.
Answered(k, r) == [IdleRequest EXCEPT !.pc = "answered", !.key = k, !.answer = r]

WithKey(k) == {r \in RunIds : runs[r].job # "absent" /\ runs[r].key = k}

\* enqueue up to its look for the key: the run that has it is the answer,
\* whatever it was asked for.
Enqueue(c, of, k) ==
    /\ \/ request[c].pc = "idle"
       \/ request[c].pc = "offered" /\ request[c].of = of
    /\ Accepted(of, clock)
    /\ \/ /\ WithKey(k) = {}
          /\ request' = [request EXCEPT ![c] = [pc |-> "insert", of |-> of, key |-> k,
                                               answer |-> 0]]
       \/ \E r \in WithKey(k) :
             request' = [request EXCEPT ![c] = Answered(k, r)]
    /\ UNCHANGED <<clock, calendar, runs, created, others>>

\* Mutant: the job's key is not unique.
InsertAnyway(c) ==
    /\ request[c].pc = "insert"
    /\ created < MaxRuns
    /\ created' = created + 1
    /\ runs' = [runs EXCEPT ![created + 1] =
                  [NoRun EXCEPT !.of = request[c].of, !.key = request[c].key, !.job = "queued",
                     !.stages = [s \in StageIds |-> IF s \in StagesOf(request[c].of, clock)
                                                    THEN NewStage ELSE NoStage]]]
    /\ request' = [request EXCEPT ![c] = Answered(@.key, created + 1)]
    /\ UNCHANGED <<clock, calendar, others>>

\* The run, its stages and its job are inserted in one transaction; if another
\* request has inserted the key meanwhile all of it is rolled back, with an error.
Insert(c) ==
    LET of == request[c].of
        new == [NoRun EXCEPT !.of = of, !.key = request[c].key, !.job = "queued",
                  !.stages = [s \in StageIds |-> IF s \in StagesOf(of, clock) THEN NewStage
                                                 ELSE NoStage]]
    IN  /\ request[c].pc = "insert"
        /\ \/ /\ WithKey(request[c].key) = {}
              /\ created < MaxRuns
              /\ created' = created + 1
              /\ runs' = [runs EXCEPT ![created + 1] = new]
              /\ request' = [request EXCEPT ![c] = Answered(@.key, created + 1)]
           \/ /\ WithKey(request[c].key) # {}
              /\ request' = [request EXCEPT ![c] = IdleRequest]
              /\ UNCHANGED <<runs, created>>
        /\ UNCHANGED <<clock, calendar, others>>

NextRequest(c) ==
    /\ request[c].pc # "idle"
    /\ request' = [request EXCEPT ![c] = IdleRequest]
    /\ UNCHANGED <<clock, calendar, runs, created, others>>

\* request_cancel waits for the row: while the worker's transaction is open it
\* holds the lock, and afterwards the job is finished.
Cancel(r) ==
    /\ runs[r].job \in {"queued", "running"} /\ ~ runs[r].cancel
    /\ ~ (worker.run = r /\ worker.pc \in {"open", "repair", "retry"})
    /\ runs' = [runs EXCEPT ![r].cancel = TRUE,
                            ![r].job = IF @ = "queued" THEN "cancelled" ELSE @]
    /\ UNCHANGED <<clock, calendar, request, created, others>>

Api == \/ Tick
       \/ PrepareCalendar
       \/ \E c \in Clients :
             \/ \E of \in Asked : Offer(c, of) \/ \E k \in Keys : Enqueue(c, of, k)
             \/ Insert(c)
             \/ NextRequest(c)
       \/ \E r \in RunIds : Cancel(r)

-----------------------------------------------------------------------------
(* Market data                                                             *)

table == <<clock, calendar, request, runs, created, outputs, picks>>

\* The bars of some codes up to some day.
BarsOf(codes, upto) == {b \in codes \X Days : b[2] <= upto}

\* Newer versions on top: bars become usable, or are no longer when the new versions
\* are invalid or the sources contradict each other.
Put(bars, new, good) == IF good THEN bars \cup new ELSE bars \ new

\* Another process collects: a stock's bars are stamped with the time at which their
\* request is sent, and stored later, if they bring a change.
CollectFetch ==
    /\ collects < MaxCollects /\ flight.bars = {}
    /\ collects' = collects + 1
    /\ \E c \in Codes, d \in Days, good \in BOOLEAN :
          LET got == BarsOf({c}, d)
              changed == IF good THEN got \ stored ELSE got \cap stored
          IN  /\ 2 * d <= clock /\ changed # {}
              /\ flight' = [bars |-> changed, good |-> good, newer |-> {},
                            since |-> worker.pc # "idle"]
    /\ UNCHANGED <<table, stored, view, base, late, worker, aborts>>

\* Its versions are not the newest of bars fetched again meanwhile; to the running
\* job they are, unless they were fetched after it read its clock.
CollectStore ==
    /\ flight.bars # {}
    /\ stored' = Put(stored, flight.bars \ flight.newer, flight.good)
    /\ IF worker.pc = "idle" \/ flight.since THEN UNCHANGED <<view, late>>
       ELSE /\ view' = Put(view, flight.bars, flight.good)
            /\ late' = late \cup flight.bars
    /\ flight' = NoFlight
    /\ UNCHANGED <<table, base, worker, collects, aborts>>

Collect == CollectFetch \/ CollectStore

-----------------------------------------------------------------------------
(* The worker                                                              *)

\* Mutant: the poll looks for a row that was never started, whatever its status.
NeverStarted == {r \in RunIds : runs[r].job \in {"queued", "cancelled"}}

Queued == {r \in RunIds : runs[r].job = "queued"}

\* claim_next_replay_job, a transaction of its own.  The clock read before it is
\* the run's actual_run_at: the newest versions fetched by then are what it reads.
Claim ==
    /\ worker.pc = "idle"
    /\ \E r \in Queued :
          /\ \A q \in Queued : r <= q
          /\ runs' = [runs EXCEPT ![r].job = "running"]
          /\ worker' = [IdleWorker EXCEPT !.pc = "claimed", !.run = r]
    /\ view' = stored /\ base' = stored
    /\ flight' = [flight EXCEPT !.bars = @ \ flight.newer, !.newer = {}, !.since = FALSE]
    /\ UNCHANGED <<clock, calendar, request, created, outputs, picks, stored, late, collects,
                   aborts>>

background == <<table, stored, flight, view, base, late, collects, aborts>>

\* execute_replay_job begins: the rows are locked and read.
Open ==
    /\ worker.pc = "claimed"
    /\ worker' = [worker EXCEPT !.pc = "open", !.stages = runs[worker.run].stages]
    /\ UNCHANGED background

Waiting == {s \in StageIds : worker.stages[s].status = "queued"}
NextStage(s) == s \in Waiting /\ \A q \in Waiting : s <= q

\* Mutant: every stage rests on the selection only.
DependsOnSelection(s) == IF s = 0 THEN {} ELSE {0}

\* The stages whose failure stops stage s: the selection, and for the review
\* every brief as well.  A brief does not depend on the brief of another day.
Dependencies(s) == IF s = 0 THEN {} ELSE IF s = Review THEN StageIds \ {Review} ELSE {0}
Blocked(s) == \E q \in Dependencies(s) : worker.stages[q].status \in {"failed", "skipped"}

Skip ==
    /\ worker.pc = "open"
    /\ \E s \in Waiting :
          /\ NextStage(s) /\ Blocked(s)
          /\ worker' = [worker EXCEPT !.stages[s].status = "skipped",
                                      !.stages[s].error = "dependency"]
    /\ UNCHANGED background

\* Mutant: versions are not bounded by the real time of retrieval.
VisibleNow == stored

\* The usable bars by what a calculation reads: the newest versions fetched at or
\* before actual_run_at.
Visible == view

\* What the calculations need: the selection the history of the whole universe, a
\* brief that of the selected codes and its day, the review every day of their peers.
SelectionNeeds == Codes \X {0}
BriefNeeds(d) == worker.picks \X {0, d}
ReviewNeeds == (UNION {Peers[c] : c \in worker.picks}) \X Days
Needs(s) == IF s = 0 THEN SelectionNeeds ELSE IF s = Review THEN ReviewNeeds ELSE BriefNeeds(s)

\* The codes an incomplete stage reports: bars are absent, or not usable.
Missing(s) == {b[1] : b \in Needs(s) \ Visible}

\* The stage's output is flushed into the open transaction.
Done(s) == [worker EXCEPT !.pc = "open", !.stages[s].status = "succeeded", !.made = @ \cup {s}]

\* The rules select some targets.
PersistSelection(s) ==
    s = 0 /\ \E sel \in (SUBSET Codes) \ {{}} : worker' = [Done(s) EXCEPT !.picks = sel]
PersistBrief(s) == s \in OpenDates /\ worker.picks # {} /\ worker' = Done(s)
PersistReview(s) == s = Review /\ clock >= 2 * LastOpen /\ worker.picks # {} /\ worker' = Done(s)

\* All is there: the stage's output is made.
Calculate(s) == Missing(s) = {} /\ (PersistSelection(s) \/ PersistBrief(s) \/ PersistReview(s))

FailStage(s, error) ==
    worker' = [worker EXCEPT !.pc = "open", !.stages[s].status = "failed",
                             !.stages[s].error = error]

\* No target, no classification, or any other exception that names no missing codes:
\* no repair is tried.
FailOther ==
    /\ worker.pc \in {"open", "retry"}
    /\ \E s \in Waiting : NextStage(s) /\ ~ Blocked(s) /\ FailStage(s, "other")
    /\ UNCHANGED background

\* The first attempt: codes without data ask for a repair, once per stage.
Attempt ==
    /\ worker.pc = "open"
    /\ \E s \in Waiting :
          /\ NextStage(s) /\ ~ Blocked(s)
          /\ \/ Calculate(s)
             \/ /\ Missing(s) # {}
                /\ worker' = [worker EXCEPT !.pc = "repair", !.missing = Missing(s)]
    /\ UNCHANGED background

\* The day a repair fetches up to.  Every stage of a run but the briefs and the
\* review carries the cutoff of the stage that was asked for.
AsOf(s) == LET of == runs[worker.run].of
           IN  IF s \in Dates THEN s
               ELSE IF of.stage = "review" THEN LastOpen
               ELSE IF of.fill THEN LastOpen
               ELSE of.day

\* A repair that confirmed nothing, or was rejected, fails the stage.
Repaired(s, result) ==
    IF result \in {"completed", "partial"}
    THEN [worker EXCEPT !.pc = "retry", !.missing = {}, !.stages[s].repair = result]
    ELSE [worker EXCEPT !.pc = "open", !.missing = {},
                        !.stages[s] = [status |-> "failed", error |-> "data",
                                       repair |-> result]]

\* Too many codes are rejected.  Else the collection brings usable bars for some of
\* the codes, in its own transactions, and confirms some of these, while contradictory
\* sources spoil others.  All this is fetched after the run's clock.  (Sources deliver
\* whole histories, in versions not stored before.)
Repair ==
    /\ worker.pc = "repair"
    /\ \E s \in Waiting : \E delivered \in SUBSET worker.missing :
       \E got \in SUBSET delivered, spoilt \in SUBSET (worker.missing \ delivered),
          result \in {"completed", "partial", "failed", "rejected"} :
          /\ NextStage(s)
          /\ result = "rejected" <=> Cardinality(worker.missing) > MaxRepair
          /\ result = "rejected" => delivered = {} /\ spoilt = {}
          /\ result = "completed" => got = worker.missing
          /\ result = "partial" => got # {} /\ got # worker.missing
          /\ stored' = (stored \cup BarsOf(delivered, AsOf(s))) \ BarsOf(spoilt, AsOf(s))
          /\ flight' = [flight EXCEPT !.newer = @ \cup (flight.bars \cap
                                                  BarsOf(delivered \cup spoilt, AsOf(s)))]
          /\ worker' = Repaired(s, result)
    /\ UNCHANGED <<table, view, base, late, collects, aborts>>

\* The second attempt, with the same actual_run_at.
Retry ==
    /\ worker.pc = "retry"
    /\ \E s \in Waiting :
          /\ NextStage(s)
          /\ \/ Calculate(s)
             \/ Missing(s) # {} /\ FailStage(s, "data")
    /\ UNCHANGED background

Outcome(stages) == IF \E s \in StageIds : stages[s].status \in {"failed", "skipped"}
                   THEN "failed" ELSE "succeeded"

\* The commit.  A cancellation recorded after the claim is not looked at.
Commit ==
    LET r == worker.run
        outcome == Outcome(worker.stages)
    IN  /\ worker.pc = "open" /\ Waiting = {}
        /\ runs' = [runs EXCEPT ![r].stages = worker.stages, ![r].run = outcome,
                                ![r].job = outcome]
        /\ outputs' = outputs \cup ({r} \X worker.made)
        /\ picks' = [picks EXCEPT ![r] = worker.picks]
        /\ worker' = IdleWorker
        /\ view' = {} /\ base' = {} /\ late' = {}
        /\ UNCHANGED <<clock, calendar, request, created, stored, flight, collects, aborts>>

\* The process dies, or a statement fails and poisons the transaction: all of
\* it is rolled back, and the claimed job stays as it is.
Abort ==
    /\ worker.pc # "idle"
    /\ aborts < MaxAborts
    /\ aborts' = aborts + 1
    /\ worker' = IdleWorker
    /\ view' = {} /\ base' = {} /\ late' = {}
    /\ UNCHANGED <<table, stored, flight, collects>>

Execute == Claim \/ Open \/ Skip \/ Attempt \/ FailOther \/ Repair \/ Retry \/ Commit

Next == Api \/ Collect \/ Execute \/ Abort

Spec == Init /\ [][Next]_vars

-----------------------------------------------------------------------------
(* Properties                                                              *)

StagesAsked(r) == {s \in StageIds : runs[r].stages[s].status # "none"}
Succeeded(r) == {s \in StageIds : runs[r].stages[s].status = "succeeded"}

\* What the records of one run say of each other.
Agree(r) ==
    LET stages == runs[r].stages
    IN  /\ {s \in StageIds : <<r, s>> \in outputs} = Succeeded(r)
        /\ IF runs[r].job \in {"succeeded", "failed"}
           THEN /\ runs[r].run = runs[r].job
                /\ runs[r].job = "succeeded" <=> Succeeded(r) = StagesAsked(r)
                /\ \A s \in StagesAsked(r) : stages[s].status # "queued"
           ELSE /\ runs[r].run = "queued"
                /\ \A s \in StagesAsked(r) : stages[s] = NewStage
        /\ Succeeded(r) # {} => 0 \in Succeeded(r) /\ picks[r] # {}
        /\ Review \in Succeeded(r) => OpenDates \subseteq Succeeded(r)
        /\ \A d \in OpenDates : stages[d].status = "skipped" => 0 \notin Succeeded(r)

\* A run's records agree with each other at every moment anyone can read them:
\* it is untouched until its transaction commits, then job and run say what the
\* stages say; the stored outputs are those of the stages that succeeded; a
\* brief rests on the run's selection, a review on every trading day's brief;
\* and one day's failure never costs another day its brief
\* (execute_replay_job, _materialize_replay_stage).
HonestReplay == \A r \in RunIds : Agree(r)

\* A run shows the data of the time when it read its clock, however long it takes
\* and whatever is collected, revised or repaired meanwhile: a stage succeeds only on
\* bars usable then, and fails for missing data only if some were not (each calculation
\* bounds fetched_at by actual_run_at).  What had been fetched and was stored only
\* later, `late`, may be seen by some stages and missed by others.
OneVintage == worker.pc # "idle" => \A s \in StageIds :
    /\ worker.stages[s].status = "succeeded" => Needs(s) \subseteq base \cup late
    /\ worker.stages[s].error = "data" => ~ Needs(s) \subseteq base \ late

\* What a caller is told holds: a replay that the eligibility list offered is
\* accepted whenever it is asked for, and the answer to a request is the only
\* run of its key (list_eligible_weeks, enqueue, uq_job_idempotency).
RequestsHold ==
    /\ \A c \in Clients :
          /\ request[c].pc = "offered" => Accepted(request[c].of, clock)
          /\ request[c].pc = "answered" => WithKey(request[c].key) = {request[c].answer}
    /\ \A k \in Keys : Cardinality(WithKey(k)) <= 1

Ended(r) == runs[r].job \in {"succeeded", "failed", "cancelled"}

\* What has ended stays as it is: nothing that a caller, another run or a lost
\* transaction does afterwards changes a run's records, its outputs or its
\* selection, and nothing is ever made for a run cancelled before its claim
\* (request_cancel, claim_next_replay_job, execute_replay_job).
ReplayIsFinal == [][\A r \in RunIds :
    Ended(r) => /\ runs'[r] = runs[r] /\ picks'[r] = picks[r]
                /\ \A s \in StageIds : <<r, s>> \in outputs' <=> <<r, s>> \in outputs]_vars

\* After a repair that fetched every missing code, the retry does not fail for
\* missing data (replay_stage/repair.py: the bars up to the stage boundary "may
\* be consumed by the retry").
RepairIsConsumed == \A r \in RunIds, s \in StageIds :
    runs[r].stages[s].repair = "completed" => runs[r].stages[s].error # "data"
=============================================================================
