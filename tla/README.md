# A TLA+ model of PAWE

PAWE publishes, for every trading week, a short list of stocks to watch: rules
propose it, an administrator approves and publishes it, and the system then
writes a brief on every trading day and a review after the last one. Users may
follow a few stocks of their own. This directory holds TLA+ modules of the parts
that decide *what happens and in which order*, the TLC configurations that check
them on small instances, and TLAPS proofs of theorems that hold for every
instance. What a brief says, a technical indicator and the protocol of a data
source are data to these modules.

Contents: [inventory](#1-the-system) · [modules](#2-the-modules) ·
[runs](#3-what-tlc-checks) · [proofs](#4-what-tlaps-proves) ·
[divergences](#5-where-the-code-differs-from-its-documents) ·
[not modelled](#6-what-is-not-modelled) · [what could follow](#7-what-could-follow)

## 1. The system

PostgreSQL holds the shared state. Three kinds of processes write it: the HTTP API
(`apps/api/pawe_api`, many concurrent requests), one worker process
(`services/worker/pawe_worker/main.py`) with an APScheduler whose default pool
runs several jobs at a time and whose "outputs" pool has one thread, and scripts
that operators start (`scripts/`). Apart from the checkpoint file of the
collection script (and its temporary file) they share nothing else: every interaction is a row, a lock or a
constraint.

| component | state | operations | what makes it hard | what makes it correct |
|---|---|---|---|---|
| job queue (`jobs/repository.py`) | rows of `jobs` | enqueue weekly selections, briefs, reviews; cancel; claim; finish; run directly | look-ups without locks before an insert; a cancellation against the closing update; retries | one active selection of a week; a finished job stays finished; a cancellation wins; success means there is an output |
| worker: weekly | the poller's and the pre-open task's progress | prepare data, claim, run the rules, close | a job prepared before it is claimed; two threads that run the rules of one week; a crash; a clock read minutes before it is used | one decision for a week; no decision for a job nobody claimed; no decision after the week |
| worker: outputs | the one thread's progress, start-up catch-up | queued and scheduled briefs, catch-ups, reviews, replays | each brief and each review is a transaction of its own; one date fails and the next goes on; replays are preferred | nothing is made early; the review comes after all briefs; success is complete |
| decisions (`decisions/`) | sources, versions of the list, approvals, publications, the week's status | approve, modify, reject, publish; the rules store a source | several administrators with idempotency keys; the rules run again every morning | one active list, of what was approved; a published list is final |
| watchlist (`watchlist/`) | memberships, daily and weekly items | add, remove, make the items of a day and of the week | the limit of five against concurrent additions; items made late from memberships that changed since | the limit; exactly the items of what was followed at the close |
| experiments (`experiments/governance.py`, `state.py`) | proposals, experiments, runs, approvals | propose, validate, queue, start, complete, approve, activate, roll back | administrators who act on what they read earlier | no activation without evidence and approval |
| staged replay (`replay_stage/`, `execute_replay_job`) | replay runs, their stages, replay outputs | offer weeks, enqueue, execute, repair and retry once | many stages in one long transaction while bars are collected behind its back; a stage that fails; a lost transaction | records, stages and outputs agree; a run shows the data of one moment; an offer is kept |
| daily briefs, weekly evaluation (`briefs/`, `evaluation/`) | briefs, reviews of each version | generate, persist | idempotent re-runs | one of each; see the outputs thread |
| rules (`rules/`) | the market state of the last week | gates, scores, ranking, portfolio, next state | one greedy pass that meets caps, quotas and reserved slots | the list keeps the limits of `docs/01-rule-spec-v9.md`; ranks prevail; a shortage is real where the sector limit alone is at work |
| features (`features/`) | none (pure) | indicators, peers, top fifth, coverage | what was known when | nothing read was fetched after the run's clock |
| market data (`data/`, `scripts/ingest_daily_bars.py`) | bars, the checkpoint file, snapshots and their inputs | reconcile and store a stock, mark, resume, materialize, freeze | stock-wise transactions, a crash between them and the checkpoint, two runs over one file and one temporary file, bars revised while a snapshot reads them, snapshots by hand | no stock is forgotten; a snapshot is complete |
| AI (`ai/`) | invocations, credentials | call, validate, degrade | an external model | a failure never changes the formal result |
| authentication (`auth/`), HTTP API, database schema, web client, scripts, deployment | sessions, users | | | |

`PROJECT.json` lists the same components with what is modelled of each, and the
hazards with the line of the source at which each one bites.

How they interact: the API *enqueues* rows that the worker *claims*; the worker
stores the rule decision that the API's approval locks and supersedes by a
published list; the publication lets the outputs thread write briefs; the last
brief lets it write the reviews, and after them the watchlists' items. Before the
rules can run, the poller collects the week's bars and freezes a snapshot; a replay
reads the same bars later, bounded by when they were fetched, and may collect
missing ones.

## 2. The modules

An action is one transaction, or one statement of a transaction that can
interleave with others under READ COMMITTED. A row lock that is taken before
anything is read makes a transaction one step; a look-up without a lock is a
step of its own, and what it read is kept in the actor's local state
(`request`, `poller`, `preopen`, `runner`, `run`, `task`, `view`).

| module | models | state |
|---|---|---|
| `JobTable` | the `jobs` table, its two constraints, enqueue requests after their first look, claim, cancel, finish | `jobs`, `created`, `request` |
| `WeeklyJobs` (EXTENDS `JobTable`) | weekly selections: API, poller, pre-open task | and `poller`, `preopen`, `decision`, `ended` |
| `OutputJobs` (EXTENDS `JobTable`) | briefs, reviews, replays and scheduled tasks on the outputs thread, over a week of dates | and `runner`, `published`, `briefs`, `reviews`, `watched`, `clock`, `starting` |
| `JobLifecycle` | the abstract life of one job | `status`, `cancel` |
| `Decisions` | the SQL transactions that approve and publish, the week's status, and the worker threads that run the rules again | `rule`, `versions`, `week`, `approvals`, `events`, `request`, `run` |
| `DecisionLedger` | the abstract, atomic ledger (`decisions/ledger.py`, which the tests use in place of the database) | `sources`, `versions`, keys |
| `Watchlist` | memberships and items | `members`, `request`, `task`, `daily`, `weekly`, `done`, `clock` |
| `ReplayRun` | one past week's replays: calendar, offers, enqueueing, the worker's transaction with its stages, calculations, repair and retry | `runs`, `outputs`, `picks`, `worker`, `stored`, `flight`, `view`, `request`, `clock`, `calendar`; histories `base`, `late` |
| `Collection` | the collection of bars by command-line runs and by the weekly preparation, the checkpoint file, snapshots and inputs | `bars`, `file`, `tmp`, `cli`, `prep`, `scan`, `snapshots`, `clock`; histories `done`, `skipped` |
| `Selection` | the rules: gates, peers, ranking, portfolio, market state | `pool`, `market`, `ranked`, `list` |
| `Experiments` | governance | `proposal`, `experiment`, `runs`, `approvals`, `view` |
| `MC*` | the small instances | |
| `*_proofs` | theorems and lemmas: `WeeklyJobs`, `OutputJobs`, `Decisions`, `Watchlist`, `Experiments`, `ReplayRun`, `Collection`, `Selection` | |

Some correspondences that are not obvious from the names:

* **Rows are numbered in creation order**, so `ORDER BY created_at` is the order
  of identifiers; status `"absent"` is a row that does not exist yet.
  `started` and `cancel` stand for `started_at` and `cancel_requested_at` being
  set. Error texts, progress and events of a row are left out. One consequence:
  `finish_output_job` does not look at the status, and rewrites `finished_at` and
  the message of a row that was cancelled meanwhile; status and cancellation, the
  two things modelled, it leaves as they were, and `Finish` says so.
* **Enqueueing** is `EnqueueLookup` (key, finished output), `EnqueueActive` (an
  active job) and `EnqueueInsert` (insert, or the constraint that refuses it).
  The partial unique index covers weekly selections only.
* **The poller** picks the oldest queued job *without claiming it*, prepares its
  data, and claims it in a transaction that checks the status again
  (`ClaimPicked`). `open` is the answer of the window gate, from the clock at
  the pick.
* **The pre-open task** runs the same rules in a transaction of its own and
  inserts its job as already finished.
* **The outputs thread** keeps in `runner` what is left of the current job or
  task: dates of briefs, versions to review. A review that follows a brief
  (`nested`) returns to the remaining dates and swallows its errors.
* **A replay** holds its job's row lock for one long transaction: a cancellation
  can come between claim and execution, and nobody reads it. `OutputJobs` has it as
  one step on the outputs thread; `ReplayRun` opens that step: what the transaction
  has written so far is in `worker`, and `Commit` publishes it at once. Only what a
  repair fetches (`stored`) is committed on the way, by the collection's own
  transactions.
* **What a replay may read** is of every bar the newest version whose `fetched_at` is at
  or before the clock it read first: `view` is what is usable by these versions,
  `stored` by the newest ones. `fetched_at` is taken before the request is sent, so that a
  collection's bars (`flight`) may be fetched before that clock and stored after it: the
  replay then sees them, and they are in `late`, a history variable; `base`, another, is
  what was usable when the clock was read. If a repair stores newer versions of
  bars in flight meanwhile, the older ones do not become the newest (`newer`), but to
  a replay whose clock lies between they are what is visible. A collection, and so a
  repair, can also take usable bars away, by versions that are invalid or sources that
  contradict each other; such codes count as missing and ask for a repair as well.
* **Clock of `ReplayRun`**: that of `OutputJobs`; a stage is a date, 0 is the
  selection and `Review` the last. Day 0 of a stock's bars is all the history before
  the week.
* **A stock of `Collection`** is its place in the order of codes. `bars` keeps of each
  of its versions whether it is *usable*: whether the stock would pass the coverage
  check of the snapshot (61 bars, amounts, agreeing sources). What three sources
  deliver is a set of dates each, and a kind of disagreement; `Outcomes` runs the
  code's reconciliation over all of them and keeps what matters later. `done` and
  `skipped` are history: stocks a second source once confirmed, and stocks that an
  operator's `--code` or `--after-code` jumped over.
* **The checkpoint** is written in three steps: `Mark` opens, and so empties, the
  temporary file, whose name all runs of a window share; `Write` writes to what was
  opened, which another run may have moved over the checkpoint meanwhile (`fd`), and a
  text over a longer one leaves it `torn`; `Replace` moves whatever has the temporary
  name, and dies if nothing has it. A checkpoint that cannot be parsed stops the runs
  that would resume from it (`Start`).
* **A snapshot** is read stock by stock (`ReadStock`, in `scan`, by the worker and by a
  script run by hand), while collections go on; `Lock` checks the coverage and takes
  the time of the lock, `Persist` is a transaction of its own. Of a stock that had
  bars when the worker began to read, some version is read (`base`): not always the last
  one stored, since overlapping collections store in another order than they fetch. The latest snapshot is the one locked last, which need not be the one stored
  last (`IsLatest`); between its look-up and the storing of its inputs another may come.
* **`Selection`** reduces the eight hard gates to one Boolean and the points no other
  stock influences to a number. Today's feature builder sets no promotion,
  exploration, elastic, hot or unexhausted flag, and answers every week with degraded
  metrics, so that production never leaves its first market state; the rules take
  both as inputs, and the module gives them all. The code sorts and then loops;
  the module says where each stock stands (`RankBy`: in the i-th place is the one
  that i - 1 others precede) and what is chosen after each place (`Chosen`, a
  recursive function, whose last value is the `Pass`).
* **Time** in `OutputJobs` is 2 instants for each date (its beginning, 15:30), in
  `Watchlist` 3 (morning, trading, evening), in `WeeklyJobs` only whether a
  week's formal window is over.
* **`Decisions` is one week**, since every key, lock and constraint is a week's.
  The rule is the only source: no production code stores an AI decision. With two
  sources, two approvals would lock different rows and could both create a list;
  `Acceptable` locks the one there is.
* `RulesCommit` sets the week's status to `awaiting_approval` whatever it was
  (`_prepare_week`), unless the value read was that already, in which case the
  ORM emits no UPDATE.
* **Requests of a watchlist** take their time (`now`) before they wait for a lock.
  Two assumptions on durations are named where they are used: `Settled` (the
  download before a task's read outlasts requests that began before the close)
  and the guard of `Tick` (a request does not outlast a whole part of a day).

`DecisionLedger` and `JobLifecycle` are the abstract specifications; `LedgerSpec`
and `LifecycleSpec` are the refinements, both model-checked, and proved where
section 4 says so. `JobLifecycle` is implemented twice: by the weekly queue
(`LifecycleSpec` of `WeeklyJobs`) and by the brief and review jobs of the outputs
thread (`FormalLifecycle` of `OutputJobs`, whose mapping shows no row to the abstract
specification that is a replay's: a replay's runner writes its outcome over a
cancellation, which no `JobLifecycle` allows). `FormalLifecycle` is a theorem and in no
run; as a `PROPERTY` of `output_jobs.cfg` TLC finds it true as well. The ledger's publication keys are mapped from the events that
changed a status (`first`: `published_at` equals the event's creation time); a
publication retried with a fresh key adds an event that the ledger does not see.

Operators whose comment begins with "Mutant" are plausible mistakes of the code
(a dropped guard, a missing check under a lock). They are not part of any
specification; `PROJECT.json` says which definition each one replaces and which
property then fails.

## 3. What TLC checks

| run | bounds | properties |
|---|---|---|
| `weekly_jobs` | 1 week, 2 clients, 3 rows, 1 crash | `OneActivePerWeek`, `RunningHasRunner`, `OnlyClaimedJobsDecide`, `SucceededHasDecision`, `DecisionIsFinal`, `LifecycleSpec` |
| `weekly_progress` | 2 weeks, 1 client, 2 rows, 1 crash, fairness | `AnswerOfWeek`, `JobsFinish` |
| `output_jobs` | dates 1 to 3 of which 2 is closed, 2 versions, 2 rows, 1 crash | `ReviewsComeLast`, `SucceededBriefsExist`, `BriefsAreDue`, `ReviewRunCompletes` |
| `output_progress` | 1 date, 2 rows, 1 crash, fairness | `FormalJobsFinish` |
| `decisions` | 2 administrators, 2 keys, 2 worker threads, 7 commands | `OneList`, `ListsAreApproved`, `WeekNotAhead`, `PublishedListIsFinal`, `LedgerSpec` |
| `watchlist` | 1 user, limit 1, 2 stocks, 2 requests, 2 memberships, 3 dates of which 2 is closed | `FollowLimit`, `DailyItemsExact`, `DailyWithinLimit`, `WeeklyWithinMembership` |
| `experiments` | 2 experiments, 2 administrators | `EvidenceFirst`, `RunsMatchStatus`, `ApprovalsAreInformed` |
| `replay_run` | 2 trading days, 2 stocks of one sector, repairs of 1 stock, 2 administrators, 1 key, room for 2 runs, a daily and a review replay asked for, 1 foreign collection, 1 lost transaction; at most 1 request under way while a job is executed | `HonestReplay`, `OneVintage`, `RequestsHold`, `ReplayIsFinal` |
| `collection` | 2 stocks, 2 dates, 2 operators, batches of 1 or of all, 2 activities (command-line runs of any kind, preparations, snapshots by hand), 3 versions, 2 locked contents, 3 materializations | `NoStockForgotten`, `SnapshotsAreWhole` |
| `selection` | pools of at most 6 stocks of 6 sorts, all market states, target 5, 2 per sector | `PortfolioIsLawful`, `BetterRanksPrevail`, `MainShortageIsReal` |
| `output_review_partial`, `replay_repair` | small instances of `OutputJobs` and `ReplayRun` | one each, violated: section 5 |

Each module's `TypeOK` is checked in its first run, except for two that only the
proofs state: `Selection`'s types are a part of `WeekOK`, and the `TypeOK` of
`ReplayRun` is its theorem `TypeCorrect`. The properties are stated in
words where they are defined.

**Why the bounds are enough.** Every race in the code is between two actors over
one row or one key, so two of each suffice to show it; a third row lets a new job
follow two that met (`weekly_jobs`), and a second week shows answers that belong
to another week. Two versions are the least at which a review can be half done;
two open dates with a closed one between them, the least at which "earlier
trading days" is not "yesterday". A limit of one stock is the least that two
additions can break; users do not interact, so there is one. Bounds with a name
(`MaxJobs`, `MaxCrashes`, `MaxMembers`, `Asked`) appear in guards and are marked
as bounds where they are declared.

Two trading days are the least at which a review needs more than one brief and one
day's failure can spare the other; two stocks and a repair limit of one show
repairs that are complete, partial, rejected. `MaxRuns` is 2 although one key lets only one run be
created: the second is room for the insert that the race of the two administrators
would make if the key were not unique. A replay's execution and a request meet only in
the jobs row, of which the request reads the key and that it exists, and the execution
nothing that a request writes. So `replay_run` carries the one state constraint of the
project, `OneAtATime`: the two requests race while the worker is idle, and while it
executes a job one of them at most is under way.

Batches of one of two stocks, or of all, let a run stop in the middle, resume, and
meet another that is behind or ahead of it. `MaxStarts` counts command-line runs,
preparations and snapshots by hand together, since every hazard named here is one of
two activities: two runs over one temporary file, a run that revises bars while worker or
script read them, a preparation and a snapshot by hand, a preparation that finds what
one that died has left. Three versions show a usable one replaced by one that is not, and
the other way round; two locked contents show a snapshot by hand stored between the
worker's lock, its storing, its look-up and its inputs; three materializations are those
of the code.

Pools of six stocks give a top fifth of two, so that its bonus counts, and leave more
stocks than places; the six sorts hold every cap, quota and flag at least once, and the
pass must choose between them at every size from 1 to 5.

Symmetry is declared on clients, administrators and other values that nothing
compares; not in the runs with liveness, and not on the stocks of `Collection`,
whose order counts.

**Fairness.** `FairSpec` of `WeeklyJobs` is weak fairness of the poller: the
scheduler fires it at an interval, with one instance at a time, so that it takes
the next step of its job as long as it has one. Requests and the pre-open task are
not fair. `FairSpec` of `OutputJobs` is weak fairness of the thread's work, and
strong fairness of the two claims: between two polls the thread may be busy with a
scheduled task, over and over, but it is free again and again, and the scheduler
runs the due poll on it. With the finitely many replays of an instance, briefs
and reviews are not starved for ever. No fairness is assumed of crashes, clocks or
people.

`experiments`, the replay runs and `collection` switch the deadlock
check off: with all proposals refused as invalid, the week over and every request
answered, or the bounds on starts and locks spent, these systems have nothing
more to do. All other specifications always have a step. No liveness is claimed of
`ReplayRun` and `Collection`: a lost replay transaction strands its job for good, and
a collection goes on only when an operator starts it.

Two runs end in a violation; section 5 describes them.

## 4. What TLAPS proves

Every safety property that a passing run checks (invariant, action property,
refinement) is also a theorem. The theorems hold for
any number of weeks, keys, clients, rows, users, stocks, dates, administrators and
crashes, under the assumptions on constants that the modules name; TLC evaluates each
on the instances.

| assumption | what it asks, beyond that bounds are numbers |
|---|---|
| `JobTableAssumption` | there is a week and a key to ask for; "no date" is no date |
| `WeeklyJobsAssumption` | the keys that the worker makes up are keys |
| `DecisionsAssumption`, `NoneAssumption` | the baselines and the eligible lists are lists; versions are numbered from 1; "none" is nothing that could be stored |
| `OutputJobsAssumption` | the dates of the week are numbered in order and some are open; there are finitely many decision versions, at least one |
| `WatchlistAssumption` | open dates are numbered in order, and the week has one |
| `IdsAssumption` (`Experiments`) | there is an experiment to speak of |
| `ReplayAssumption` | the dates of the week are numbered in order and some are open; a review needs at least one (3 in the code); the universe is finite and not empty; a code is among the peers of its sector; there is a key |
| `AskedAssumption` (`Decisions`, `ReplayRun`) | what callers ask for is well-typed |
| `SelectionAssumption` | a stock has the features the rules read, and its points are a natural number; the target size and the limit per sector are positive |
| `CollectionAssumption` | there is a stock and a date, and finitely many dates; a batch, an attempt and a version are possible |

Each proof module has the same shape: an inductive invariant `IInv`, checked by TLC on
the module's instance before it was proved; a lemma for each action; `Invariant`
(`Invariance` for `WeeklyJobs`), which says `Spec => []IInv`; and the theorems that
follow from it. `Selection` differs: its steps are simple and its operators are not, so
that its invariant, `WeekOK`, is short and the lemmas about the operators are long.

**`WeeklyJobs_proofs`**. Its first section, "The writes of the jobs table", says what
each of the table's writes leaves behind (`WriteFacts`, `InsertFacts`, `ClaimFacts`,
`FinishFacts`, `RequestCancelFacts`); `OutputJobs_proofs` states the same lemmas, each
module being proved by itself. Theorem `Invariance`: `Spec => []IInv`, where `IInv` is
`TypeOK`, the safety properties, and four parts that say what each thread may rely
on:

* `RowsConsistent`: rows are weekly selections, running ones were started;
* `RequestsConsistent`: every request asks for a weekly selection, and none takes
  the path by which a finished review is handed out again;
* `PollerConsistent`: the row the poller holds exists; it is queued or cancelled
  before the claim and running after it; what it saw of the decision is still true; a success in hand means
  that the decision is there;
* `PreopenConsistent`: the same of the pre-open task's memory.

None of the safety properties is inductive alone: that a succeeded job has a
decision rests on what the poller remembers between its commit and its closing
update, and that a cancellation wins rests on the claim's second look at the
status. `NextInv` has a lemma for each action; those that write one row go
through `UpdateInv`, which says when such an update keeps everything the poller
does not appear in. From `IInv` follow `TypeCorrect`, `ExclusiveQueue`,
`CancellationWins`, `NoStrayRunner`, `Attribution`, `SuccessIsReal`, `AnswersFit`,
the action properties `OutcomeStability` and `DecisionStability`, and
`Refinement`: the queue implements `JobLifecycle`.

**`Decisions_proofs`**. `IInv` is `TypeOK`, `OneList`, `WeekNotAhead`,
`OneAcceptance` (an accepting approval exists exactly when there is a list, and
there is one only) and `ListsAreValid`. From it follow `SingleList`,
`ApprovedContent`, `HonestWeek`, `PublicationStability`, `TypeCorrect`, and
`Refinement`: the transactions implement `DecisionLedger`, a second publication
and a second run of the rules being stutters.

**`Collection_proofs`**: for any number of stocks, dates, operators, attempts and
crashes.

* `TypeCorrect`.
* `NothingForgotten`: no checkpoint that can be read forgets a stock. The file alone is
  no inductive state, since every run overwrites it with its own view, through a
  temporary file that others may write or move. `CheckpointInv` says `Kept` of the
  file, the temporary file and each run's view: what lies behind the cursor is accounted
  for (`Covered`) and failures lie behind it (`Behind`). Of each run it says (`Sound`)
  that its codes have no gap behind its cursor unless the operator chose them
  (`Orderly`) and that an unfailed stock was confirmed (`Honest`). The last rests on
  `UnfailedIsConfirmed`, a fact about the reconciliation of any three series; the one
  before on `FirstIsInitial`, a fact about `LIMIT`. History only grows, so that
  what one run does leaves the promises of the others kept (`PromisesStay`). Runs side
  by side can make the file unreadable or die of a missing one, and the repository's
  README warns against them (line 130); they cannot make it forget.
* `WholeSnapshots`: every snapshot holds a usable version of every stock, and the answer
  of a preparation has its inputs. `SnapshotInv` says that what a reader has read is
  stored (`Read`), that what waits to be stored is `Whole`, and that the snapshot whose
  inputs are to be stored exists. Versions are added and never changed (`WholeStays`),
  and snapshots only gain inputs (`InputsType`), so that collections and a snapshot by
  hand cost a content nothing.

**`OutputJobs_proofs`**: one week's outputs, for any dates, versions, rows and crashes.
`IInv` is `TypeOK` and what the table, the thread and the outputs rely on:

* `Asking`: requests and rows are dated, and a request that will reuse an output is no
  catch-up and its output exists;
* `Assigned`: the row the thread holds is running and of the kind the thread is busy
  with; a review that followed a brief belongs to that brief's job;
* `DatesAreDue`: the dates still to be made were due when the work was taken up, by a
  clock that only grows;
* `Promised`: unless a date has failed, the briefs made and those still to be made are
  all that the job was asked for;
* `Reviewing`: a review is under way only after the last close, on top of every brief,
  and what it has still to do is exactly what is missing.

`SucceededBriefsExist` alone is not inductive: a job succeeds at the end of a loop of
transactions, and `Promised` is that loop's invariant, kept across a review between
two dates and voided by a failure. From `IInv` follow `SuccessIsBacked`, `BriefsWait`,
`ReviewsWait`, `TypeCorrect`, the action property `ReviewsAreWhole`, and `Refinement`:
brief and review jobs implement `JobLifecycle` although replays, which do not, share
their table and their thread.

**`ReplayRun_proofs`**: one past week's replays, for any calendar, universe, sectors
and repair limit. `IInv` has five parts: types; the records (`HonestReplay`, and that
runs are inserted in order, with all their stages, one for each key); the callers
(an offer is still on offer, an answer has the key); the open transaction (`Holding`,
`Consistent`: its flushed outputs are its succeeded stages, a later stage is untouched
while the selection waits, a brief is skipped only without a selection); and the bars
(`OneVintage`, `Repairing`: what is being repaired lacks bars that were not there when
the run read its clock; `SameView`: but for late bars, what is visible is what was). From
it follow `HonestRecords`: a commit makes public what
`Consistent` says of the transaction; `DataOfOneMoment`: what a repair stores is fetched
after the run's clock and changes `stored` only, and a collection changes `view` only by
bars that are then in `late`; `PromisesHold`; and the action property `OutcomesRest`: what has ended is never
written again, since the worker holds a running row only (`Holding`) and a new run has
a number that no run has (`Inserted`). The execution itself does not look at the job's
status: it relies on the claim.

**`Watchlist_proofs`**: for any number of users, stocks, requests and dates.

* `LimitHolds` rests on `InsertReady`: an addition that has counted holds the user's
  lock, so that its count still bounds the list when it inserts.
* `DailyItemsAreExact` and `WeeklyItemsFollowed` rest on `Past`: the items are made of
  a day whose close lies behind every request that is still under way (the assumption
  `Settled`), so that no later commit changes who followed what at that close. `Daily`
  and `Weekly` say so of the stored items and of those a task holds in its hands.
* `DailyItemsLimited` is the subtle one, since the limit is one on memberships at one
  moment, and a day's items are of those at its close: `CloseLimit` says that at no close
  gone by a user had more than `Limit`. It rests on `FollowLimit` at the moment of the close,
  on `Timely` (no request is older than the part of the day before this one, so that an
  addition after the close takes effect later) and on removals that only end what was.

**`Experiments_proofs`**: for any number of experiments and administrators and any history of
runs. `IInv` adds to `TypeOK` and `ApprovalsAreInformed`, for each experiment `Sound(e)`:
its status stands for the one run in progress (`OneRun`), statuses behind a replay or
a shadow run have a run that succeeded (`Tested`), a decision and the statuses that
follow one belong together (`Judged`), and a formal version is named exactly while it is
activated (`Named`). From it follow `EvidenceComesFirst`, `OneRunInProgress`,
`InformedApprovals`, `TypeCorrect`. What an administrator read may be as old as it
likes: each request checks the version it read under a row lock, and `Move`, the one
operator that writes a status, raises it.

**`Selection_proofs`**: for any stocks, scores, flags, market state, target size and
limit per sector. `WeekOK` says that once a week is selected, `ranked` is the ranking of
its pool and `list` the portfolio of that ranking. The rest is about operators that are
defined by counting or along a ranking, and needs induction. The library's induction
theorems cannot be used here (they take an operator as a parameter), so the induction is
done on a *set* of numbers: `LeastNumber` (a set of naturals that is not empty has a
least one, since inclusion is well-founded on finite sets) and `UpTo` (a set that contains 0 and with
i - 1 also i contains all numbers up to n).

* `RankByRanks`: counting the rows that precede a row places every eligible stock exactly
  once and in order, `Precedes` being a total order; hence `RankingIsComplete`.
* `PassSteps`: the recursive function `Chosen` exists and follows its equation, shown for
  the functions on each prefix of the ranking. `PassGrows`: what is chosen is never put
  back, and comes from the places passed so far.
* `PortfolioLawful`: `WithinLimits` (eligible, within every cap, with slots left for the
  quotas) is the loop's invariant (`TakesKeepsLimits`), and with the final look of
  `_select_size` it is lawfulness.
* `BetterRanks`: `RejectedIsUnlawful`, the heart of it: outside a breadth recovery, a
  stock that the pass refuses beside the chosen `A` is in no lawful list of that size that
  contains `A`. A better-ranked stock that was left out was refused beside a subset of the
  list without the worse one, so that the exchange is unlawful. In a breadth recovery this
  fails, since there a stock can be refused because too few slots would stay for a quota
  that later stocks fill.
* `MainShortage`: `FullSectorsAreMost`, an exchange argument: if whoever was left out has a full
  sector in the list, no set of eligible stocks within the limit per sector is larger.
  `PassFillsLawfulSize` follows: where only that limit is at work, the pass at the size of
  any lawful list is accepted.

**Only model-checked**: liveness (`JobsFinish`, `FormalJobsFinish`), since fairness and
`ENABLED` are out of this prover's reach. The two runs of section 5 end in
counterexamples, which need no proof.

## 5. Where the code differs from its documents

| run | property | what happens |
|---|---|---|
| `output_review_partial` | `SucceededReviewsComplete` | the reviews of a week's versions are separate transactions; after a failure behind the first, a new review job is recorded as succeeded by reuse |
| `replay_repair` | `RepairIsConsumed` | a replay reads its clock, then repairs missing bars, whose `fetched_at` is later; every calculation admits only bars fetched by that clock, so the retry sees none of them and fails again |

Further disagreements have no run; the hazards of `PROJECT.json` describe them at
their lines: a worker that dies while a weekly job runs leaves the row `running` for
good and the partial index then refuses every further selection of the week; the
window gate of the poller uses a clock read before the data preparation, so that a
formal decision can appear after the next week began; a replay that is cancelled
after its claim ends as succeeded or failed; two active output jobs of one kind; a
formal brief made after the window by a plain daily job; the week's status that falls
back from published to awaiting approval; watchlist items that are never made after
a failure behind a stored brief; a shortage that the greedy portfolio reports although
a longer lawful list exists (with outside stocks or quotas, as
`docs/reviews/2026-09-08-reliability-and-code-review.md:58` admits); two activated experiments; a replay key used again
for another stage, which the first run answers.

## 6. What is not modelled

* Numbers of one stock: technical indicators, returns, thresholds, quality grades.
* The HTTP of data sources, Parquet export, the import of classifications. What a
  source delivers is a choice.
* The calendar's single rows: a week's calendar is incomplete, ready or conflicted,
  and stays once it is there (an operator may ingest it again by hand).
* `experiments/historical_week.py`, an older replay of one week run by hand, and the
  offline verification scripts beside it, which stores its replay and its review in
  two transactions.
* AI calls: no production path stores their decision.
* Authentication and roles: every request in the modules is authorised.
* Web client, migrations, deployment: no state of their own that the other parts
  read.

## 7. What could follow

* `Week`: a composition of `Decisions` with the outputs, in which `published` is
  the list's status and not a flag.
* Some lemmas are stated twice: those of the jobs table in `WeeklyJobs_proofs` and
  `OutputJobs_proofs`, those of the last open date in `OutputJobs_proofs` and
  `Watchlist_proofs`. Modules of their own could hold them.
* How much shorter than the longest lawful list the greedy portfolio can be when
  other domains, quotas or caps are at work (section 5): no property bounds it.
