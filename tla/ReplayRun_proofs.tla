-------------------------- MODULE ReplayRun_proofs --------------------------
(***************************************************************************)
(* Proofs about ReplayRun: types, that a run's records agree with each     *)
(* other and with its outputs, that a run shows the data of one moment,    *)
(* and that what a caller is told holds.  They hold for any week, universe *)
(* and sectors, any number of runs, requests, collections and lost         *)
(* transactions.                                                           *)
(***************************************************************************)
EXTENDS ReplayRun, FiniteSetTheorems, WellFoundedInduction, TLAPS

Fixed == {NoStage, NewStage}
Present(r) == runs[r].job # "absent"

\* Runs are inserted in order; until a run is committed its stages are as they were
\* inserted, and what is inserted is complete: it starts with the selection, and a
\* review comes with the brief of every trading day.
Inserted ==
    /\ \A r \in RunIds : Present(r) <=> r <= created
    /\ \A r \in RunIds : runs[r].job \notin {"succeeded", "failed"} =>
          \A s \in StageIds : runs[r].stages[s] \in Fixed
    /\ \A r \in RunIds : Present(r) =>
          /\ runs[r].stages[0].status # "none"
          /\ runs[r].stages[Review].status # "none" =>
                \A d \in OpenDates : runs[r].stages[d].status # "none"

\* A key has one run.
OneOfKey == \A r, q \in RunIds : Present(r) /\ Present(q) /\ runs[r].key = runs[q].key => r = q

\* An answer is the run of its key, and what was offered is still on offer.
Told ==
    /\ \A c \in Clients : request[c].pc = "answered" =>
          /\ request[c].answer \in RunIds /\ Present(request[c].answer)
          /\ runs[request[c].answer].key = request[c].key
    /\ \A c \in Clients : request[c].pc = "offered" => Offered(request[c].of, clock)

\* The worker's run is marked as running, and the open transaction has its stages.
Holding ==
    /\ worker.pc # "idle" => worker.run \in RunIds /\ runs[worker.run].job = "running"
    /\ worker.pc = "claimed" => worker.stages = NoRun.stages /\ worker.made = {}
    /\ worker.pc \in {"open", "repair", "retry"} => \A s \in StageIds :
          worker.stages[s].status = "none" <=> runs[worker.run].stages[s].status = "none"

Is(s, status) == worker.stages[s].status = status

\* What the open transaction has done so far agrees with itself.
Consistent ==
    /\ worker.made = {s \in StageIds : Is(s, "succeeded")}
    /\ \A s \in StageIds : Is(s, "queued") => worker.stages[s].error = ""
    /\ Is(0, "queued") => \A s \in StageIds \ {0} : worker.stages[s] \in Fixed
    /\ \A s \in StageIds : Is(s, "succeeded") => Is(0, "succeeded")
    /\ Is(0, "succeeded") => worker.picks # {}
    /\ Is(Review, "succeeded") => \A d \in OpenDates : Is(d, "succeeded")
    /\ \A d \in OpenDates : Is(d, "skipped") => ~ Is(0, "succeeded")

\* The stage that is repaired and tried again is not blocked, and while it is being
\* repaired it lacks bars that were not usable when the run read its clock.
Lacking(s) == ~ Needs(s) \subseteq base \ late
Repairing == \A s \in StageIds : NextStage(s) =>
    /\ worker.pc \in {"repair", "retry"} => ~ Blocked(s)
    /\ worker.pc = "repair" => Lacking(s)

\* But for what was stored late, a run sees what was usable when it read its clock.
SameView == worker.pc # "idle" => view \ late = base \ late

\* The types of the variables that belong together.
TimesType == /\ clock \in 0 .. WindowEnd /\ calendar \in {"incomplete", "ready", "conflicted"}
             /\ collects \in 0 .. MaxCollects /\ aborts \in 0 .. MaxAborts
RequestType == request \in [Clients -> [pc: {"idle", "offered", "insert", "answered"},
                                        of: Requests, key: Keys, answer: 0 .. MaxRuns]]
RunsType == created \in 0 .. MaxRuns /\ runs \in [RunIds -> Runs]
OutputsType == outputs \subseteq Outputs /\ picks \in [RunIds -> SUBSET Codes]
BarsType == /\ stored \subseteq Bars /\ flight \in Flights
            /\ view \subseteq Bars /\ base \subseteq Bars /\ late \subseteq Bars
WorkerType == worker \in [pc: {"idle", "claimed", "open", "repair", "retry"}, run: 0 .. MaxRuns,
                          stages: [StageIds -> Stages], made: SUBSET StageIds,
                          picks: SUBSET Codes, missing: SUBSET Codes]

\* The inductive invariant, by what it is about: the runs and their outputs, the
\* callers, the worker, and the bars it sees.
RecordsInv == RunsType /\ OutputsType /\ HonestReplay /\ Inserted /\ OneOfKey
CallersInv == RequestType /\ Told
WorkerInv == WorkerType /\ Holding /\ Consistent
BarsInv == BarsType /\ OneVintage /\ Repairing /\ SameView
IInv == TimesType /\ RecordsInv /\ CallersInv /\ WorkerInv /\ BarsInv

-----------------------------------------------------------------------------
(* The week, the stages and the initial records                            *)

\* The type invariant, part by part.
LEMMA TypeParts ==
    TypeOK <=> /\ TimesType /\ RequestType /\ RunsType /\ OutputsType /\ BarsType /\ WorkerType
BY DEF TypeOK, TimesType, RequestType, RunsType, OutputsType, BarsType, WorkerType

\* Some trading days, if there are any, have a last one.
LEMMA Latest ==
    ASSUME NEW S \in SUBSET OpenDates, S # {}
    PROVE  \E d \in S : \A e \in S : e <= d
<1>1. S \subseteq Nat /\ IsFiniteSet(S)
  <2>1. S \in SUBSET (1 .. LastDate) /\ LastDate \in Nat
    BY ReplayAssumption
  <2>2. IsFiniteSet(1 .. LastDate)
    BY <2>1, FS_Interval
  <2>3. IsFiniteSet(S)
    BY <2>1, <2>2, FS_Subset
  <2> QED
    BY <2>1, <2>3
<1> DEFINE Later(d) == {e \in S : e > d}
           T == {Later(d) : d \in S}
<1>2. IsWellFoundedOn(StrictSubsetOrdering(S), SUBSET S)
  BY <1>1, FS_StrictSubsetOrderingWellFounded, FS_FiniteSubsetsOfFinite
<1>3. PICK x \in T : \A y \in T : <<y, x>> \notin StrictSubsetOrdering(S)
  <2>1. T \subseteq SUBSET S /\ T # {}
    OBVIOUS
  <2> HIDE DEF T
  <2> QED
    BY <1>2, <2>1, WFMin
<1>4. PICK d \in S : x = Later(d)
  OBVIOUS
<1>5. ASSUME NEW e \in S, e > d
      PROVE  FALSE
  <2>1. Later(e) \subseteq Later(d) /\ Later(e) # Later(d)
    <3>1. d \in Nat /\ e \in Nat /\ \A y \in S : y \in Nat
      BY <1>1
    <3>2. \A y \in S : y > e => y > d
      BY <1>5, <3>1
    <3>3. e \in Later(d) /\ e \notin Later(e)
      BY <1>5, <3>1
    <3> QED
      BY <3>2, <3>3
  <2>2. <<Later(e), Later(d)>> \in StrictSubsetOrdering(S)
    BY <2>1 DEF StrictSubsetOrdering
  <2> QED
    BY <1>3, <1>4, <2>2
<1> QED
  BY <1>1, <1>5

\* The places of the stages in the order of execution.
LEMMA Order ==
    /\ LastDate \in Nat /\ WindowEnd \in Nat /\ Review \in Nat /\ 0 # Review
    /\ StageIds \subseteq Nat /\ 0 \in StageIds /\ Review \in StageIds
    /\ \A s \in StageIds : 0 <= s /\ s <= Review
    /\ \A d \in OpenDates : d \in StageIds /\ d \in Nat /\ d # 0 /\ d # Review /\ 2 * d <= WindowEnd
    /\ LastOpen \in OpenDates
<1>1. LastDate \in Nat /\ OpenDates \subseteq 1 .. LastDate /\ OpenDates # {}
  BY ReplayAssumption
<1>2. WindowEnd \in Nat /\ Review \in Nat /\ 0 # Review /\ StageIds \subseteq Nat
  BY <1>1 DEF WindowEnd, Review, StageIds
<1>3. 0 \in StageIds /\ Review \in StageIds /\ \A s \in StageIds : 0 <= s /\ s <= Review
  BY <1>1 DEF Review, StageIds
<1>4. ASSUME NEW d \in OpenDates
      PROVE  d \in StageIds /\ d \in Nat /\ d # 0 /\ d # Review /\ 2 * d <= WindowEnd
  <2>1. d \in Nat /\ 1 <= d /\ d <= LastDate
    BY <1>1
  <2> QED
    BY <1>1, <2>1 DEF Review, StageIds, WindowEnd
<1>5. LastOpen \in OpenDates
  BY <1>1, Latest DEF LastOpen
<1> QED
  BY <1>1, <1>2, <1>3, <1>4, <1>5

\* The two records a stage can have before the worker writes it.
LEMMA FixedFacts ==
    /\ NoStage \in Stages /\ NewStage \in Stages /\ Fixed = {NoStage, NewStage}
    /\ NoStage.status = "none" /\ NoStage.error = "" /\ NoStage.repair = "none"
    /\ NewStage.status = "queued" /\ NewStage.error = "" /\ NewStage.repair = "none"
    /\ \A x \in Fixed : x.status \in {"none", "queued"} /\ x.error = ""
                        /\ (x.status = "none" <=> x = NoStage)
<1>1. /\ NoStage \in Stages /\ NoStage.status = "none" /\ NoStage.error = ""
      /\ NoStage.repair = "none"
  BY DEF NoStage, Stages
<1>2. /\ NewStage \in Stages /\ NewStage.status = "queued" /\ NewStage.error = NoStage.error
      /\ NewStage.repair = NoStage.repair
  <2>1. /\ "queued" \in {"none", "queued", "succeeded", "failed", "skipped"}
        /\ NewStage = [NoStage EXCEPT !.status = "queued"]
    BY DEF NewStage
  <2>2. \A x \in Stages : LET y == [x EXCEPT !.status = "queued"]
                          IN  y \in Stages /\ y.status = "queued" /\ y.error = x.error
                              /\ y.repair = x.repair
    BY DEF Stages
  <2> QED
    BY <1>1, <2>1, <2>2
<1> QED
  BY <1>1, <1>2 DEF Fixed

\* The fields of a row that is not there yet.
LEMMA NoRunFacts ==
    /\ NoRun \in Runs /\ NoRun.of \in Requests /\ NoRun.key \in Keys
    /\ NoRun.job = "absent" /\ NoRun.run = "queued"
    /\ NoRun.stages = [s \in StageIds |-> NoStage]
<1>1. PICK of \in Requests : of.stage = "selection"
  <2>1. [stage |-> "selection", day |-> NoDate, fill |-> FALSE] \in Requests
    BY DEF Requests
  <2> QED
    BY <2>1
<1>2. (CHOOSE x \in Requests : x.stage = "selection") \in Requests
  BY <1>1
<1>3. (CHOOSE k \in Keys : TRUE) \in Keys
  BY ReplayAssumption
<1>4. [s \in StageIds |-> NoStage] \in [StageIds -> Stages]
  BY FixedFacts
<1> QED
  BY <1>2, <1>3, <1>4 DEF NoRun, Runs, JobStatuses

\* The fields of an idle worker.
LEMMA IdleWorkerFacts ==
    /\ IdleWorker.pc = "idle" /\ IdleWorker.run = 0 /\ IdleWorker.made = {}
    /\ IdleWorker.picks = {} /\ IdleWorker.stages = [s \in StageIds |-> NoStage]
    /\ IdleWorker \in [pc: {"idle", "claimed", "open", "repair", "retry"}, run: 0 .. MaxRuns,
                       stages: [StageIds -> Stages], made: SUBSET StageIds, picks: SUBSET Codes,
                       missing: SUBSET Codes]
<1>1. [s \in StageIds |-> NoStage] \in [StageIds -> Stages]
  BY FixedFacts
<1>2. 0 \in 0 .. MaxRuns
  BY ReplayAssumption
<1> QED
  BY <1>1, <1>2, NoRunFacts DEF IdleWorker

\* Of a run that is not committed nothing is stored, and everything is as inserted.
Pristine(r) == /\ runs[r].run = "queued"
               /\ \A s \in StageIds : runs[r].stages[s] \in Fixed /\ <<r, s>> \notin outputs
Uncommitted(r) == runs[r].job \notin {"succeeded", "failed"}

\* Before its commit a run agrees with its outputs exactly when it has none.
LEMMA PristineAgrees ==
    ASSUME NEW r \in RunIds, Uncommitted(r)
    PROVE  Agree(r) /\ (\A s \in StageIds : runs[r].stages[s] \in Fixed) <=> Pristine(r)
<1>1. ASSUME \A s \in StageIds : runs[r].stages[s] \in Fixed
      PROVE  /\ Succeeded(r) = {} /\ \A d \in StageIds : runs[r].stages[d].status # "skipped"
             /\ \A s \in StagesAsked(r) : runs[r].stages[s] = NewStage
  BY <1>1, FixedFacts DEF Succeeded, StagesAsked
<1>2. ASSUME Agree(r), \A s \in StageIds : runs[r].stages[s] \in Fixed
      PROVE  Pristine(r)
  BY <1>1, <1>2 DEF Agree, Pristine, Uncommitted
<1>3. ASSUME Pristine(r)
      PROVE  Agree(r)
  <2>1. /\ Succeeded(r) = {} /\ \A d \in StageIds : runs[r].stages[d].status # "skipped"
        /\ \A s \in StagesAsked(r) : runs[r].stages[s] = NewStage
    BY <1>1, <1>3 DEF Pristine
  <2>2. {s \in StageIds : <<r, s>> \in outputs} = {}
    BY <1>3 DEF Pristine
  <2>3. runs[r].run = "queued" /\ OpenDates \subseteq StageIds
    BY <1>3, Order DEF Pristine
  <2> QED
    BY <2>1, <2>2, <2>3 DEF Agree, Uncommitted
<1> QED
  BY <1>2, <1>3 DEF Pristine

-----------------------------------------------------------------------------
(* What a step leaves alone                                                *)

\* Untouched records stay as they must be.
LEMMA RecordsStay ==
    ASSUME RecordsInv, UNCHANGED <<runs, created, outputs, picks>>
    PROVE  RecordsInv'
<1>1. RunsType' /\ OutputsType'
  BY DEF RecordsInv, RunsType, OutputsType
<1>2. HonestReplay'
  <2>1. SUFFICES ASSUME NEW r \in RunIds PROVE Agree(r)'
    BY DEF HonestReplay
  <2>2. Agree(r)
    BY DEF RecordsInv, HonestReplay
  <2> QED
    BY <2>2 DEF Agree, Succeeded, StagesAsked
<1>3. Inserted' /\ OneOfKey'
  BY DEF RecordsInv, Inserted, OneOfKey, Present
<1> QED
  BY <1>1, <1>2, <1>3 DEF RecordsInv

\* Whether a replay is on offer depends on the time and the calendar only.
LEMMA OfferStays ==
    ASSUME NEW of, NEW t, Offered(of, t), calendar' = calendar
    PROVE  Offered(of, t)'
BY DEF Offered

\* Callers keep what they were told while every row keeps its key.
LEMMA CallersStay ==
    ASSUME CallersInv, UNCHANGED <<request, clock, calendar>>,
           \A r \in RunIds : Present(r) => runs'[r].job # "absent" /\ runs'[r].key = runs[r].key
    PROVE  CallersInv'
<1>1. RequestType'
  BY DEF CallersInv, RequestType
<1>2. \A c \in Clients : request'[c].pc = "offered" => Offered(request[c].of, clock)'
  BY OfferStays DEF CallersInv, Told
<1>3. \A c \in Clients : request'[c].pc = "answered" =>
         /\ request'[c].answer \in RunIds /\ runs'[request'[c].answer].job # "absent"
         /\ runs'[request'[c].answer].key = request'[c].key
  BY DEF CallersInv, Told
<1>4. Told'
  BY <1>2, <1>3 DEF Told, Present
<1> QED
  BY <1>1, <1>4 DEF CallersInv

\* The worker keeps its hold of a run that stays running as it is.
LEMMA WorkerStays ==
    ASSUME WorkerInv, worker' = worker,
           worker.pc # "idle" => /\ runs'[worker.run].job = "running"
                                 /\ runs'[worker.run].stages = runs[worker.run].stages
    PROVE  WorkerInv'
<1>1. WorkerType' /\ Consistent'
  BY DEF WorkerInv, WorkerType, Consistent, Is
<1>2. Holding'
  BY DEF WorkerInv, Holding
<1> QED
  BY <1>1, <1>2 DEF WorkerInv

\* Untouched bars stay as they must be.
LEMMA BarsStay ==
    ASSUME BarsInv, UNCHANGED <<worker, stored, flight, view, base, late>>
    PROVE  BarsInv'
BY DEF BarsInv, BarsType, OneVintage, Repairing, SameView, Lacking, Needs, SelectionNeeds, BriefNeeds,
       ReviewNeeds, NextStage, Waiting, Blocked

\* Untouched times keep their types.
LEMMA TimesStay ==
    ASSUME TimesType, UNCHANGED <<clock, calendar, collects, aborts>>
    PROVE  TimesType'
BY DEF TimesType

\* A run that the worker holds is under way.
LEMMA Held ==
    ASSUME WorkerInv, worker.pc # "idle"
    PROVE  worker.run \in RunIds /\ runs[worker.run].job = "running"
BY DEF WorkerInv, Holding

-----------------------------------------------------------------------------
(* The callers                                                             *)

\* Only the callers' part changes: one request moves on.
LEMMA CallerMoves ==
    ASSUME IInv, UNCHANGED <<clock, calendar, runs, created, others>>,
           NEW c \in Clients, NEW q, request' = [request EXCEPT ![c] = q],
           q \in [pc: {"idle", "offered", "insert", "answered"}, of: Requests,
                  key: Keys, answer: 0 .. MaxRuns],
           q.pc = "answered" => q.answer \in RunIds /\ Present(q.answer)
                                /\ runs[q.answer].key = q.key,
           q.pc = "offered" => Offered(q.of, clock)
    PROVE  IInv'
<1>1. /\ clock' = clock /\ calendar' = calendar /\ runs' = runs /\ created' = created
      /\ outputs' = outputs /\ picks' = picks /\ stored' = stored /\ flight' = flight
      /\ view' = view /\ base' = base /\ late' = late /\ worker' = worker
      /\ collects' = collects /\ aborts' = aborts
  BY DEF others
<1>2. TimesType' /\ RecordsInv' /\ BarsInv'
  BY <1>1, TimesStay, RecordsStay, BarsStay DEF IInv
<1>3. WorkerInv'
  BY <1>1, Held, WorkerStays DEF IInv
<1>4. RequestType /\ Told
  BY DEF IInv, CallersInv
<1>5. RequestType' /\ \A b \in Clients : request'[b] = q \/ request'[b] = request[b]
  BY <1>4 DEF RequestType
<1>6. \A b \in Clients : request'[b].pc = "offered" => Offered(request'[b].of, clock)
  BY <1>4, <1>5 DEF Told
<1>7. \A b \in Clients : request'[b].pc = "answered" =>
         /\ request'[b].answer \in RunIds /\ runs[request'[b].answer].job # "absent"
         /\ runs[request'[b].answer].key = request'[b].key
  BY <1>4, <1>5 DEF Told, Present
<1>8. Told'
  <2>1. \A b \in Clients : request'[b].pc = "offered" =>
           /\ calendar = "ready" /\ Replayable
           /\ request'[b].of.stage = "daily" =>
                 /\ \E d \in DueDates(clock) : Window("daily", d, clock) = "replay"
                 /\ request'[b].of.fill \/ request'[b].of.day \in DueDates(clock)
           /\ request'[b].of.stage # "daily" =>
                 Window(request'[b].of.stage, NoDate, clock) = "replay"
    BY <1>6 DEF Offered
  <2> QED
    BY <1>1, <1>7, <2>1 DEF Told, Offered, Present
<1> QED
  BY <1>2, <1>3, <1>5, <1>8 DEF IInv, CallersInv

\* A run's number is not that of no run.
LEMMA RunsAreNumbers ==
    ASSUME NEW r \in RunIds
    PROVE  r \in 0 .. MaxRuns /\ r # 0
BY ReplayAssumption DEF RunIds

\* A key names the rows that have it.
LEMMA KeyNames ==
    \A k : /\ WithKey(k) \subseteq RunIds
           /\ \A r \in WithKey(k) : Present(r) /\ runs[r].key = k
           /\ \A r \in RunIds : Present(r) /\ runs[r].key = k => r \in WithKey(k)
BY DEF WithKey, Present

\* The fields of an idle request.
LEMMA IdleRequestFacts ==
    /\ IdleRequest.pc = "idle" /\ IdleRequest.of \in Requests /\ IdleRequest.key \in Keys
    /\ IdleRequest.answer = 0 /\ 0 \in 0 .. MaxRuns
    /\ IdleRequest \in [pc: {"idle", "offered", "insert", "answered"}, of: Requests,
                        key: Keys, answer: 0 .. MaxRuns]
<1>1. 0 \in 0 .. MaxRuns
  BY ReplayAssumption
<1> QED
  BY <1>1, NoRunFacts DEF IdleRequest

\* The fields of an answered one.
LEMMA AnsweredFacts ==
    ASSUME NEW k \in Keys, NEW r \in RunIds
    PROVE  /\ Answered(k, r) \in [pc: {"idle", "offered", "insert", "answered"}, of: Requests,
                                  key: Keys, answer: 0 .. MaxRuns]
           /\ Answered(k, r).pc = "answered" /\ Answered(k, r).key = k
           /\ Answered(k, r).answer = r
<1>1. r \in 0 .. MaxRuns
  BY RunsAreNumbers
<1> QED
  BY <1>1, IdleRequestFacts DEF Answered

\* An offer is accepted when it is made.
LEMMA OfferStep == ASSUME IInv, NEW c \in Clients, NEW of \in Asked, Offer(c, of) PROVE IInv'
<1> DEFINE q == [IdleRequest EXCEPT !.pc = "offered", !.of = of]
<1>1. of \in Requests
  BY AskedAssumption
<1>2. q \in [pc: {"idle", "offered", "insert", "answered"}, of: Requests,
             key: Keys, answer: 0 .. MaxRuns]
      /\ q.pc = "offered" /\ q.of = of
  BY <1>1, IdleRequestFacts
<1>3. /\ UNCHANGED <<clock, calendar, runs, created, others>> /\ Offered(of, clock)
      /\ request' = [request EXCEPT ![c] = q]
  BY DEF Offer
<1> HIDE DEF q
<1> QED
  BY <1>2, <1>3, CallerMoves

\* An enqueue answers by its key, or goes on to its insert.
LEMMA EnqueueStep ==
    ASSUME IInv, NEW c \in Clients, NEW of \in Asked, NEW k \in Keys, Enqueue(c, of, k)
    PROVE  IInv'
<1>1. of \in Requests /\ UNCHANGED <<clock, calendar, runs, created, others>>
  BY AskedAssumption DEF Enqueue
<1>2. CASE request' = [request EXCEPT ![c] = [pc |-> "insert", of |-> of, key |-> k, answer |-> 0]]
  <2> DEFINE q == [pc |-> "insert", of |-> of, key |-> k, answer |-> 0]
  <2>1. q \in [pc: {"idle", "offered", "insert", "answered"}, of: Requests,
               key: Keys, answer: 0 .. MaxRuns]
        /\ q.pc = "insert"
    BY <1>1, IdleRequestFacts
  <2>2. request' = [request EXCEPT ![c] = q]
    BY <1>2
  <2> HIDE DEF q
  <2> QED
    BY <1>1, <2>1, <2>2, CallerMoves
<1>3. ASSUME NEW r \in WithKey(k), request' = [request EXCEPT ![c] = Answered(k, r)]
      PROVE  IInv'
  <2>1. r \in RunIds /\ Present(r) /\ runs[r].key = k
    BY KeyNames
  <2>2. /\ Answered(k, r) \in [pc: {"idle", "offered", "insert", "answered"}, of: Requests,
                               key: Keys, answer: 0 .. MaxRuns]
        /\ Answered(k, r).pc = "answered" /\ Answered(k, r).key = k
        /\ Answered(k, r).answer = r
    BY <2>1, AnsweredFacts
  <2> QED
    BY <1>1, <1>3, <2>1, <2>2, CallerMoves
<1> QED
  BY <1>2, <1>3 DEF Enqueue

\* A request ends.
LEMMA IdleStep ==
    ASSUME IInv, NEW c \in Clients, request' = [request EXCEPT ![c] = IdleRequest],
           UNCHANGED <<clock, calendar, runs, created, others>>
    PROVE  IInv'
BY IdleRequestFacts, CallerMoves

\* The records of a run agree as long as nobody writes them.
LEMMA AgreesAlone ==
    ASSUME NEW r \in RunIds, Agree(r), runs'[r] = runs[r], picks'[r] = picks[r],
           \A s \in StageIds : <<r, s>> \in outputs' <=> <<r, s>> \in outputs
    PROVE  Agree(r)'
<1>1. {s \in StageIds : <<r, s>> \in outputs'} = {s \in StageIds : <<r, s>> \in outputs}
  OBVIOUS
<1> QED
  BY <1>1 DEF Agree, Succeeded, StagesAsked

\* The same for a run that is not committed before and after.
LEMMA StillAgrees ==
    ASSUME NEW r \in RunIds, Pristine(r)', Uncommitted(r)'
    PROVE  Agree(r)'
<1>1. /\ Succeeded(r)' = {} /\ \A d \in StageIds : runs'[r].stages[d].status # "skipped"
      /\ \A s \in StagesAsked(r)' : runs'[r].stages[s] = NewStage
  BY FixedFacts DEF Pristine, Succeeded, StagesAsked
<1>2. {s \in StageIds : <<r, s>> \in outputs'} = {}
  BY DEF Pristine
<1>3. runs'[r].run = "queued" /\ OpenDates \subseteq StageIds
  BY Order DEF Pristine
<1> QED
  BY <1>1, <1>2, <1>3 DEF Agree, Uncommitted

\* Until its commit a run has no output and untouched stages.
LEMMA UncommittedIsPristine ==
    ASSUME RecordsInv, NEW r \in RunIds, Uncommitted(r)
    PROVE  Pristine(r)
BY PristineAgrees DEF RecordsInv, HonestReplay, Inserted, Uncommitted

\* The stages of a new run: the selection, and with a review every brief.
LEMMA NewStages ==
    ASSUME NEW of \in Requests, NEW t
    PROVE  /\ 0 \in StagesOf(of, t)
           /\ Review \in StagesOf(of, t) => OpenDates \subseteq StagesOf(of, t)
<1>1. 0 \in StagesOf(of, t)
  BY DEF StagesOf
<1>2. of.stage # "daily" => of.fill = FALSE
  BY DEF Requests
<1>3. CASE of.stage = "review"
  <2>1. StagesOf(of, t) = {0} \cup (OpenDates \cup {Review})
    BY <1>2, <1>3 DEF StagesOf
  <2> QED
    BY <2>1
<1>4. CASE of.stage = "selection"
  <2>1. StagesOf(of, t) = {0} \cup {}
    BY <1>2, <1>4 DEF StagesOf
  <2> QED
    BY <2>1, Order
<1>5. CASE of.stage = "daily" /\ of.fill
  <2>1. Review \notin DueDates(t)
    BY Order DEF DueDates
  <2> QED
    BY <1>5, <2>1, Order DEF StagesOf
<1>6. CASE of.stage = "daily" /\ ~ of.fill
  <2>1. of.day \in Dates
    BY <1>6 DEF Requests
  <2>2. of.day # Review
    BY <2>1, Order DEF Dates, Review
  <2> QED
    BY <1>6, <2>2, Order DEF StagesOf
<1>7. of.stage \in {"selection", "daily", "review"}
  BY DEF Requests
<1> QED
  BY <1>1, <1>3, <1>4, <1>5, <1>6, <1>7

\* A row is written of a run that is not committed before or after.
LEMMA RowWritten ==
    ASSUME RecordsInv, NEW r \in RunIds, NEW new \in Runs, runs' = [runs EXCEPT ![r] = new],
           UNCHANGED <<outputs, picks>>, Uncommitted(r),
           new.job \notin {"absent", "succeeded", "failed"}, new.run = "queued",
           \A s \in StageIds : new.stages[s] \in Fixed,
           new.stages[0].status # "none",
           new.stages[Review].status # "none" =>
              \A d \in OpenDates : new.stages[d].status # "none",
           \A q \in RunIds : q # r /\ Present(q) => runs[q].key # new.key,
           created' \in 0 .. MaxRuns, \A q \in RunIds : (Present(q) \/ q = r) <=> q <= created'
    PROVE  RecordsInv'
<1>1. runs'[r] = new /\ \A q \in RunIds : q # r => runs'[q] = runs[q]
  BY DEF RecordsInv, RunsType
<1>2. RunsType' /\ OutputsType'
  BY DEF RecordsInv, RunsType, OutputsType
<1>3. Agree(r)'
  <2>1. \A s \in StageIds : <<r, s>> \notin outputs
    BY UncommittedIsPristine DEF Pristine
  <2>2. Pristine(r)' /\ Uncommitted(r)'
    BY <1>1, <2>1 DEF Pristine, Uncommitted
  <2> QED
    BY <2>2, StillAgrees
<1>4. ASSUME NEW q \in RunIds, q # r PROVE Agree(q)'
  <2>1. Agree(q) /\ runs'[q] = runs[q] /\ picks'[q] = picks[q] /\ outputs' = outputs
    BY <1>1, <1>4 DEF RecordsInv, HonestReplay
  <2> QED
    BY <2>1, AgreesAlone
<1>5. HonestReplay'
  BY <1>3, <1>4 DEF HonestReplay
<1>6. Inserted'
  <2>1. \A q \in RunIds : runs'[q].job # "absent" <=> q <= created'
    BY <1>1 DEF Present
  <2>2. \A q \in RunIds : runs'[q].job \notin {"succeeded", "failed"} =>
           \A s \in StageIds : runs'[q].stages[s] \in Fixed
    BY <1>1 DEF RecordsInv, Inserted
  <2>3. \A q \in RunIds : runs'[q].job # "absent" =>
           /\ runs'[q].stages[0].status # "none"
           /\ runs'[q].stages[Review].status # "none" =>
                 \A d \in OpenDates : runs'[q].stages[d].status # "none"
    BY <1>1 DEF RecordsInv, Inserted, Present
  <2> QED
    BY <2>1, <2>2, <2>3 DEF Inserted, Present
<1>7. OneOfKey'
  BY <1>1 DEF RecordsInv, OneOfKey, Present
<1> QED
  BY <1>2, <1>5, <1>6, <1>7 DEF RecordsInv

\* An insert creates a run that agrees, or is rolled back with its key in use.
LEMMA InsertStep == ASSUME IInv, NEW c \in Clients, Insert(c) PROVE IInv'
<1> DEFINE of == request[c].of
           key == request[c].key
           stages == [s \in StageIds |-> IF s \in StagesOf(of, clock) THEN NewStage ELSE NoStage]
           new == [NoRun EXCEPT !.of = of, !.key = key, !.job = "queued", !.stages = stages]
           r == created + 1
<1>1. /\ of \in Requests /\ key \in Keys /\ RecordsInv /\ CallersInv /\ RequestType /\ RunsType
  BY DEF IInv, RecordsInv, CallersInv, RequestType
<1>2. UNCHANGED <<clock, calendar, others>>
  BY DEF Insert
<1>3. CASE request' = [request EXCEPT ![c] = IdleRequest] /\ UNCHANGED <<runs, created>>
  BY <1>2, <1>3, IdleStep
<1>4. CASE /\ WithKey(key) = {} /\ created < MaxRuns /\ created' = r
           /\ runs' = [runs EXCEPT ![r] = new]
           /\ request' = [request EXCEPT ![c] = Answered(key, r)]
  <2>1. r \in RunIds /\ ~ Present(r) /\ created \in Nat
    BY <1>1, <1>4, ReplayAssumption DEF RunsType, RecordsInv, Inserted, RunIds
  <2>2. /\ \A s \in StageIds : stages[s] \in Fixed /\ (stages[s].status # "none" <=>
                                                         s \in StagesOf(of, clock))
        /\ stages \in [StageIds -> Stages]
    BY FixedFacts
  <2>3. /\ 0 \in StagesOf(of, clock)
        /\ Review \in StagesOf(of, clock) => OpenDates \subseteq StagesOf(of, clock)
    <3> HIDE DEF of
    <3> QED
      BY <1>1, NewStages
  <2> HIDE DEF stages, of, key
  <2>4. /\ new \in Runs /\ new.job = "queued" /\ new.run = "queued" /\ new.stages = stages
        /\ new.key = key
    <3>1. "queued" \in JobStatuses
      BY DEF JobStatuses
    <3>2. \A x \in Runs : LET y == [x EXCEPT !.of = of, !.key = key, !.job = "queued",
                                             !.stages = stages]
                          IN  /\ y \in Runs /\ y.job = "queued" /\ y.run = x.run
                              /\ y.stages = stages /\ y.key = key
      BY <1>1, <2>2, <3>1 DEF Runs
    <3> QED
      BY <3>2, NoRunFacts
  <2> HIDE DEF new
  <2>5. new.stages[0].status # "none" /\ (new.stages[Review].status # "none" =>
           \A d \in OpenDates : new.stages[d].status # "none")
    BY <2>2, <2>3, <2>4, Order
  <2>6. \A q \in RunIds : Present(q) => runs[q].key # key
    BY <1>4, KeyNames
  <2>7. /\ created' \in 0 .. MaxRuns
        /\ \A q \in RunIds : (Present(q) \/ q = r) <=> q <= created'
    BY <1>1, <1>4, <2>1, ReplayAssumption DEF RecordsInv, Inserted, RunIds
  <2>8. Uncommitted(r) /\ UNCHANGED <<outputs, picks>>
    BY <1>2, <2>1 DEF Uncommitted, Present, others
  <2>9. RecordsInv'
    <3> HIDE DEF r
    <3> QED
      BY <1>1, <1>4, <2>1, <2>2, <2>4, <2>5, <2>6, <2>7, <2>8, RowWritten
  <2>10. runs'[r] = new /\ \A q \in RunIds : q # r => runs'[q] = runs[q]
    <3> HIDE DEF r
    <3> QED
      BY <1>1, <1>4, <2>1 DEF RunsType
  <2> HIDE DEF r
  <2>11. CallersInv'
    <3>1. /\ Answered(key, r) \in [pc: {"idle", "offered", "insert", "answered"}, of: Requests,
                                   key: Keys, answer: 0 .. MaxRuns]
          /\ Answered(key, r).pc = "answered" /\ Answered(key, r).key = key
          /\ Answered(key, r).answer = r
      BY <1>1, <2>1, AnsweredFacts
    <3>2. \A b \in Clients : request'[b] = Answered(key, r) \/ request'[b] = request[b]
      BY <1>1, <1>4 DEF RequestType
    <3>3. RequestType'
      BY <1>1, <1>4, <3>1 DEF RequestType
    <3>4. \A b \in Clients : request'[b].pc = "answered" =>
             /\ request'[b].answer \in RunIds /\ runs'[request'[b].answer].job # "absent"
             /\ runs'[request'[b].answer].key = request'[b].key
      BY <1>1, <2>1, <2>4, <2>10, <3>1, <3>2 DEF CallersInv, Told, Present
    <3>5. \A b \in Clients : request'[b].pc = "offered" => Offered(request'[b].of, clock)
      BY <1>1, <3>1, <3>2 DEF CallersInv, Told
    <3>6. Told'
      BY <1>2, <3>4, <3>5 DEF Told, Offered, Present
    <3> QED
      BY <3>3, <3>6 DEF CallersInv
  <2>12. TimesType' /\ BarsInv'
    BY <1>2, TimesStay, BarsStay DEF IInv, others
  <2>13. WorkerInv'
    <3>1. worker.pc # "idle" => worker.run # r
      BY <2>1, Held DEF IInv, Present
    <3>2. worker.pc # "idle" => runs'[worker.run] = runs[worker.run] /\ runs[worker.run].job = "running"
      BY <2>10, <3>1, Held DEF IInv
    <3> QED
      BY <1>2, <3>2, WorkerStays DEF IInv, others
  <2> QED
    BY <2>9, <2>11, <2>12, <2>13 DEF IInv
<1> QED
  BY <1>3, <1>4 DEF Insert

\* A job's status moves on before the run is committed.
LEMMA JobMoves ==
    ASSUME RecordsInv, NEW r \in RunIds, NEW new \in Runs, runs' = [runs EXCEPT ![r] = new],
           UNCHANGED <<created, outputs, picks>>, runs[r].job \in {"queued", "running"},
           new.job \in {"running", "cancelled"}, new.run = runs[r].run,
           new.key = runs[r].key, new.stages = runs[r].stages
    PROVE  RecordsInv'
<1>1. Uncommitted(r) /\ Present(r)
  BY DEF Uncommitted, Present
<1>2. /\ new.run = "queued" /\ \A s \in StageIds : new.stages[s] \in Fixed
  BY <1>1, UncommittedIsPristine DEF Pristine
<1>3. /\ new.stages[0].status # "none"
      /\ new.stages[Review].status # "none" =>
            \A d \in OpenDates : new.stages[d].status # "none"
      /\ \A q \in RunIds : (Present(q) \/ q = r) <=> q <= created
  BY <1>1 DEF RecordsInv, Inserted
<1>4. \A q \in RunIds : q # r /\ Present(q) => runs[q].key # new.key
  BY <1>1 DEF RecordsInv, OneOfKey
<1>5. created' = created /\ created \in 0 .. MaxRuns
  BY DEF RecordsInv, RunsType
<1> QED
  BY <1>1, <1>2, <1>3, <1>4, <1>5, RowWritten

\* A cancellation changes no stage.
LEMMA CancelStep == ASSUME IInv, NEW r \in RunIds, Cancel(r) PROVE IInv'
<1> DEFINE job == IF runs[r].job = "queued" THEN "cancelled" ELSE runs[r].job
           new == [runs[r] EXCEPT !.cancel = TRUE, !.job = job]
<1>1. runs \in [RunIds -> Runs] /\ runs[r] \in Runs
  BY DEF IInv, RecordsInv, RunsType
<1>2. /\ runs[r].job \in {"queued", "running"}
      /\ UNCHANGED <<clock, calendar, request, created, others>>
  BY DEF Cancel
<1>3. runs' = [runs EXCEPT ![r] = new]
  BY <1>1 DEF Cancel
<1>4. job \in {"running", "cancelled"} /\ (runs[r].job = "running" => job = "running")
  BY <1>2
<1> HIDE DEF job
<1>5. /\ new \in Runs /\ new.job = job /\ new.run = runs[r].run /\ new.key = runs[r].key
      /\ new.stages = runs[r].stages
  BY <1>1, <1>4 DEF Runs, JobStatuses
<1> HIDE DEF new
<1>6. runs'[r] = new /\ \A q \in RunIds : q # r => runs'[q] = runs[q]
  BY <1>1, <1>3
<1>7. RecordsInv'
  BY <1>2, <1>3, <1>4, <1>5, JobMoves DEF IInv, others
<1>8. CallersInv'
  BY <1>2, <1>4, <1>5, <1>6, CallersStay DEF IInv, Present
<1>9. WorkerInv'
  BY <1>2, <1>4, <1>5, <1>6, Held, WorkerStays DEF IInv, others
<1>10. TimesType' /\ BarsInv'
  BY <1>2, TimesStay, BarsStay DEF IInv, others
<1> QED
  BY <1>7, <1>8, <1>9, <1>10 DEF IInv

\* What is past the formal window stays so: what is offered, is offered at the end.
LEMMA OfferedLate ==
    ASSUME TimesType, NEW of \in Requests, Offered(of, clock)
    PROVE  clock >= WindowEnd
<1>1. clock \in Nat /\ WindowEnd \in Nat
  BY Order DEF TimesType
<1>2. ASSUME NEW stage, NEW d, Window(stage, d, clock) = "replay"
      PROVE  clock >= WindowEnd
  BY <1>1, <1>2 DEF Window
<1> QED
  BY <1>2 DEF Offered

\* Time passes.
LEMMA TickStep == ASSUME IInv, Tick PROVE IInv'
<1>1. /\ clock < WindowEnd /\ clock' = clock + 1 /\ clock \in Nat /\ WindowEnd \in Nat
      /\ UNCHANGED <<calendar, request, runs, created, others>>
  BY Order DEF IInv, TimesType, Tick
<1>2. clock' \in 0 .. WindowEnd
  BY <1>1
<1>3. TimesType'
  BY <1>1, <1>2 DEF IInv, TimesType, others
<1>4. RecordsInv' /\ BarsInv'
  BY <1>1, RecordsStay, BarsStay DEF IInv, others
<1>5. WorkerInv'
  BY <1>1, Held, WorkerStays DEF IInv, others
<1>6. \A c \in Clients : request[c].pc # "offered"
  <2>1. \A c \in Clients : request[c].of \in Requests
    BY DEF IInv, CallersInv, RequestType
  <2> QED
    BY <1>1, <2>1, OfferedLate DEF IInv, CallersInv, Told
<1>7. CallersInv'
  BY <1>1, <1>6 DEF IInv, CallersInv, RequestType, Told, Present
<1> QED
  BY <1>3, <1>4, <1>5, <1>7 DEF IInv

\* The calendar becomes known.
LEMMA PrepareStep == ASSUME IInv, PrepareCalendar PROVE IInv'
<1>1. /\ calendar = "incomplete" /\ calendar' \in {"ready", "conflicted"}
      /\ UNCHANGED <<clock, request, runs, created, others>>
  BY DEF PrepareCalendar, Reconciled
<1>2. TimesType'
  BY <1>1 DEF IInv, TimesType, others
<1>3. RecordsInv' /\ BarsInv'
  BY <1>1, RecordsStay, BarsStay DEF IInv, others
<1>4. WorkerInv'
  BY <1>1, Held, WorkerStays DEF IInv, others
<1>5. \A c \in Clients : request[c].pc # "offered"
  BY <1>1 DEF IInv, CallersInv, Told, Offered
<1>6. CallersInv'
  BY <1>1, <1>5 DEF IInv, CallersInv, RequestType, Told, Present
<1> QED
  BY <1>2, <1>3, <1>4, <1>6 DEF IInv

\* All requests keep the invariant.
LEMMA ApiStep == ASSUME IInv, Api PROVE IInv'
<1>1. ASSUME NEW c \in Clients, NextRequest(c) PROVE IInv'
  BY <1>1, IdleStep DEF NextRequest
<1> QED
  BY <1>1, TickStep, PrepareStep, OfferStep, EnqueueStep, InsertStep, CancelStep DEF Api

-----------------------------------------------------------------------------
(* The bars                                                                *)

\* What a running calculation saw, or lacked, it still sees or lacks, whatever is
\* stored late.
LEMMA BarsArrive ==
    ASSUME BarsInv, BarsType', worker' = worker, base' = base,
           worker.pc # "idle" => late \subseteq late' /\ view \ late' = view' \ late'
    PROVE  BarsInv'
<1>1. ASSUME NEW s
      PROVE  /\ Needs(s)' = Needs(s) /\ NextStage(s)' = NextStage(s)
             /\ Blocked(s)' = Blocked(s)
  BY DEF Needs, SelectionNeeds, BriefNeeds, ReviewNeeds, NextStage, Waiting, Blocked
<1>2. CASE worker.pc = "idle"
  BY <1>2 DEF BarsInv, OneVintage, Repairing, SameView
<1>3. CASE worker.pc # "idle"
  <2>1. base \cup late \subseteq base' \cup late' /\ base' \ late' \subseteq base \ late
    BY <1>3
  <2>2. OneVintage'
    BY <1>1, <1>3, <2>1 DEF BarsInv, OneVintage
  <2>3. Repairing'
    BY <1>1, <2>1 DEF BarsInv, Repairing, Lacking
  <2>4. SameView'
    <3>1. view \ late = base \ late /\ late \subseteq late' /\ view \ late' = view' \ late'
      BY <1>3 DEF BarsInv, SameView
    <3>2. view' \ late' = base' \ late'
      BY <3>1
    <3> QED
      BY <3>2 DEF SameView
  <2> QED
    BY <2>2, <2>3, <2>4 DEF BarsInv
<1> QED
  BY <1>2, <1>3

\* Another collection changes only bars.
LEMMA CollectStep == ASSUME IInv, Collect PROVE IInv'
<1>1. UNCHANGED table /\ worker' = worker /\ base' = base /\ BarsInv /\ BarsType
  BY DEF IInv, BarsInv, Collect, CollectFetch, CollectStore
<1>2. /\ clock' = clock /\ calendar' = calendar /\ request' = request /\ runs' = runs
      /\ created' = created /\ outputs' = outputs /\ picks' = picks
  BY <1>1 DEF table
<1>3. RecordsInv' /\ CallersInv' /\ WorkerInv'
  BY <1>1, <1>2, Held, RecordsStay, CallersStay, WorkerStays DEF IInv, Present
<1>4. CASE CollectFetch
  <2>1. PICK c \in Codes, d \in Days, good \in BOOLEAN :
           flight' = [bars |-> IF good THEN BarsOf({c}, d) \ stored ELSE BarsOf({c}, d) \cap stored,
                      good |-> good, newer |-> {}, since |-> worker.pc # "idle"]
    BY <1>4 DEF CollectFetch
  <2>2. flight' \in Flights
    <3>1. BarsOf({c}, d) \subseteq Bars
      BY DEF BarsOf, Bars
    <3> QED
      BY <2>1, <3>1 DEF Flights
  <2>3. /\ stored' = stored /\ view' = view /\ late' = late /\ aborts' = aborts
        /\ collects < MaxCollects /\ collects' = collects + 1
    BY <1>4 DEF CollectFetch
  <2>4. BarsType'
    BY <1>1, <2>2, <2>3 DEF BarsType
  <2>5. BarsInv'
    BY <1>1, <2>3, <2>4, BarsArrive
  <2>6. TimesType'
    <3>1. collects' \in 0 .. MaxCollects
      BY <2>3, ReplayAssumption DEF IInv, TimesType
    <3> QED
      BY <1>2, <2>3, <3>1 DEF IInv, TimesType
  <2> QED
    BY <1>3, <2>5, <2>6 DEF IInv
<1>5. CASE CollectStore
  <2>1. /\ stored' = Put(stored, flight.bars \ flight.newer, flight.good) /\ flight' = NoFlight
        /\ collects' = collects /\ aborts' = aborts
        /\ \/ view' = view /\ late' = late
           \/ view' = Put(view, flight.bars, flight.good) /\ late' = late \cup flight.bars
    BY <1>5 DEF CollectStore
  <2>2. flight.bars \subseteq Bars
    BY <1>1 DEF BarsType, Flights
  <2>3. \A S, B : S \subseteq Bars /\ B \subseteq Bars => Put(S, B, flight.good) \subseteq Bars
    BY DEF Put
  <2>4. stored' \subseteq Bars /\ view' \subseteq Bars /\ late' \subseteq Bars
    BY <1>1, <2>1, <2>2, <2>3 DEF BarsType
  <2>5. BarsType'
    BY <1>1, <2>1, <2>4 DEF BarsType, NoFlight, Flights
  <2>6. late \subseteq late' /\ view \ late' = view' \ late'
    BY <2>1 DEF Put
  <2>7. BarsInv'
    BY <1>1, <2>5, <2>6, BarsArrive
  <2>8. TimesType'
    BY <1>2, <2>1, TimesStay DEF IInv
  <2> QED
    BY <1>3, <2>7, <2>8 DEF IInv
<1> QED
  BY <1>4, <1>5 DEF Collect

-----------------------------------------------------------------------------
(* The worker takes a run                                                  *)

\* An idle worker has done nothing and seen nothing.
LEMMA Rested ==
    ASSUME worker' = IdleWorker
    PROVE  WorkerInv' /\ OneVintage' /\ Repairing' /\ SameView'
<1>1. /\ worker'.pc = "idle" /\ worker'.made = {}
      /\ worker'.stages = [s \in StageIds |-> NoStage]
  BY IdleWorkerFacts
<1>2. \A s \in StageIds : worker'.stages[s] = NoStage
  BY <1>1
<1>3. WorkerType'
  BY IdleWorkerFacts DEF WorkerType
<1>4. \A s \in StageIds : worker'.stages[s].status = "none"
  BY <1>2, FixedFacts
<1>5. Holding' /\ OneVintage' /\ Repairing' /\ SameView'
  BY <1>1 DEF Holding, OneVintage, Repairing, SameView
<1>6. Consistent'
  BY <1>1, <1>4, Order DEF Consistent, Is
<1> QED
  BY <1>3, <1>5, <1>6 DEF WorkerInv

\* A claimed run is queued, with no output yet.
LEMMA ClaimStep == ASSUME IInv, Claim PROVE IInv'
<1>1. PICK r \in RunIds :
         /\ runs[r].job = "queued" /\ runs' = [runs EXCEPT ![r].job = "running"]
         /\ worker' = [IdleWorker EXCEPT !.pc = "claimed", !.run = r]
  BY DEF Claim, Queued
<1>2. /\ worker.pc = "idle" /\ view' = stored /\ base' = stored
      /\ flight' = [flight EXCEPT !.bars = @ \ flight.newer, !.newer = {}, !.since = FALSE]
      /\ UNCHANGED <<clock, calendar, request, created, outputs, picks, stored, late, collects,
                     aborts>>
  BY DEF Claim
<1> DEFINE new == [runs[r] EXCEPT !.job = "running"]
<1>3. runs \in [RunIds -> Runs] /\ runs[r] \in Runs
  BY DEF IInv, RecordsInv, RunsType
<1>4. runs' = [runs EXCEPT ![r] = new]
  BY <1>1, <1>3
<1>5. /\ new \in Runs /\ new.job = "running" /\ new.run = runs[r].run /\ new.key = runs[r].key
      /\ new.stages = runs[r].stages
  BY <1>3 DEF Runs, JobStatuses
<1> HIDE DEF new
<1>6. runs'[r] = new /\ \A q \in RunIds : q # r => runs'[q] = runs[q]
  BY <1>3, <1>4
<1>7. RecordsInv'
  BY <1>1, <1>2, <1>4, <1>5, JobMoves DEF IInv
<1>8. CallersInv'
  BY <1>2, <1>5, <1>6, CallersStay DEF IInv, Present
<1>9. /\ worker'.pc = "claimed" /\ worker'.run = r /\ worker'.made = {}
      /\ worker'.stages = [s \in StageIds |-> NoStage]
  BY <1>1, IdleWorkerFacts DEF IdleWorker
<1>10. \A s \in StageIds : worker'.stages[s] = NoStage /\ worker'.stages[s].status = "none"
                           /\ worker'.stages[s].error = ""
  BY <1>9, FixedFacts
<1>11. WorkerType'
  <2>1. r \in 0 .. MaxRuns
    BY RunsAreNumbers
  <2> QED
    BY <1>1, <2>1, IdleWorkerFacts DEF WorkerType
<1>12. Holding'
  BY <1>5, <1>6, <1>9, NoRunFacts DEF Holding
<1>13. Consistent'
  BY <1>9, <1>10, Order DEF Consistent, Is
<1>14. BarsInv'
  <2>1. BarsType'
    <3>1. flight' \in Flights
      BY <1>2 DEF IInv, BarsInv, BarsType, Flights
    <3> QED
      BY <1>2, <3>1 DEF IInv, BarsInv, BarsType
  <2>2. OneVintage' /\ Repairing'
    BY <1>9, <1>10 DEF OneVintage, Repairing
  <2>3. SameView'
    BY <1>2 DEF SameView
  <2> QED
    BY <2>1, <2>2, <2>3 DEF BarsInv
<1>15. TimesType'
  BY <1>2, TimesStay DEF IInv
<1> QED
  BY <1>7, <1>8, <1>11, <1>12, <1>13, <1>14, <1>15 DEF IInv, WorkerInv

\* A lost transaction leaves what was committed before it.
LEMMA AbortStep == ASSUME IInv, Abort PROVE IInv'
<1>1. /\ aborts < MaxAborts /\ aborts' = aborts + 1 /\ worker' = IdleWorker /\ view' = {}
      /\ base' = {} /\ late' = {} /\ UNCHANGED table /\ stored' = stored /\ flight' = flight
      /\ collects' = collects
  BY DEF Abort
<1>2. /\ clock' = clock /\ calendar' = calendar /\ request' = request /\ runs' = runs
      /\ created' = created /\ outputs' = outputs /\ picks' = picks
  BY <1>1 DEF table
<1>3. RecordsInv' /\ CallersInv'
  BY <1>2, RecordsStay, CallersStay DEF IInv, Present
<1>4. WorkerInv' /\ OneVintage' /\ Repairing' /\ SameView'
  BY <1>1, Rested
<1>5. BarsType'
  BY <1>1 DEF IInv, BarsInv, BarsType
<1>6. TimesType'
  <2>1. aborts' \in 0 .. MaxAborts
    BY <1>1, ReplayAssumption DEF IInv, TimesType
  <2> QED
    BY <1>1, <1>2, <2>1 DEF IInv, TimesType
<1> QED
  BY <1>3, <1>4, <1>5, <1>6 DEF IInv, BarsInv

-----------------------------------------------------------------------------
(* The worker carries a run out                                            *)

\* A stage whose turn it is comes after the selection, and the review after all others.
LEMMA Turn ==
    ASSUME IInv, worker.pc \in {"open", "repair", "retry"}, NEW s \in StageIds, NextStage(s)
    PROVE  /\ Is(s, "queued")
           /\ \A q \in StageIds : q < s => ~ Is(q, "queued")
           /\ ~ Is(0, "none")
           /\ s # 0 => ~ Is(0, "queued")
           /\ s = Review => \A d \in OpenDates : ~ Is(d, "queued") /\ ~ Is(d, "none")
           /\ ~ Blocked(s) /\ s # 0 => Is(0, "succeeded")
           /\ ~ Blocked(s) /\ s = Review => \A d \in OpenDates : Is(d, "succeeded")
           /\ s \in OpenDates /\ Blocked(s) => ~ Is(0, "succeeded")
<1>1. Is(s, "queued") /\ \A q \in StageIds : Is(q, "queued") => s <= q
  BY DEF NextStage, Waiting, Is
<1>2. \A q \in StageIds : q < s => ~ Is(q, "queued")
  BY <1>1, Order
<1>3. s # 0 => ~ Is(0, "queued")
  BY <1>2, Order
<1>4. PICK r \in RunIds : r = worker.run /\ runs[r].job = "running"
  BY Held DEF IInv
<1>5. /\ \A q \in StageIds : Is(q, "none") <=> runs[r].stages[q].status = "none"
      /\ runs[r].stages[0].status # "none"
      /\ runs[r].stages[Review].status # "none" =>
            \A d \in OpenDates : runs[r].stages[d].status # "none"
  BY <1>4 DEF IInv, WorkerInv, Holding, RecordsInv, Inserted, Present, Is
<1>6. ~ Is(0, "none")
  BY <1>5, Order
<1>7. ASSUME s = Review, NEW d \in OpenDates
      PROVE  ~ Is(d, "queued") /\ ~ Is(d, "none")
  <2>1. d \in StageIds /\ d < s
    BY <1>7, Order
  <2>2. ~ Is(s, "none")
    BY <1>1 DEF Is
  <2> QED
    BY <1>2, <1>5, <1>7, <2>1, <2>2
<1>8. \A q \in StageIds : \/ Is(q, "none") \/ Is(q, "queued") \/ Is(q, "succeeded")
                          \/ worker.stages[q].status \in {"failed", "skipped"}
  <2>1. worker.stages \in [StageIds -> Stages]
    BY DEF IInv, WorkerInv, WorkerType
  <2> QED
    BY <2>1 DEF Stages, Is
<1>9. ~ Blocked(s) /\ s # 0 => Is(0, "succeeded")
  <2>1. s # 0 => 0 \in Dependencies(s)
    BY Order DEF Dependencies
  <2> QED
    BY <1>3, <1>6, <1>8, <2>1, Order DEF Blocked
<1>10. ~ Blocked(s) /\ s = Review => \A d \in OpenDates : Is(d, "succeeded")
  <2>1. s = Review => OpenDates \subseteq Dependencies(s)
    BY Order DEF Dependencies
  <2> QED
    BY <1>7, <1>8, <2>1, Order DEF Blocked
<1>11. s \in OpenDates /\ Blocked(s) => ~ Is(0, "succeeded")
  <2>1. s \in OpenDates => Dependencies(s) = {0}
    BY Order DEF Dependencies
  <2> QED
    BY <2>1 DEF Blocked, Is
<1> QED
  BY <1>1, <1>2, <1>3, <1>6, <1>7, <1>9, <1>10, <1>11

\* What has been done agrees with itself when the stage whose turn it is ends.
LEMMA StillConsistent ==
    ASSUME IInv, worker.pc \in {"open", "repair", "retry"}, NEW s \in StageIds, NextStage(s),
           NEW new \in Stages, new.status \in {"succeeded", "failed", "skipped"},
           worker'.stages[s] = new,
           \A q \in StageIds : q # s => worker'.stages[q] = worker.stages[q],
           worker'.made = IF new.status = "succeeded" THEN worker.made \cup {s} ELSE worker.made,
           new.status = "succeeded" => ~ Blocked(s) /\ worker'.picks # {},
           new.status = "skipped" => Blocked(s),
           s = 0 \/ worker'.picks = worker.picks
    PROVE  Consistent'
<1>1. Consistent /\ worker.stages \in [StageIds -> Stages]
  BY DEF IInv, WorkerInv, WorkerType
<1>2. /\ worker'.stages[s] = new
      /\ \A q \in StageIds : q # s => worker'.stages[q] = worker.stages[q]
  OBVIOUS
<1>3. /\ Is(s, "queued") /\ (s # 0 => ~ Is(0, "queued"))
      /\ (~ Blocked(s) /\ s # 0 => Is(0, "succeeded"))
      /\ (~ Blocked(s) /\ s = Review => \A d \in OpenDates : Is(d, "succeeded"))
      /\ (s \in OpenDates /\ Blocked(s) => ~ Is(0, "succeeded"))
  BY Turn
<1>4. \A status : /\ Is(s, status)' <=> new.status = status
                  /\ \A q \in StageIds : q # s => (Is(q, status)' <=> Is(q, status))
  BY <1>2 DEF Is
<1>5. \A status : Is(s, status) => status = "queued"
  BY <1>3 DEF Is
<1>6. worker'.made = {q \in StageIds : worker'.stages[q].status = "succeeded"}
  <2>1. worker.made = {q \in StageIds : worker.stages[q].status = "succeeded"}
        /\ worker.stages[s].status = "queued"
    BY <1>1, <1>3 DEF Consistent, Is
  <2>2. CASE new.status = "succeeded"
    BY <1>2, <2>1, <2>2
  <2>3. CASE new.status # "succeeded"
    BY <1>2, <2>1, <2>3
  <2> QED
    BY <2>2, <2>3
<1>7. ~ Is(0, "queued")'
  BY <1>3, <1>4, Order
<1>8. \A q \in StageIds : Is(q, "succeeded")' => Is(0, "succeeded")'
  BY <1>1, <1>3, <1>4, <1>5, Order DEF Consistent
<1>9. Is(0, "succeeded")' => worker'.picks # {}
  BY <1>1, <1>4, Order DEF Consistent
<1>10. Is(Review, "succeeded")' => \A d \in OpenDates : Is(d, "succeeded")'
  BY <1>1, <1>3, <1>4, <1>5, Order DEF Consistent
<1>11. \A d \in OpenDates : Is(d, "skipped")' => ~ Is(0, "succeeded")'
  <2>1. SUFFICES ASSUME NEW d \in OpenDates, Is(d, "skipped")' PROVE ~ Is(0, "succeeded")'
    OBVIOUS
  <2>2. d \in StageIds /\ d # 0 /\ 0 \in StageIds
    BY Order
  <2>3. CASE s = d
    BY <1>3, <1>4, <2>1, <2>2, <2>3
  <2>4. CASE s # d
    <3>1. Is(d, "skipped")
      BY <1>4, <2>1, <2>2, <2>4
    <3>2. s # 0
      <4>1. s = 0 => worker.stages[d] \in Fixed
        BY <1>1, <1>3, <2>2 DEF Consistent
      <4> QED
        BY <3>1, <4>1, FixedFacts DEF Is
    <3> QED
      BY <1>1, <1>4, <2>2, <3>1, <3>2 DEF Consistent
  <2> QED
    BY <2>3, <2>4
<1>12. \A q \in StageIds : worker'.stages[q].status = "queued" => worker'.stages[q].error = ""
  <2>1. \A q \in StageIds : worker.stages[q].status = "queued" => worker.stages[q].error = ""
    BY <1>1 DEF Consistent, Is
  <2> QED
    BY <1>2, <2>1
<1> QED
  BY <1>6, <1>7, <1>8, <1>9, <1>10, <1>11, <1>12 DEF Consistent, Is

\* What a stage needs depends on the selection, and the selection's needs on nothing.
LEMMA NeedsStay ==
    /\ Needs(0)' = Needs(0)
    /\ worker'.picks = worker.picks => \A s : Needs(s)' = Needs(s)
BY DEF Needs, SelectionNeeds, BriefNeeds, ReviewNeeds

\* A stage that reports no missing codes sees all it needs.
LEMMA NothingMissing ==
    ASSUME NEW s, Missing(s) = {}
    PROVE  Needs(s) \subseteq view
<1>1. \A b \in Needs(s) \ Visible : b[1] \in Missing(s)
  BY DEF Missing
<1> QED
  BY <1>1 DEF Visible

\* A stage with missing bars lacks data.
LEMMA SomeMissing ==
    ASSUME IInv, worker.pc # "idle", NEW s, Missing(s) # {}
    PROVE  Lacking(s)
BY DEF Missing, Visible, Lacking, IInv, BarsInv, SameView

\* The transaction ends a stage; a repair changes nothing that it sees.
LEMMA StageEnds ==
    ASSUME IInv, worker.pc \in {"open", "repair", "retry"}, NEW s \in StageIds, NextStage(s),
           NEW new \in Stages, new.status \in {"succeeded", "failed", "skipped"},
           WorkerType', worker'.pc = "open", worker'.run = worker.run,
           worker'.stages[s] = new,
           \A q \in StageIds : q # s => worker'.stages[q] = worker.stages[q],
           worker'.made = IF new.status = "succeeded" THEN worker.made \cup {s} ELSE worker.made,
           new.status = "succeeded" => /\ ~ Blocked(s) /\ worker'.picks # {} /\ new.error # "data"
                                       /\ Missing(s) = {},
           new.status = "skipped" => Blocked(s),
           new.error = "data" => Lacking(s) /\ new.status # "succeeded",
           (s = 0 /\ new.status = "succeeded") \/ worker'.picks = worker.picks,
           UNCHANGED <<table, view, base, late, collects, aborts>>, BarsType'
    PROVE  IInv'
<1>1. /\ clock' = clock /\ calendar' = calendar /\ request' = request /\ runs' = runs
      /\ created' = created /\ outputs' = outputs /\ picks' = picks
  BY DEF table
<1>2. TimesType' /\ RecordsInv' /\ CallersInv'
  BY <1>1, TimesStay, RecordsStay, CallersStay DEF IInv, Present
<1>3. Consistent'
  BY StillConsistent
<1>4. worker.stages \in [StageIds -> Stages] /\ Consistent /\ OneVintage
  BY DEF IInv, WorkerInv, WorkerType, BarsInv
<1>5. /\ worker'.stages[s] = new
      /\ \A q \in StageIds : q # s => worker'.stages[q] = worker.stages[q]
  OBVIOUS
<1>6. Holding'
  <2>1. worker.run \in RunIds /\ runs[worker.run].job = "running"
    BY Held DEF IInv
  <2>2. \A q \in StageIds :
           worker'.stages[q].status = "none" <=> runs[worker.run].stages[q].status = "none"
    <3>1. \A q \in StageIds :
             worker.stages[q].status = "none" <=> runs[worker.run].stages[q].status = "none"
      BY DEF IInv, WorkerInv, Holding
    <3>2. worker.stages[s].status = "queued"
      BY DEF NextStage, Waiting
    <3> QED
      BY <1>5, <3>1, <3>2
  <2> QED
    BY <1>1, <2>1, <2>2 DEF Holding
<1>7. view' = view /\ base' = base /\ late' = late /\ SameView
  BY DEF IInv, BarsInv
<1>8. ASSUME NEW q \in StageIds
      PROVE  /\ worker'.stages[q].status = "succeeded" => Needs(q)' \subseteq base' \cup late'
             /\ worker'.stages[q].error = "data" =>
                   ~ Needs(q)' \subseteq base' \ late'
  <2>1. CASE q # s /\ worker'.picks = worker.picks
    BY <1>4, <1>5, <1>7, <2>1, NeedsStay DEF OneVintage
  <2>2. CASE q = s
    <3>1. Needs(s)' = Needs(s)
      BY NeedsStay
    <3>2. new.status = "succeeded" => Needs(s) \subseteq base' \cup late'
      BY <1>7, NothingMissing DEF SameView
    <3> QED
      BY <1>5, <1>7, <2>2, <3>1, <3>2 DEF Lacking
  <2>3. CASE q # s /\ s = 0
    <3>1. worker.stages[q] \in Fixed
      BY <1>4, <2>3, Turn DEF Consistent
    <3>2. worker'.stages[q].status \in {"none", "queued"} /\ worker'.stages[q].error = ""
      BY <1>5, <2>3, <3>1, FixedFacts
    <3> QED
      BY <3>2
  <2> QED
    BY <2>1, <2>2, <2>3
<1>9. BarsInv'
  <2>1. OneVintage'
    BY <1>8 DEF OneVintage
  <2>2. Repairing'
    BY DEF Repairing
  <2>3. SameView'
    BY <1>7 DEF SameView
  <2> QED
    BY <2>1, <2>2, <2>3 DEF BarsInv
<1> QED
  BY <1>2, <1>3, <1>6, <1>9 DEF IInv, WorkerInv

\* The transaction is left open without a stage's end.
LEMMA Background ==
    ASSUME IInv, UNCHANGED background
    PROVE  /\ TimesType' /\ RecordsInv' /\ CallersInv' /\ BarsType'
           /\ clock' = clock /\ runs' = runs
           /\ UNCHANGED <<table, stored, flight, view, base, late, collects, aborts>>
<1>1. /\ UNCHANGED table /\ stored' = stored /\ flight' = flight /\ view' = view
      /\ base' = base /\ late' = late /\ collects' = collects /\ aborts' = aborts
  BY DEF background
<1>2. /\ clock' = clock /\ calendar' = calendar /\ request' = request /\ runs' = runs
      /\ created' = created /\ outputs' = outputs /\ picks' = picks
  BY <1>1 DEF table
<1>3. TimesType' /\ RecordsInv' /\ CallersInv'
  BY <1>1, <1>2, TimesStay, RecordsStay, CallersStay DEF IInv, Present
<1>4. BarsType'
  BY <1>1 DEF IInv, BarsInv, BarsType
<1> QED
  BY <1>1, <1>2, <1>3, <1>4

\* The worker's record: its parts, and what marking a stage makes of them.
Workers == [pc: {"idle", "claimed", "open", "repair", "retry"}, run: 0 .. MaxRuns,
            stages: [StageIds -> Stages], made: SUBSET StageIds, picks: SUBSET Codes,
            missing: SUBSET Codes]

Marks(w, v, s, status, error) ==
    /\ v \in Workers /\ v.pc = "open" /\ v.run = w.run
    /\ v.stages[s] \in Stages /\ v.stages[s].status = status /\ v.stages[s].error = error
    /\ \A q \in StageIds : q # s => v.stages[q] = w.stages[q]

\* The three updates of a stage that the model makes, and the choice of a selection.
Skipping(w, s) == [w EXCEPT !.stages[s].status = "skipped", !.stages[s].error = "dependency"]
Failing(w, s, error) == [w EXCEPT !.pc = "open", !.stages[s].status = "failed",
                                  !.stages[s].error = error]
Finishing(w, s) == [w EXCEPT !.pc = "open", !.stages[s].status = "succeeded", !.made = @ \cup {s}]
Choosing(w, sel) == [w EXCEPT !.picks = sel]

\* Skipping marks one stage as skipped.
LEMMA SkippingMarks ==
    ASSUME NEW w \in Workers, w.pc = "open", NEW s \in StageIds
    PROVE  /\ Marks(w, Skipping(w, s), s, "skipped", "dependency")
           /\ Skipping(w, s).made = w.made /\ Skipping(w, s).picks = w.picks
<1> DEFINE stages == [w.stages EXCEPT ![s].status = "skipped", ![s].error = "dependency"]
           v == Skipping(w, s)
<1>1. w.stages \in [StageIds -> Stages]
  BY DEF Workers
<1>2. /\ stages \in [StageIds -> Stages] /\ stages[s].status = "skipped"
      /\ stages[s].error = "dependency"
      /\ \A q \in StageIds : q # s => stages[q] = w.stages[q]
  BY <1>1 DEF Stages
<1>3. v.stages = stages
  BY DEF Workers, Skipping
<1> HIDE DEF stages
<1>4. v \in Workers /\ v.pc = "open" /\ v.run = w.run /\ v.made = w.made /\ v.picks = w.picks
  BY <1>2, <1>3 DEF Workers, Skipping
<1> HIDE DEF v
<1> QED
  BY <1>2, <1>3, <1>4 DEF Marks, v

\* Failing marks one stage with its error.
LEMMA FailingMarks ==
    ASSUME NEW w \in Workers, NEW s \in StageIds, NEW error \in {"data", "other"}
    PROVE  /\ Marks(w, Failing(w, s, error), s, "failed", error)
           /\ Failing(w, s, error).made = w.made /\ Failing(w, s, error).picks = w.picks
<1> DEFINE stages == [w.stages EXCEPT ![s].status = "failed", ![s].error = error]
           v == Failing(w, s, error)
<1>1. w.stages \in [StageIds -> Stages]
  BY DEF Workers
<1>2. /\ stages \in [StageIds -> Stages] /\ stages[s].status = "failed"
      /\ stages[s].error = error
      /\ \A q \in StageIds : q # s => stages[q] = w.stages[q]
  BY <1>1 DEF Stages
<1>3. v.stages = stages
  BY DEF Workers, Failing
<1> HIDE DEF stages
<1>4. v \in Workers /\ v.pc = "open" /\ v.run = w.run /\ v.made = w.made /\ v.picks = w.picks
  BY <1>2, <1>3 DEF Workers, Failing
<1> HIDE DEF v
<1> QED
  BY <1>2, <1>3, <1>4 DEF Marks, v

\* Finishing marks one stage as succeeded, and it alone gets an output.
LEMMA FinishingMarks ==
    ASSUME NEW w \in Workers, NEW s \in StageIds
    PROVE  /\ Marks(w, Finishing(w, s), s, "succeeded", w.stages[s].error)
           /\ Finishing(w, s).made = w.made \cup {s} /\ Finishing(w, s).picks = w.picks
<1> DEFINE stages == [w.stages EXCEPT ![s].status = "succeeded"]
           v == Finishing(w, s)
<1>1. w.stages \in [StageIds -> Stages]
  BY DEF Workers
<1>2. /\ stages \in [StageIds -> Stages] /\ stages[s].status = "succeeded"
      /\ stages[s].error = w.stages[s].error
      /\ \A q \in StageIds : q # s => stages[q] = w.stages[q]
  BY <1>1 DEF Stages
<1>3. v.stages = stages
  BY DEF Workers, Finishing
<1> HIDE DEF stages
<1>4. /\ v \in Workers /\ v.pc = "open" /\ v.run = w.run /\ v.made = w.made \cup {s}
      /\ v.picks = w.picks
  BY <1>2, <1>3 DEF Workers, Finishing
<1> HIDE DEF v
<1> QED
  BY <1>2, <1>3, <1>4 DEF Marks, v

\* Choosing the codes marks nothing more.
LEMMA ChoosingMarks ==
    ASSUME NEW w, NEW v \in Workers, NEW s, NEW status, NEW error, Marks(w, v, s, status, error),
           NEW sel \in SUBSET Codes
    PROVE  /\ Marks(w, Choosing(v, sel), s, status, error)
           /\ Choosing(v, sel).made = v.made /\ Choosing(v, sel).picks = sel
BY DEF Workers, Stages, Marks, Choosing

\* The transaction opens with the stages of its run.
LEMMA OpenStep == ASSUME IInv, Open PROVE IInv'
<1>1. PICK r \in RunIds : r = worker.run /\ runs[r].job = "running"
  BY Held DEF IInv, Open
<1>2. /\ worker.pc = "claimed" /\ UNCHANGED background
      /\ worker' = [worker EXCEPT !.pc = "open", !.stages = runs[r].stages]
  BY <1>1 DEF Open
<1>3. TimesType' /\ RecordsInv' /\ CallersInv' /\ BarsType' /\ runs' = runs
  BY <1>2, Background
<1>4. \A s \in StageIds : runs[r].stages[s] \in Fixed
  BY <1>1, UncommittedIsPristine DEF IInv, Uncommitted, Pristine
<1>5. worker \in Workers /\ worker.made = {} /\ runs[r].stages \in [StageIds -> Stages]
  BY <1>1, <1>2 DEF IInv, WorkerInv, WorkerType, Workers, Holding, RecordsInv, RunsType, Runs
<1>6. /\ worker' \in Workers /\ worker'.pc = "open" /\ worker'.run = r /\ worker'.made = {}
      /\ worker'.stages = runs[r].stages
  <2>1. "open" \in {"idle", "claimed", "open", "repair", "retry"}
    OBVIOUS
  <2> QED
    BY <1>1, <1>2, <1>5, <2>1 DEF Workers
<1>7. \A s \in StageIds : /\ worker'.stages[s] \in Fixed
                          /\ worker'.stages[s].status \in {"none", "queued"}
                          /\ worker'.stages[s].error = ""
  BY <1>4, <1>6, FixedFacts
<1>8. Consistent'
  BY <1>6, <1>7, Order DEF Consistent, Is
<1>9. Holding'
  BY <1>1, <1>3, <1>6 DEF Holding
<1>10. OneVintage' /\ Repairing' /\ SameView'
  <2>1. SameView'
    BY <1>2 DEF SameView, background, IInv, BarsInv
  <2> QED
    BY <1>6, <1>7, <2>1 DEF OneVintage, Repairing
<1>11. WorkerType'
  BY <1>6 DEF WorkerType, Workers
<1> QED
  BY <1>3, <1>8, <1>9, <1>10, <1>11 DEF IInv, WorkerInv, BarsInv

\* A stage fails or is skipped with nothing else happening.
LEMMA Marked ==
    ASSUME IInv, worker.pc \in {"open", "repair", "retry"}, NEW s \in StageIds, NextStage(s),
           UNCHANGED background,
           NEW status \in {"failed", "skipped"}, NEW error \in {"data", "other", "dependency"},
           Marks(worker, worker', s, status, error),
           worker'.made = worker.made, worker'.picks = worker.picks,
           status = "skipped" => Blocked(s),
           error = "data" => Lacking(s)
    PROVE  IInv'
<1>1. PICK new \in Stages : worker'.stages[s] = new /\ new.status = status /\ new.error = error
  BY DEF Marks
<1>2. UNCHANGED <<table, view, base, late, collects, aborts>> /\ BarsType'
  BY Background DEF background
<1>3. /\ WorkerType' /\ worker'.pc = "open" /\ worker'.run = worker.run
      /\ \A q \in StageIds : q # s => worker'.stages[q] = worker.stages[q]
  BY DEF Marks, WorkerType, Workers
<1>4. new.status \in {"succeeded", "failed", "skipped"} /\ new.status # "succeeded"
  BY <1>1
<1> QED
  BY <1>1, <1>2, <1>3, <1>4, StageEnds

\* A stage is skipped when one it depends on did not succeed.
LEMMA SkipStep == ASSUME IInv, Skip PROVE IInv'
<1>1. PICK s \in StageIds :
         /\ NextStage(s) /\ Blocked(s)
         /\ worker' = Skipping(worker, s)
  BY DEF Skip, Waiting, Skipping
<1>2. worker.pc = "open" /\ UNCHANGED background /\ worker \in Workers
  BY DEF Skip, IInv, WorkerInv, WorkerType, Workers
<1>3. /\ Marks(worker, worker', s, "skipped", "dependency")
      /\ worker'.made = worker.made /\ worker'.picks = worker.picks
  BY <1>1, <1>2, SkippingMarks
<1> QED
  BY <1>1, <1>2, <1>3, Marked

\* A stage fails without a repair, or after one.
LEMMA FailStep ==
    ASSUME IInv, worker.pc \in {"open", "retry"}, NEW s \in StageIds, NextStage(s),
           UNCHANGED background, NEW error \in {"data", "other"}, FailStage(s, error),
           error = "data" => Lacking(s)
    PROVE  IInv'
<1>1. worker \in Workers /\ worker' = Failing(worker, s, error)
  BY DEF IInv, WorkerInv, WorkerType, Workers, FailStage, Failing
<1>2. /\ Marks(worker, worker', s, "failed", error)
      /\ worker'.made = worker.made /\ worker'.picks = worker.picks
  BY <1>1, FailingMarks
<1> QED
  BY <1>2, Marked

\* A stage fails for a reason other than its data.
LEMMA FailOtherStep == ASSUME IInv, FailOther PROVE IInv'
<1>1. PICK s \in StageIds : NextStage(s) /\ FailStage(s, "other")
  BY DEF FailOther, Waiting
<1>2. worker.pc \in {"open", "retry"} /\ UNCHANGED background
  BY DEF FailOther
<1> QED
  BY <1>1, <1>2, FailStep

\* A calculation succeeds: the stage's output is made.
LEMMA CalculateStep ==
    ASSUME IInv, worker.pc \in {"open", "retry"}, NEW s \in StageIds, NextStage(s),
           ~ Blocked(s), Calculate(s), UNCHANGED background
    PROVE  IInv'
<1>1. worker \in Workers /\ worker.stages[s].error = ""
  BY DEF IInv, WorkerInv, WorkerType, Workers, Consistent, Is, NextStage, Waiting
<1>2. Done(s) = Finishing(worker, s)
  BY DEF Done, Finishing
<1>3. /\ Marks(worker, Done(s), s, "succeeded", "")
      /\ Done(s).made = worker.made \cup {s} /\ Done(s).picks = worker.picks
  BY <1>1, <1>2, FinishingMarks
<1>4. Done(s) \in Workers
  BY <1>3 DEF Marks
<1>5. /\ Marks(worker, worker', s, "succeeded", "") /\ worker'.made = worker.made \cup {s}
      /\ worker'.picks # {} /\ (s = 0 \/ worker'.picks = worker.picks)
  <2>1. CASE PersistSelection(s)
    <3>1. PICK sel \in (SUBSET Codes) \ {{}} : worker' = Choosing(Done(s), sel)
      BY <2>1 DEF PersistSelection, Choosing
    <3>2. sel \in SUBSET Codes /\ sel # {} /\ s = 0
      BY <2>1, <3>1 DEF PersistSelection
    <3>3. /\ Marks(worker, Choosing(Done(s), sel), s, "succeeded", "")
          /\ Choosing(Done(s), sel).made = Done(s).made /\ Choosing(Done(s), sel).picks = sel
      <4>1. PICK v \in Workers : v = Done(s)
        BY <1>4
      <4>2. Marks(worker, v, s, "succeeded", "")
        BY <1>3, <4>1
      <4>3. /\ Marks(worker, Choosing(v, sel), s, "succeeded", "")
            /\ Choosing(v, sel).made = v.made /\ Choosing(v, sel).picks = sel
        BY <3>2, <4>2, ChoosingMarks
      <4> QED
        BY <4>1, <4>3
    <3> QED
      BY <1>3, <3>1, <3>2, <3>3
  <2>2. CASE worker.picks # {} /\ worker' = Done(s)
    BY <1>3, <2>2
  <2> QED
    BY <2>1, <2>2 DEF Calculate, PersistBrief, PersistReview
<1>6. PICK new \in Stages : worker'.stages[s] = new /\ new.status = "succeeded" /\ new.error = ""
  BY <1>5 DEF Marks
<1>7. UNCHANGED <<table, view, base, late, collects, aborts>> /\ BarsType'
  BY Background DEF background
<1>8. /\ WorkerType' /\ worker'.pc = "open" /\ worker'.run = worker.run
      /\ \A q \in StageIds : q # s => worker'.stages[q] = worker.stages[q]
  BY <1>5 DEF Marks, WorkerType, Workers
<1>9. Missing(s) = {}
  BY DEF Calculate
<1> QED
  BY <1>5, <1>6, <1>7, <1>8, <1>9, StageEnds

\* A stage is taken to the repair, or from it to its second attempt.
LEMMA StageGoesOn ==
    ASSUME IInv, worker.pc \in {"open", "repair"}, NEW s \in StageIds, NextStage(s), ~ Blocked(s),
           WorkerType', worker'.pc \in {"repair", "retry"},
           worker'.run = worker.run, worker'.made = worker.made, worker'.picks = worker.picks,
           \A q \in StageIds : /\ worker'.stages[q].status = worker.stages[q].status
                               /\ worker'.stages[q].error = worker.stages[q].error
                               /\ q # s => worker'.stages[q] = worker.stages[q],
           worker'.pc = "repair" => Missing(s) # {},
           UNCHANGED <<table, view, base, late, collects, aborts>>, BarsType'
    PROVE  IInv'
<1>1. /\ clock' = clock /\ calendar' = calendar /\ request' = request /\ runs' = runs
      /\ created' = created /\ outputs' = outputs /\ picks' = picks
  BY DEF table
<1>2. TimesType' /\ RecordsInv' /\ CallersInv'
  BY <1>1, TimesStay, RecordsStay, CallersStay DEF IInv, Present
<1>3. Consistent /\ OneVintage
  BY DEF IInv, WorkerInv, BarsInv
<1>4. Holding'
  <2>1. worker.run \in RunIds /\ runs[worker.run].job = "running"
    BY Held DEF IInv
  <2>2. \A q \in StageIds :
           worker.stages[q].status = "none" <=> runs[worker.run].stages[q].status = "none"
    BY DEF IInv, WorkerInv, Holding
  <2> QED
    BY <1>1, <2>1, <2>2 DEF Holding
<1>5. Consistent'
  <2>1. \A q \in StageIds : \A status : Is(q, status)' <=> Is(q, status)
    BY DEF Is
  <2>2. worker'.made = {q \in StageIds : worker'.stages[q].status = "succeeded"}
    BY <1>3 DEF Consistent, Is
  <2>3. Is(0, "queued") => s = 0
    BY Turn
  <2>4. \A q \in StageIds : Is(q, "queued") => worker'.stages[q].error = ""
    BY <1>3 DEF Consistent
  <2>5. 0 \in StageIds /\ Review \in StageIds /\ OpenDates \subseteq StageIds
    BY Order
  <2>6. Is(0, "queued") => \A q \in StageIds \ {0} : worker'.stages[q] \in Fixed
    BY <1>3, <2>3 DEF Consistent
  <2>7. /\ \A q \in StageIds : Is(q, "queued")' => worker'.stages[q].error = ""
        /\ Is(0, "queued")' => \A q \in StageIds \ {0} : worker'.stages[q] \in Fixed
    BY <2>1, <2>4, <2>5, <2>6
  <2>8. /\ \A q \in StageIds : Is(q, "succeeded")' => Is(0, "succeeded")'
        /\ Is(0, "succeeded")' => worker'.picks # {}
        /\ Is(Review, "succeeded")' => \A d \in OpenDates : Is(d, "succeeded")'
        /\ \A d \in OpenDates : Is(d, "skipped")' => ~ Is(0, "succeeded")'
    BY <1>3, <2>1, <2>5 DEF Consistent
  <2> QED
    BY <2>2, <2>7, <2>8 DEF Consistent, Is
<1>6. view' = view /\ base' = base /\ late' = late /\ SameView
  BY DEF IInv, BarsInv
<1>7. OneVintage'
  <2>1. \A q \in StageIds :
           /\ worker'.stages[q].status = "succeeded" => Needs(q)' \subseteq base' \cup late'
           /\ worker'.stages[q].error = "data" =>
                 ~ Needs(q)' \subseteq base' \ late'
    BY <1>3, <1>6, NeedsStay DEF OneVintage
  <2> QED
    BY <2>1 DEF OneVintage
<1>8. Repairing'
  <2>1. \A q \in StageIds : NextStage(q)' => q = s
    <3>1. \A q : q \in Waiting' <=> q \in Waiting
      BY DEF Waiting
    <3>2. \A q \in StageIds : NextStage(q)' => q <= s /\ s <= q
      BY <3>1 DEF NextStage
    <3> QED
      BY <3>2, Order
  <2>2. ~ Blocked(s)'
    <3>1. Dependencies(s) \subseteq StageIds
      BY Order DEF Dependencies
    <3> QED
      BY <3>1 DEF Blocked
  <2>3. worker'.pc = "repair" => Lacking(s)'
    BY <1>6, SomeMissing, NeedsStay DEF Lacking
  <2> QED
    BY <2>1, <2>2, <2>3 DEF Repairing
<1>9. SameView'
  BY <1>6 DEF SameView
<1> QED
  BY <1>2, <1>4, <1>5, <1>7, <1>8, <1>9 DEF IInv, WorkerInv, BarsInv

\* A stage reports classified stocks only.
LEMMA MissingCodes ==
    ASSUME WorkerType, NEW s \in StageIds
    PROVE  Missing(s) \subseteq Codes
<1>1. worker.picks \subseteq Codes
  BY DEF WorkerType
<1>2. \A c \in worker.picks : Peers[c] \subseteq Codes
  BY <1>1, ReplayAssumption
<1>3. \A b \in Needs(s) : b[1] \in Codes
  BY <1>1, <1>2 DEF Needs, SelectionNeeds, BriefNeeds, ReviewNeeds
<1> QED
  BY <1>3 DEF Missing

\* A stage is tried: it succeeds, or asks for a repair.
LEMMA AttemptStep == ASSUME IInv, Attempt PROVE IInv'
<1>1. worker.pc = "open" /\ UNCHANGED background
  BY DEF Attempt
<1>2. PICK s \in StageIds :
         /\ NextStage(s) /\ ~ Blocked(s)
         /\ \/ Calculate(s)
            \/ /\ Missing(s) # {}
               /\ worker' = [worker EXCEPT !.pc = "repair", !.missing = Missing(s)]
  BY DEF Attempt, Waiting
<1>3. CASE Calculate(s)
  BY <1>1, <1>2, <1>3, CalculateStep
<1>4. CASE Missing(s) # {} /\ worker' = [worker EXCEPT !.pc = "repair", !.missing = Missing(s)]
  <2>1. worker \in Workers
    BY DEF IInv, WorkerInv, WorkerType, Workers
  <2>2. /\ worker' \in Workers /\ worker'.pc = "repair" /\ worker'.run = worker.run
        /\ worker'.made = worker.made /\ worker'.picks = worker.picks
        /\ worker'.stages = worker.stages
    <3>1. "repair" \in {"idle", "claimed", "open", "repair", "retry"}
      OBVIOUS
    <3>2. Missing(s) \in SUBSET Codes
      BY MissingCodes DEF IInv, WorkerInv
    <3> QED
      BY <1>4, <2>1, <3>1, <3>2 DEF Workers
  <2>3. UNCHANGED <<table, view, base, late, collects, aborts>> /\ BarsType'
    BY <1>1, Background DEF background
  <2>4. WorkerType'
    BY <2>2 DEF WorkerType, Workers
  <2> QED
    BY <1>1, <1>2, <1>4, <2>2, <2>3, <2>4, StageGoesOn
<1> QED
  BY <1>2, <1>3, <1>4

\* A stage is tried once more after its repair.
LEMMA RetryStep == ASSUME IInv, Retry PROVE IInv'
<1>1. worker.pc = "retry" /\ UNCHANGED background
  BY DEF Retry
<1>2. PICK s \in StageIds :
         /\ NextStage(s) /\ (Calculate(s) \/ (Missing(s) # {} /\ FailStage(s, "data")))
  BY DEF Retry, Waiting
<1>3. ~ Blocked(s)
  BY <1>1, <1>2 DEF IInv, BarsInv, Repairing
<1>4. CASE Calculate(s)
  BY <1>1, <1>2, <1>3, <1>4, CalculateStep
<1>5. CASE Missing(s) # {} /\ FailStage(s, "data")
  BY <1>1, <1>2, <1>5, SomeMissing, FailStep
<1> QED
  BY <1>2, <1>4, <1>5

\* The worker's record after a repair.
Retrying(w, s, result) == [w EXCEPT !.pc = "retry", !.missing = {}, !.stages[s].repair = result]
GivingUp(w, s, result) ==
    [w EXCEPT !.pc = "open", !.missing = {},
              !.stages[s] = [status |-> "failed", error |-> "data", repair |-> result]]

GoesOn(w, v, s) ==
    /\ v \in Workers /\ v.pc = "retry" /\ v.run = w.run /\ v.made = w.made /\ v.picks = w.picks
    /\ \A q \in StageIds : /\ v.stages[q].status = w.stages[q].status
                           /\ v.stages[q].error = w.stages[q].error
                           /\ q # s => v.stages[q] = w.stages[q]

\* A repair that confirmed something leaves every stage's status and error.
LEMMA RetryingGoesOn ==
    ASSUME NEW w \in Workers, NEW s \in StageIds, NEW result \in {"completed", "partial"}
    PROVE  GoesOn(w, Retrying(w, s, result), s)
<1> DEFINE stages == [w.stages EXCEPT ![s].repair = result]
           v == Retrying(w, s, result)
<1>1. w.stages \in [StageIds -> Stages]
  BY DEF Workers
<1>2. /\ stages \in [StageIds -> Stages]
      /\ \A q \in StageIds : /\ stages[q].status = w.stages[q].status
                             /\ stages[q].error = w.stages[q].error
                             /\ q # s => stages[q] = w.stages[q]
  BY <1>1 DEF Stages
<1>3. v.stages = stages
  BY DEF Workers, Retrying
<1> HIDE DEF stages
<1>4. v \in Workers /\ v.pc = "retry" /\ v.run = w.run /\ v.made = w.made /\ v.picks = w.picks
  BY <1>2, <1>3 DEF Workers, Retrying
<1> HIDE DEF GoesOn, v
<1> QED
  BY <1>2, <1>3, <1>4 DEF GoesOn, v

\* A repair that was rejected, or confirmed nothing, fails the stage.
LEMMA GivingUpMarks ==
    ASSUME NEW w \in Workers, NEW s \in StageIds, NEW result \in {"failed", "rejected"}
    PROVE  /\ Marks(w, GivingUp(w, s, result), s, "failed", "data")
           /\ GivingUp(w, s, result).made = w.made /\ GivingUp(w, s, result).picks = w.picks
<1> DEFINE new == [status |-> "failed", error |-> "data", repair |-> result]
           stages == [w.stages EXCEPT ![s] = new]
           v == GivingUp(w, s, result)
<1>1. w.stages \in [StageIds -> Stages] /\ new \in Stages
  BY DEF Workers, Stages
<1>2. /\ stages \in [StageIds -> Stages] /\ stages[s] = new
      /\ \A q \in StageIds : q # s => stages[q] = w.stages[q]
  BY <1>1
<1>3. v.stages = stages
  BY DEF Workers, GivingUp
<1>4. new.status = "failed" /\ new.error = "data"
  OBVIOUS
<1> HIDE DEF stages, new
<1>5. v \in Workers /\ v.pc = "open" /\ v.run = w.run /\ v.made = w.made /\ v.picks = w.picks
  BY <1>2, <1>3 DEF Workers, GivingUp
<1> HIDE DEF v
<1> QED
  BY <1>1, <1>2, <1>3, <1>4, <1>5 DEF Marks, v

\* A repair stores bars that no calculation of this run will read.
LEMMA RepairStep == ASSUME IInv, Repair PROVE IInv'
<1>1. PICK s \in Waiting, delivered \in SUBSET worker.missing, spoilt \in SUBSET worker.missing,
           result \in {"completed", "partial", "failed", "rejected"} :
         /\ NextStage(s)
         /\ stored' = (stored \cup BarsOf(delivered, AsOf(s))) \ BarsOf(spoilt, AsOf(s))
         /\ flight' = [flight EXCEPT !.newer = @ \cup (flight.bars \cap
                                                 BarsOf(delivered \cup spoilt, AsOf(s)))]
         /\ worker' = Repaired(s, result)
  <2>1. PICK s \in Waiting : \E delivered \in SUBSET worker.missing :
        \E got \in SUBSET delivered, spoilt \in SUBSET (worker.missing \ delivered),
           result \in {"completed", "partial", "failed", "rejected"} :
           /\ NextStage(s)
           /\ result = "rejected" <=> Cardinality(worker.missing) > MaxRepair
           /\ result = "rejected" => delivered = {} /\ spoilt = {}
           /\ result = "completed" => got = worker.missing
           /\ result = "partial" => got # {} /\ got # worker.missing
           /\ stored' = (stored \cup BarsOf(delivered, AsOf(s))) \ BarsOf(spoilt, AsOf(s))
           /\ flight' = [flight EXCEPT !.newer = @ \cup (flight.bars \cap
                                                   BarsOf(delivered \cup spoilt, AsOf(s)))]
           /\ worker' = Repaired(s, result)
    BY DEF Repair
  <2>2. PICK delivered \in SUBSET worker.missing :
        \E got \in SUBSET delivered, spoilt \in SUBSET (worker.missing \ delivered),
           result \in {"completed", "partial", "failed", "rejected"} :
           /\ NextStage(s)
           /\ result = "rejected" <=> Cardinality(worker.missing) > MaxRepair
           /\ result = "rejected" => delivered = {} /\ spoilt = {}
           /\ result = "completed" => got = worker.missing
           /\ result = "partial" => got # {} /\ got # worker.missing
           /\ stored' = (stored \cup BarsOf(delivered, AsOf(s))) \ BarsOf(spoilt, AsOf(s))
           /\ flight' = [flight EXCEPT !.newer = @ \cup (flight.bars \cap
                                                   BarsOf(delivered \cup spoilt, AsOf(s)))]
           /\ worker' = Repaired(s, result)
    BY <2>1
  <2> QED
    BY <2>2
<1>2. NextStage(s) /\ worker' = Repaired(s, result)
  BY <1>1
<1>3. worker.pc = "repair" /\ UNCHANGED <<table, view, base, late, collects, aborts>>
  BY DEF Repair
<1> s \in StageIds
  BY DEF Waiting
<1>4. ~ Blocked(s) /\ Lacking(s)
  BY <1>2, <1>3 DEF IInv, BarsInv, Repairing
<1>5. worker \in Workers /\ WorkerType /\ BarsType
  BY DEF IInv, WorkerInv, WorkerType, Workers, BarsInv
<1>6. BarsType'
  <2>1. BarsOf(delivered, AsOf(s)) \subseteq Bars
    <3>1. delivered \subseteq Codes
      BY <1>5 DEF Workers
    <3> QED
      BY <3>1 DEF BarsOf, Bars
  <2>2. stored' \subseteq Bars
    BY <1>1, <1>5, <2>1 DEF BarsType
  <2>3. flight' \in Flights
    <3>1. PICK B : B = BarsOf(delivered \cup spoilt, AsOf(s))
      OBVIOUS
    <3>2. flight \in Flights /\ flight' = [flight EXCEPT !.newer = @ \cup (flight.bars \cap B)]
      BY <1>1, <1>5, <3>1 DEF BarsType
    <3> QED
      BY <3>2 DEF Flights
  <2> QED
    BY <1>3, <1>5, <2>2, <2>3 DEF BarsType
<1>7. CASE result \in {"completed", "partial"}
  <2>1. /\ worker' \in Workers /\ worker'.pc = "retry" /\ worker'.run = worker.run
        /\ worker'.made = worker.made /\ worker'.picks = worker.picks
        /\ \A q \in StageIds : /\ worker'.stages[q].status = worker.stages[q].status
                               /\ worker'.stages[q].error = worker.stages[q].error
                               /\ q # s => worker'.stages[q] = worker.stages[q]
    <3>1. worker' = Retrying(worker, s, result)
      BY <1>2, <1>7 DEF Retrying, Repaired
    <3> QED
      <4>1. GoesOn(worker, worker', s)
        BY <1>5, <1>7, <3>1, RetryingGoesOn
      <4> QED
        BY <4>1 DEF GoesOn
  <2>2. WorkerType'
    BY <2>1 DEF WorkerType, Workers
  <2> QED
    BY <1>2, <1>3, <1>4, <1>6, <2>1, <2>2, StageGoesOn
<1>8. CASE result \in {"failed", "rejected"}
  <2>1. worker' = GivingUp(worker, s, result)
    BY <1>2, <1>8 DEF GivingUp, Repaired
  <2>2. /\ Marks(worker, worker', s, "failed", "data")
        /\ worker'.made = worker.made /\ worker'.picks = worker.picks
    BY <1>5, <1>8, <2>1, GivingUpMarks
  <2>3. PICK mark \in Stages :
           worker'.stages[s] = mark /\ mark.status = "failed" /\ mark.error = "data"
    BY <2>2 DEF Marks
  <2>4. /\ WorkerType' /\ worker'.pc = "open" /\ worker'.run = worker.run
        /\ \A q \in StageIds : q # s => worker'.stages[q] = worker.stages[q]
    BY <2>2 DEF Marks, WorkerType, Workers
  <2> QED
    BY <1>2, <1>3, <1>4, <1>6, <2>2, <2>3, <2>4, StageEnds
<1> QED
  BY <1>7, <1>8

\* What a committed run says agrees with what its transaction has done.
LEMMA CommitAgrees ==
    ASSUME NEW r \in RunIds, Consistent, WorkerType, Waiting = {},
           \A s \in StageIds : <<r, s>> \notin outputs,
           outputs' = outputs \cup ({r} \X worker.made), picks'[r] = worker.picks,
           runs'[r].stages = worker.stages, runs'[r].run = Outcome(worker.stages),
           runs'[r].job = Outcome(worker.stages)
    PROVE  Agree(r)'
<1> DEFINE stages == worker.stages
           done == {s \in StageIds : stages[s].status = "succeeded"}
           asked == {s \in StageIds : stages[s].status # "none"}
<1>1. worker.made = done
  BY DEF Consistent, Is
<1>2. \A s \in StageIds : /\ stages[s].status \in {"none", "succeeded", "failed", "skipped"}
                          /\ stages[s].status # "queued"
  <2>1. \A s \in StageIds : stages[s] \in Stages /\ stages[s].status # "queued"
    BY DEF WorkerType, Waiting
  <2> QED
    BY <2>1 DEF Stages
<1>3. Succeeded(r)' = done /\ StagesAsked(r)' = asked
  BY DEF Succeeded, StagesAsked
<1>4. {s \in StageIds : <<r, s>> \in outputs'} = done
  BY <1>1
<1>5. /\ runs'[r].job \in {"succeeded", "failed"} /\ runs'[r].run = runs'[r].job
      /\ runs'[r].job = "succeeded" <=>
            \A s \in StageIds : stages[s].status \notin {"failed", "skipped"}
  BY DEF Outcome
<1>6. done = asked <=> \A s \in StageIds : stages[s].status \notin {"failed", "skipped"}
  BY <1>2
<1>7. done # {} => 0 \in done /\ worker.picks # {}
  BY Order DEF Consistent, Is
<1>8. Review \in done => OpenDates \subseteq done
  BY Order DEF Consistent, Is
<1>9. \A d \in OpenDates : stages[d].status = "skipped" => 0 \notin done
  BY DEF Consistent, Is
<1>10. \A s \in asked : stages[s].status # "queued"
  BY <1>2
<1> HIDE DEF done, asked
<1> QED
  BY <1>3, <1>4, <1>5, <1>6, <1>7, <1>8, <1>9, <1>10 DEF Agree

\* What is committed agrees.
LEMMA CommitStep == ASSUME IInv, Commit PROVE IInv'
<1>1. PICK r \in RunIds : r = worker.run /\ runs[r].job = "running"
  BY Held DEF IInv, Commit
<1>2. PICK outcome \in {"succeeded", "failed"} : outcome = Outcome(worker.stages)
  BY DEF Outcome
<1>3. /\ Waiting = {} /\ worker.pc = "open" /\ worker' = IdleWorker
      /\ view' = {} /\ base' = {} /\ late' = {}
      /\ UNCHANGED <<clock, calendar, request, created, stored, flight, collects, aborts>>
  BY DEF Commit
<1>4. /\ outputs' = outputs \cup ({r} \X worker.made)
      /\ picks' = [picks EXCEPT ![r] = worker.picks]
      /\ runs' = [runs EXCEPT ![r].stages = worker.stages, ![r].run = outcome,
                              ![r].job = outcome]
  BY <1>1, <1>2 DEF Commit
<1>5. /\ RecordsInv /\ RunsType /\ OutputsType /\ WorkerType /\ Consistent
      /\ Inserted /\ OneOfKey /\ HonestReplay /\ runs \in [RunIds -> Runs]
      /\ picks \in [RunIds -> SUBSET Codes]
  BY DEF IInv, RecordsInv, RunsType, OutputsType, WorkerInv
<1>6. worker.stages \in [StageIds -> Stages] /\ worker.made \subseteq StageIds
      /\ worker.picks \subseteq Codes
  BY <1>5 DEF WorkerType
<1>7. /\ runs'[r] \in Runs /\ runs'[r].stages = worker.stages /\ runs'[r].run = outcome
      /\ runs'[r].job = outcome /\ runs'[r].key = runs[r].key
  <2>1. PICK old \in Runs : old = runs[r]
    BY <1>5
  <2>2. PICK stages \in [StageIds -> Stages] : stages = worker.stages
    BY <1>6
  <2>3. runs'[r] = [old EXCEPT !.stages = stages, !.run = outcome, !.job = outcome]
    BY <1>4, <1>5, <2>1, <2>2
  <2> QED
    BY <1>2, <2>1, <2>2, <2>3 DEF Runs, JobStatuses
<1>8. \A q \in RunIds : q # r => runs'[q] = runs[q]
  BY <1>4, <1>5
<1>9. RunsType'
  <2>1. runs' \in [RunIds -> Runs]
    <3>1. DOMAIN runs' = RunIds /\ runs' = [q \in RunIds |-> runs'[q]]
      BY <1>4, <1>5
    <3>2. \A q \in RunIds : runs'[q] \in Runs
      BY <1>5, <1>7, <1>8
    <3> QED
      BY <3>1, <3>2
  <2> QED
    BY <1>3, <1>5, <2>1 DEF RunsType
<1>10. OutputsType' /\ picks'[r] = worker.picks /\ \A q \in RunIds : q # r => picks'[q] = picks[q]
  <2>1. {r} \X worker.made \subseteq Outputs
    BY <1>6 DEF Outputs
  <2> QED
    BY <1>4, <1>5, <1>6, <2>1 DEF OutputsType
<1>11. HonestReplay'
  <2>1. Agree(r)'
    <3>1. \A s \in StageIds : <<r, s>> \notin outputs
      BY <1>1, <1>5, UncommittedIsPristine DEF Uncommitted, Pristine
    <3> QED
      BY <1>2, <1>3, <1>4, <1>5, <1>7, <1>10, <3>1, CommitAgrees
  <2>2. ASSUME NEW q \in RunIds, q # r PROVE Agree(q)'
    <3>1. \A s \in StageIds : <<q, s>> \in outputs' <=> <<q, s>> \in outputs
      BY <1>4, <2>2
    <3>2. Agree(q) /\ runs'[q] = runs[q] /\ picks'[q] = picks[q]
      BY <1>5, <1>8, <1>10, <2>2 DEF HonestReplay
    <3> QED
      BY <3>1, <3>2, AgreesAlone
  <2> QED
    BY <2>1, <2>2 DEF HonestReplay
<1>12. \A q \in RunIds : runs'[q].job # "absent" <=> runs[q].job # "absent"
  BY <1>1, <1>2, <1>7, <1>8
<1>13. Inserted'
  <2>1. \A q \in RunIds : runs'[q].job # "absent" <=> q <= created'
    BY <1>3, <1>5, <1>12 DEF Inserted, Present
  <2>2. \A q \in RunIds : runs'[q].job \notin {"succeeded", "failed"} =>
           \A s \in StageIds : runs'[q].stages[s] \in Fixed
    BY <1>2, <1>5, <1>7, <1>8 DEF Inserted
  <2>3. \A s \in StageIds :
           worker.stages[s].status = "none" <=> runs[r].stages[s].status = "none"
    BY <1>1, <1>3 DEF IInv, WorkerInv, Holding
  <2>4. \A q \in RunIds : runs'[q].job # "absent" =>
           /\ runs'[q].stages[0].status # "none"
           /\ runs'[q].stages[Review].status # "none" =>
                 \A d \in OpenDates : runs'[q].stages[d].status # "none"
    BY <1>1, <1>5, <1>7, <1>8, <2>3, Order DEF Inserted, Present
  <2> QED
    BY <2>1, <2>2, <2>4 DEF Inserted, Present
<1>14. OneOfKey'
  BY <1>5, <1>7, <1>8, <1>12 DEF OneOfKey, Present
<1>15. RecordsInv'
  BY <1>9, <1>10, <1>11, <1>13, <1>14 DEF RecordsInv
<1>16. CallersInv'
  BY <1>2, <1>3, <1>7, <1>8, CallersStay DEF IInv, Present
<1>17. WorkerInv' /\ OneVintage' /\ Repairing' /\ SameView'
  BY <1>3, Rested
<1>18. BarsType' /\ TimesType'
  BY <1>3, TimesStay DEF IInv, BarsInv, BarsType
<1> QED
  BY <1>15, <1>16, <1>17, <1>18 DEF IInv, BarsInv

\* All the worker's steps keep the invariant.
LEMMA ExecuteStep == ASSUME IInv, Execute PROVE IInv'
BY ClaimStep, OpenStep, SkipStep, AttemptStep, FailOtherStep, RepairStep, RetryStep, CommitStep
   DEF Execute

-----------------------------------------------------------------------------
(* The inductive invariant                                                 *)

\* The invariant holds at the start.
LEMMA Start == ASSUME Init PROVE IInv
<1>1. \A r \in RunIds : runs[r] = NoRun /\ runs[r].job = "absent" /\ runs[r].run = "queued"
                        /\ \A s \in StageIds : runs[r].stages[s] = NoStage
  <2>1. \A r \in RunIds : runs[r] = NoRun
    BY DEF Init
  <2> QED
    BY <2>1, NoRunFacts
<1>2. TimesType
  <2>1. 2 * LastOpen <= WindowEnd /\ LastOpen \in Nat /\ WindowEnd \in Nat
    BY Order
  <2>2. clock \in 0 .. WindowEnd
    BY <2>1 DEF Init
  <2> QED
    BY <2>2, ReplayAssumption DEF TimesType, Init
<1>3. RunsType
  <2>1. 0 \in 0 .. MaxRuns
    BY ReplayAssumption
  <2> QED
    BY <2>1, NoRunFacts DEF Init, RunsType
<1>4. OutputsType
  BY DEF Init, OutputsType
<1>5. HonestReplay
  <2>1. \A r \in RunIds : Uncommitted(r) /\ Pristine(r)
    BY <1>1, FixedFacts DEF Init, Uncommitted, Pristine
  <2> QED
    BY <2>1, PristineAgrees DEF HonestReplay
<1>6. Inserted
  <2>1. \A r \in RunIds : ~ r <= created
    BY ReplayAssumption DEF Init, RunIds
  <2> QED
    BY <1>1, <2>1, FixedFacts DEF Inserted, Present
<1>7. OneOfKey
  BY <1>1 DEF OneOfKey, Present
<1>8. CallersInv
  <2>1. request \in [Clients -> [pc: {"idle", "offered", "insert", "answered"}, of: Requests,
                                 key: Keys, answer: 0 .. MaxRuns]]
        /\ \A c \in Clients : request[c].pc = "idle"
    BY IdleRequestFacts DEF Init
  <2> QED
    BY <2>1 DEF CallersInv, RequestType, Told
<1>9. WorkerInv /\ OneVintage /\ Repairing /\ SameView
  <2>1. /\ worker.pc = "idle" /\ worker.made = {}
        /\ worker.stages = [s \in StageIds |-> NoStage]
    BY IdleWorkerFacts DEF Init
  <2>2. \A s \in StageIds : worker.stages[s].status = "none"
    BY <2>1, FixedFacts
  <2>3. WorkerType
    BY IdleWorkerFacts DEF Init, WorkerType
  <2>4. Holding /\ OneVintage /\ Repairing /\ SameView
    BY <2>1 DEF Holding, OneVintage, Repairing, SameView
  <2>5. Consistent
    BY <2>1, <2>2, Order DEF Consistent, Is
  <2> QED
    BY <2>3, <2>4, <2>5 DEF WorkerInv
<1>10. BarsType
  <2>1. stored \subseteq Bars
    BY DEF Init, Bars
  <2> QED
    BY <2>1 DEF Init, BarsType, NoFlight, Flights
<1> QED
  BY <1>2, <1>3, <1>4, <1>5, <1>6, <1>7, <1>8, <1>9, <1>10 DEF IInv, RecordsInv, BarsInv

\* A step that changes nothing keeps it.
LEMMA Stutter == ASSUME IInv, UNCHANGED vars PROVE IInv'
<1>1. /\ UNCHANGED <<clock, calendar, collects, aborts>> /\ UNCHANGED <<request, clock, calendar>>
      /\ UNCHANGED <<runs, created, outputs, picks>> /\ runs' = runs /\ worker' = worker
      /\ UNCHANGED <<worker, stored, flight, view, base, late>>
  BY DEF vars
<1>2. TimesType' /\ RecordsInv' /\ BarsInv'
  BY <1>1, TimesStay, RecordsStay, BarsStay DEF IInv
<1>3. CallersInv'
  BY <1>1, CallersStay DEF IInv, Present
<1>4. WorkerInv'
  BY <1>1, Held, WorkerStays DEF IInv
<1> QED
  BY <1>2, <1>3, <1>4 DEF IInv

\* Every step keeps it.
LEMMA Step == ASSUME IInv, [Next]_vars PROVE IInv'
BY ApiStep, CollectStep, ExecuteStep, AbortStep, Stutter DEF Next

\* The invariant holds at every moment.
THEOREM Invariant == Spec => []IInv
<1>1. Init => IInv
  BY Start
<1>2. IInv /\ [Next]_vars => IInv'
  BY Step
<1> QED
  BY <1>1, <1>2, PTL DEF Spec

\* Every variable has its type, for any week, universe and number of runs.
THEOREM TypeCorrect == Spec => []TypeOK
<1>1. IInv => TypeOK
  BY TypeParts DEF IInv, RecordsInv, CallersInv, WorkerInv, BarsInv
<1> QED
  BY <1>1, Invariant, PTL

\* Whatever order requests, cancellations, collections, repairs and failures come
\* in, the records of a run agree with each other and with its outputs.
THEOREM HonestRecords == Spec => []HonestReplay
<1>1. IInv => HonestReplay
  BY DEF IInv, RecordsInv
<1> QED
  BY <1>1, Invariant, PTL

\* A run shows the data of the moment at which it read its clock, whatever others
\* and its own repairs fetch, revise and store while it goes on.
THEOREM DataOfOneMoment == Spec => []OneVintage
<1>1. IInv => OneVintage
  BY DEF IInv, BarsInv
<1> QED
  BY <1>1, Invariant, PTL

\* What the eligibility list offers passes the gates of enqueue: what is past the
\* formal window is due as well, and a catch-up has a due date.
LEMMA OfferedIsAccepted ==
    ASSUME TimesType, NEW of \in Requests, Offered(of, clock)
    PROVE  Accepted(of, clock)
<1>1. /\ clock \in Nat /\ WindowEnd \in Nat /\ clock >= WindowEnd
  BY OfferedLate, Order DEF TimesType
<1>2. of.stage \in {"selection", "review", "daily"} /\ (of.fill => of.stage = "daily")
  BY DEF Requests
<1>3. ASSUME NEW d \in OpenDates
      PROVE  Window("daily", d, clock) = "replay"
  <2>1. 2 * d <= clock /\ d \in Nat
    BY <1>1, Order
  <2>2. ~ clock < 2 * d /\ ~ clock < WindowEnd
    BY <1>1, <2>1
  <2>3. DueFrom("daily", d) = 2 * d
    BY DEF DueFrom
  <2> QED
    BY <2>2, <2>3 DEF Window
<1>4. ASSUME NEW d, of.stage # "daily"
      PROVE  Window(of.stage, d, clock) = "replay"
  <2>1. 2 * LastOpen <= clock /\ LastOpen \in Nat
    BY <1>1, Order
  <2>2. DueFrom(of.stage, d) \in {0, 2 * LastOpen}
    BY <1>2, <1>4 DEF DueFrom
  <2>3. ~ clock < DueFrom(of.stage, d) /\ ~ clock < WindowEnd
    BY <1>1, <2>1, <2>2
  <2> QED
    BY <2>3 DEF Window
<1>5. DueDates(clock) \subseteq OpenDates
  BY DEF DueDates
<1>6. of.stage = "daily" => /\ DueDates(clock) # {}
                            /\ ~ of.fill => of.day \in OpenDates
  BY <1>5 DEF Offered
<1>7. of.fill => (CHOOSE d \in DueDates(clock) : \A e \in DueDates(clock) : e <= d) \in OpenDates
  <2>1. of.fill => DueDates(clock) \in SUBSET OpenDates /\ DueDates(clock) # {}
    BY <1>2, <1>5, <1>6
  <2> QED
    BY <1>5, <2>1, Latest
<1>8. Window(of.stage, IF of.fill
                       THEN CHOOSE d \in DueDates(clock) : \A e \in DueDates(clock) : e <= d
                       ELSE of.day, clock) = "replay"
  <2>1. CASE of.stage # "daily"
    BY <1>4, <2>1
  <2>2. CASE of.stage = "daily" /\ of.fill
    BY <1>3, <1>7, <2>2
  <2>3. CASE of.stage = "daily" /\ ~ of.fill
    BY <1>3, <1>6, <2>3
  <2> QED
    BY <2>1, <2>2, <2>3
<1>9. calendar = "ready" /\ Replayable
  BY DEF Offered
<1> QED
  BY <1>2, <1>6, <1>8, <1>9 DEF Accepted

\* What a caller is told holds: an offer is accepted whenever it is taken up, and an
\* answer names the only run of its key.
THEOREM PromisesHold == Spec => []RequestsHold
<1>1. ASSUME IInv
      PROVE  RequestsHold
  <2>1. \A c \in Clients : request[c].of \in Requests /\ request[c].key \in Keys
    BY <1>1 DEF IInv, CallersInv, RequestType
  <2>2. ASSUME NEW c \in Clients, request[c].pc = "offered"
        PROVE  Accepted(request[c].of, clock)
    <3>1. TimesType /\ Offered(request[c].of, clock)
      BY <1>1, <2>2 DEF IInv, CallersInv, Told
    <3> QED
      BY <2>1, <3>1, OfferedIsAccepted
  <2>3. ASSUME NEW k, NEW r \in WithKey(k)
        PROVE  WithKey(k) = {r}
    <3>1. \A q \in WithKey(k) : q = r
      BY <1>1, <2>3, KeyNames DEF IInv, RecordsInv, OneOfKey
    <3> QED
      BY <2>3, <3>1
  <2>4. ASSUME NEW c \in Clients, request[c].pc = "answered"
        PROVE  WithKey(request[c].key) = {request[c].answer}
    <3>1. request[c].answer \in WithKey(request[c].key)
      BY <1>1, <2>4, KeyNames DEF IInv, CallersInv, Told
    <3> QED
      BY <2>3, <3>1
  <2>5. ASSUME NEW k \in Keys
        PROVE  Cardinality(WithKey(k)) <= 1
    <3>1. CASE WithKey(k) = {}
      BY <3>1, FS_EmptySet
    <3>2. CASE WithKey(k) # {}
      <4>1. PICK r : WithKey(k) = {r}
        BY <2>3, <3>2
      <4> QED
        BY <4>1, FS_Singleton
    <3> QED
      BY <3>1, <3>2
  <2> QED
    BY <2>2, <2>4, <2>5 DEF RequestsHold
<1> QED
  BY <1>1, Invariant, PTL
\* One run's row is written, and it had not ended.
LEMMA OthersRest ==
    ASSUME RunsType, NEW q, ~ Ended(q), NEW row, runs' = [runs EXCEPT ![q] = row]
    PROVE  \A r \in RunIds : Ended(r) => runs'[r] = runs[r]
<1>1. \A r \in RunIds : r # q => runs'[r] = runs[r]
  BY DEF RunsType
<1> QED
  BY <1>1

\* What has ended stays as it is: a caller can only cancel what is queued or running,
\* the worker claims what is queued and commits what is running, and a new run takes
\* a number that no run has.
THEOREM OutcomesRest == Spec => ReplayIsFinal
<1> DEFINE Rests(r) == Ended(r) => /\ runs'[r] = runs[r] /\ picks'[r] = picks[r]
                                   /\ \A s \in StageIds : <<r, s>> \in outputs' <=> <<r, s>> \in outputs
           Quiet == UNCHANGED <<runs, picks, outputs>>
<1>1. ASSUME IInv, Next
      PROVE  \A r \in RunIds : Rests(r)
  <2>1. RunsType /\ OutputsType /\ Inserted /\ WorkerInv
    BY <1>1 DEF IInv, RecordsInv
  <2>2. CASE Quiet
    BY <2>2
  <2>3. ASSUME NEW c \in Clients, Insert(c), ~ Quiet
        PROVE  \A r \in RunIds : Rests(r)
    <3>1. /\ created < MaxRuns /\ UNCHANGED <<picks, outputs>>
          /\ \E row : runs' = [runs EXCEPT ![created + 1] = row]
      BY <2>3 DEF Insert, others
    <3>2. ~ Ended(created + 1)
      <4>1. created \in Nat /\ created + 1 \in RunIds
        BY <2>1, <3>1, RunsAreNumbers, ReplayAssumption DEF RunsType, RunIds
      <4>2. ~ Present(created + 1)
        BY <2>1, <4>1 DEF Inserted
      <4> QED
        BY <4>2 DEF Present, Ended
    <3> QED
      BY <2>1, <3>1, <3>2, OthersRest
  <2>4. ASSUME NEW q \in RunIds, Cancel(q)
        PROVE  \A r \in RunIds : Rests(r)
    <3>1. ~ Ended(q) /\ UNCHANGED <<picks, outputs>>
      BY <2>4 DEF Cancel, Ended, others
    <3>2. \A r \in RunIds : r # q => runs'[r] = runs[r]
      BY <2>1, <2>4 DEF Cancel, RunsType
    <3> QED
      BY <3>1, <3>2
  <2>5. CASE Claim
    <3>1. PICK q \in Queued : runs' = [runs EXCEPT ![q].job = "running"]
      BY <2>5 DEF Claim
    <3>2. ~ Ended(q) /\ UNCHANGED <<picks, outputs>>
      BY <2>5, <3>1 DEF Claim, Queued, Ended
    <3>3. \A r \in RunIds : r # q => runs'[r] = runs[r]
      BY <2>1, <3>1 DEF RunsType
    <3> QED
      BY <3>2, <3>3
  <2>6. CASE Commit
    <3> DEFINE q == worker.run
    <3>1. ~ Ended(q)
      BY <2>1, <2>6, Held DEF Commit, Ended
    <3>2. \A r \in RunIds : r # q => runs'[r] = runs[r] /\ picks'[r] = picks[r]
      BY <2>1, <2>6 DEF Commit, RunsType, OutputsType
    <3>3. \A r \in RunIds, s \in StageIds : r # q => (<<r, s>> \in outputs' <=> <<r, s>> \in outputs)
      BY <2>6 DEF Commit
    <3> QED
      BY <3>1, <3>2, <3>3
  <2>7. Next => \/ Quiet \/ Claim \/ Commit
                \/ \E c \in Clients : Insert(c)
                \/ \E q \in RunIds : Cancel(q)
    <3>1. Api => Quiet \/ (\E c \in Clients : Insert(c)) \/ \E q \in RunIds : Cancel(q)
      <4>1. Tick \/ PrepareCalendar => Quiet
        BY DEF Tick, PrepareCalendar, others
      <4>2. ASSUME NEW c \in Clients
            PROVE  /\ NextRequest(c) => Quiet
                   /\ \A of \in Asked : Offer(c, of) => Quiet
                   /\ \A of \in Asked, k \in Keys : Enqueue(c, of, k) => Quiet
        <5>1. NextRequest(c) => Quiet
          BY DEF NextRequest, others
        <5>2. ASSUME NEW of \in Asked PROVE Offer(c, of) => Quiet
          BY DEF Offer, others
        <5>3. ASSUME NEW of \in Asked, NEW k \in Keys PROVE Enqueue(c, of, k) => Quiet
          BY DEF Enqueue, others
        <5> QED
          BY <5>1, <5>2, <5>3
      <4> HIDE DEF Quiet
      <4> QED
        BY <4>1, <4>2 DEF Api
    <3>2. Collect \/ Abort => Quiet
      BY DEF Collect, CollectFetch, CollectStore, Abort, table
    <3>3. Execute => Quiet \/ Claim \/ Commit
      BY DEF Execute, Open, Skip, Attempt, FailOther, Repair, Retry, background, table
    <3> QED
      BY <3>1, <3>2, <3>3 DEF Next
  <2> HIDE DEF Rests, Quiet
  <2> QED
    BY <1>1, <2>2, <2>3, <2>4, <2>5, <2>6, <2>7
<1>2. ASSUME IInv, [Next]_vars
      PROVE  [\A r \in RunIds : Rests(r)]_vars
  BY <1>1, <1>2
<1> QED
  BY <1>2, Invariant, PTL DEF Spec, ReplayIsFinal
=============================================================================
