------------------------- MODULE OutputJobs_proofs -------------------------
(***************************************************************************)
(* Proofs about OutputJobs: types, that a brief job's success is backed by *)
(* the briefs it promises, that briefs are due and reviews come last, and  *)
(* that a review job succeeds only with the whole review done.  They hold  *)
(* for any week, any number of rows, requests, versions and crashes.       *)
(***************************************************************************)
EXTENDS OutputJobs, TLAPS, FiniteSetTheorems, WellFoundedInduction

-----------------------------------------------------------------------------
(* The writes of the jobs table                                            *)

\* The type of the table: the part of JobsTypeOK that writes can break.
TableTypeOK ==
    /\ jobs \in [JobIds -> Rows]
    /\ created \in 0 .. MaxJobs
    /\ \A j \in JobIds : (jobs[j].status = "absent") <=> (j > created)

\* The rows other than j are left alone.
OthersKept(j) == \A i \in JobIds \ {j} : jobs'[i] = jobs[i]

\* An unused row is queued nowhere, not cancelled and of some request.
LEMMA BlankRowType ==
    /\ BlankRow \in Rows /\ BlankRow.status = "absent" /\ BlankRow.of \in Requests
    /\ BlankRow.cancel = FALSE /\ BlankRow.started = FALSE
<1>1. PICK w \in Weeks, k \in Keys : TRUE
  BY JobTableAssumption
<1>2. [type |-> "replay", week |-> w, day |-> NoDay, catchUp |-> FALSE, key |-> k] \in Requests
  BY <1>1 DEF Requests, Types
<1>3. (CHOOSE r \in Requests : TRUE) \in Requests
  BY <1>2
<1> QED
  BY <1>3 DEF BlankRow, Rows, Statuses

\* The empty table is well typed, and no request is under way.
LEMMA JobsInitType == ASSUME JobsInit PROVE JobsTypeOK
BY BlankRowType, JobTableAssumption DEF JobsInit, JobsTypeOK, JobIds, IdleRequest, NoJob

\* A write of one row in use, or of the next unused one, keeps the table well typed.
LEMMA WriteFacts ==
    ASSUME TableTypeOK, NEW j \in JobIds, NEW row \in Rows, row.status # "absent",
           jobs' = [jobs EXCEPT ![j] = row],
           \/ created' = created /\ jobs[j].status # "absent"
           \/ created' = j /\ j = created + 1
    PROVE  TableTypeOK' /\ OthersKept(j) /\ jobs'[j] = row
<1>1. OthersKept(j) /\ jobs'[j] = row /\ jobs' \in [JobIds -> Rows]
  BY DEF TableTypeOK, OthersKept
<1>2. created' \in 0 .. MaxJobs /\ \A i \in JobIds : (jobs'[i].status = "absent") <=> (i > created')
  BY <1>1, JobTableAssumption DEF TableTypeOK, OthersKept, JobIds
<1> QED
  BY <1>1, <1>2 DEF TableTypeOK

\* An insert fills the next unused row.
LEMMA InsertFacts ==
    ASSUME TableTypeOK, NEW of \in Requests, NEW status \in Statuses \ {"absent"},
           Insert(of, status)
    PROVE  /\ TableTypeOK' /\ OthersKept(created + 1)
           /\ created + 1 \in JobIds /\ jobs[created + 1].status = "absent"
           /\ jobs'[created + 1] = [of |-> of, status |-> status, cancel |-> FALSE,
                                    started |-> status # "queued"]
<1> DEFINE row == [of |-> of, status |-> status, cancel |-> FALSE, started |-> status # "queued"]
<1>1. created + 1 \in JobIds /\ jobs[created + 1].status = "absent"
  BY JobTableAssumption DEF TableTypeOK, Insert, JobIds
<1>2. (status # "queued") \in BOOLEAN
  OBVIOUS
<1>3. row \in Rows /\ row.status # "absent"
  BY <1>2 DEF Rows
<1>4. jobs' = [jobs EXCEPT ![created + 1] = row] /\ created' = created + 1
  BY DEF Insert
<1>5. PICK j \in JobIds : j = created + 1
  BY <1>1
<1> HIDE DEF row
<1>6. TableTypeOK' /\ OthersKept(j) /\ jobs'[j] = row
  BY <1>3, <1>4, <1>5, WriteFacts
<1> QED
  BY <1>1, <1>5, <1>6 DEF row

\* A claim turns a queued row into a started, running one.
LEMMA ClaimFacts ==
    ASSUME TableTypeOK, NEW j \in JobIds, Claim(j)
    PROVE  /\ TableTypeOK' /\ created' = created /\ OthersKept(j)
           /\ jobs[j].status = "queued"
           /\ jobs'[j].of = jobs[j].of /\ jobs'[j].status = "running"
           /\ jobs'[j].cancel = jobs[j].cancel /\ jobs'[j].started = TRUE
<1> DEFINE row == [jobs[j] EXCEPT !.status = "running", !.started = TRUE]
<1>1. row \in Rows /\ row.status = "running" /\ row.started = TRUE
      /\ row.of = jobs[j].of /\ row.cancel = jobs[j].cancel
  BY DEF TableTypeOK, Rows, Statuses, ActiveStatuses
<1>2. jobs' = [jobs EXCEPT ![j] = row] /\ created' = created /\ jobs[j].status = "queued"
  BY DEF Claim
<1> HIDE DEF row
<1> QED
  BY <1>1, <1>2, WriteFacts

\* Closing a row records the outcome, or the cancellation that came first.
LEMMA FinishFacts ==
    ASSUME TableTypeOK, NEW j \in JobIds, jobs[j].status # "absent",
           NEW outcome \in {"succeeded", "failed"}, Finish(j, outcome)
    PROVE  /\ TableTypeOK' /\ created' = created /\ OthersKept(j)
           /\ jobs'[j].of = jobs[j].of
           /\ jobs'[j].status = IF jobs[j].cancel THEN "cancelled" ELSE outcome
           /\ jobs'[j].cancel = jobs[j].cancel /\ jobs'[j].started = jobs[j].started
<1> DEFINE status == IF jobs[j].cancel THEN "cancelled" ELSE outcome
           row == [jobs[j] EXCEPT !.status = status]
<1>1. status \in Statuses \ {"absent"}
  BY DEF Statuses, TerminalStatuses
<1>2. jobs' = [jobs EXCEPT ![j] = row] /\ created' = created
  BY DEF Finish
<1> HIDE DEF status
<1>3. row \in Rows /\ row.status = status
      /\ row.of = jobs[j].of /\ row.cancel = jobs[j].cancel /\ row.started = jobs[j].started
  BY <1>1 DEF TableTypeOK, Rows
<1> HIDE DEF row
<1> QED
  BY <1>1, <1>2, <1>3, WriteFacts DEF status

\* A cancellation marks an active row, and ends it when it is only queued.
LEMMA RequestCancelFacts ==
    ASSUME TableTypeOK, NEW j \in JobIds, RequestCancel(j)
    PROVE  /\ TableTypeOK' /\ created' = created /\ request' = request /\ OthersKept(j)
           /\ jobs[j].status \in ActiveStatuses /\ jobs[j].cancel = FALSE
           /\ jobs'[j].of = jobs[j].of
           /\ jobs'[j].status = IF jobs[j].status = "queued" THEN "cancelled" ELSE "running"
           /\ jobs'[j].cancel = TRUE /\ jobs'[j].started = jobs[j].started
<1> DEFINE status == IF jobs[j].status = "queued" THEN "cancelled" ELSE jobs[j].status
           row == [jobs[j] EXCEPT !.cancel = TRUE, !.status = status]
<1>1. /\ jobs' = [jobs EXCEPT ![j] = row] /\ created' = created /\ request' = request
      /\ jobs[j].status \in ActiveStatuses /\ jobs[j].cancel = FALSE
  BY DEF RequestCancel, TableTypeOK, Rows
<1>2. status = (IF jobs[j].status = "queued" THEN "cancelled" ELSE "running")
      /\ status \in Statuses \ {"absent"} /\ jobs[j].status # "absent"
  BY <1>1 DEF Statuses, ActiveStatuses, TerminalStatuses
<1> HIDE DEF status
<1>3. row \in Rows /\ row.status = status /\ row.cancel = TRUE
      /\ row.of = jobs[j].of /\ row.started = jobs[j].started
  BY <1>2 DEF TableTypeOK, Rows
<1> HIDE DEF row
<1> QED
  BY <1>1, <1>2, <1>3, WriteFacts

-----------------------------------------------------------------------------
(* The inductive invariant                                                 *)

\* What a daily-brief job promises, in terms of the briefs that are made.
Kept(of, made) ==
    /\ ~ of.catchUp => of.day \in made
    /\ of.catchUp => \A d \in OpenDates : d < of.day => d \in made

\* A daily job is asked for with one of the week's dates.
Dated(of) == of.type = "daily_brief" => of.day \in Days

\* Requests, and the rows they have become, are dated; an output is reused that
\* exists, and never for a catch-up.
Asking ==
    /\ \A c \in Clients : request[c].pc # "idle" => Dated(request[c].of)
    /\ \A c \in Clients : request[c].pc = "reuse" /\ request[c].of.type = "daily_brief" =>
          Kept(request[c].of, briefs)
    /\ \A j \in JobIds : jobs[j].status # "absent" => Dated(jobs[j].of)

\* The thread works on a row that is running, of the kind it is busy with; a review
\* that followed a brief belongs to the job of that brief.
Assigned ==
    /\ runner.pc \in {"gate", "dates", "replay"} => ~ runner.nested
    /\ runner.pc \in {"gate", "replay"} => runner.job # NoJob
    /\ runner.job # NoJob =>
          /\ runner.pc # "idle" /\ jobs[runner.job].status = "running"
          /\ runner.pc = "gate" => jobs[runner.job].of.type \in {"daily_brief", "weekly_review"}
          /\ runner.pc = "replay" => jobs[runner.job].of.type = "replay"
          /\ runner.pc = "dates" \/ runner.nested => jobs[runner.job].of.type = "daily_brief"
          /\ runner.pc \in {"versions", "watch"} /\ ~ runner.nested =>
                jobs[runner.job].of.type = "weekly_review"

\* The dates still to be made are due at the time the work was taken up.
DatesAreDue ==
    /\ runner.now <= clock
    /\ \A d \in runner.dates : Due(d) <= runner.now

\* Unless a date has failed, the briefs made and those still to be made are all
\* that the job promises.
Promised ==
    /\ runner.job # NoJob /\ runner.pc \in {"dates", "versions", "watch"} /\ ~ runner.failed
    /\ jobs[runner.job].of.type = "daily_brief"
    => Kept(jobs[runner.job].of, briefs \cup runner.dates)

\* A review is under way only after the last close, on top of all the briefs, and
\* what it has still to do is what is not there.
Reviewing ==
    /\ runner.pc \in {"versions", "watch"} => clock >= Due(LastOpen) /\ OpenDates \subseteq briefs
    /\ runner.pc = "versions" => Versions \subseteq reviews \cup runner.versions
    /\ runner.pc = "watch" => Versions \subseteq reviews

\* The inductive invariant: the table and its requests, the thread, the outputs.
TableInv == Asking /\ SucceededBriefsExist
RunnerInv == Assigned /\ DatesAreDue /\ Promised /\ Reviewing
OutputInv == BriefsAreDue /\ ReviewsComeLast
IInv == TypeOK /\ TableInv /\ RunnerInv /\ OutputInv

-----------------------------------------------------------------------------
(* Dates and requests                                                      *)

\* A finite set of dates that is not empty has a last one.
LEMMA LastOpenFacts == LastOpen \in OpenDates /\ \A d \in OpenDates : d <= LastOpen
<1>1. OpenDates \subseteq Nat /\ OpenDates # {} /\ IsFiniteSet(OpenDates)
  <2>1. OpenDates \in SUBSET (1 .. LastDate) /\ OpenDates # {} /\ LastDate \in Nat
    BY OutputJobsAssumption
  <2>2. IsFiniteSet(1 .. LastDate)
    BY <2>1, FS_Interval
  <2>3. IsFiniteSet(OpenDates)
    BY <2>1, <2>2, FS_Subset
  <2> QED
    BY <2>1, <2>3
<1> DEFINE Later(d) == {e \in OpenDates : e > d}
           T == {Later(d) : d \in OpenDates}
<1>2. IsWellFoundedOn(StrictSubsetOrdering(OpenDates), SUBSET OpenDates)
  BY <1>1, FS_StrictSubsetOrderingWellFounded, FS_FiniteSubsetsOfFinite
<1>3. PICK x \in T : \A y \in T : <<y, x>> \notin StrictSubsetOrdering(OpenDates)
  <2>1. T \subseteq SUBSET OpenDates /\ T # {}
    BY <1>1
  <2> HIDE DEF T
  <2> QED
    BY <1>2, <2>1, WFMin
<1>4. PICK d \in OpenDates : x = Later(d)
  OBVIOUS
<1>5. ASSUME NEW e \in OpenDates, e > d
      PROVE  FALSE
  <2>1. Later(e) \subseteq Later(d) /\ Later(e) # Later(d)
    <3>1. d \in Nat /\ e \in Nat /\ \A y \in OpenDates : y \in Nat
      BY <1>1
    <3>2. \A y \in OpenDates : y > e => y > d
      BY <1>5, <3>1
    <3>3. e \in Later(d) /\ e \notin Later(e)
      BY <1>5, <3>1
    <3> QED
      BY <3>2, <3>3
  <2>2. <<Later(e), Later(d)>> \in StrictSubsetOrdering(OpenDates)
    BY <2>1 DEF StrictSubsetOrdering
  <2> QED
    BY <1>3, <1>4, <2>2
<1>6. \A e \in OpenDates : e <= d
  BY <1>1, <1>5
<1> QED
  BY <1>6 DEF LastOpen

\* The calendar of the week, and the times the clock shows.
LEMMA Calendar ==
    /\ LastDate \in Nat /\ Days \subseteq Nat /\ OpenDates \subseteq Days
    /\ LastOpen \in Nat /\ WindowEnd \in Nat
    /\ \A t \in Nat : Today(t) \in Nat /\ 2 * Today(t) <= t + 1
<1>1. LastDate \in Nat /\ Days = 1 .. LastDate /\ OpenDates \subseteq 1 .. LastDate
  BY OutputJobsAssumption
<1>2. LastOpen \in 1 .. LastDate
  BY <1>1, LastOpenFacts
<1>3. WindowEnd \in Nat
  BY <1>1 DEF WindowEnd, Due
<1>4. \A t \in Nat : Today(t) \in Nat /\ 2 * Today(t) <= t + 1
  BY DEF Today
<1>5. Days \subseteq Nat /\ OpenDates \subseteq Days /\ LastOpen \in Nat
  BY <1>1, <1>2
<1> QED
  BY <1>1, <1>3, <1>4, <1>5

\* What callers ask for is a well-typed request, and dated.
LEMMA Asks ==
    /\ \A of \in FormalRequests : of \in Requests /\ Dated(of)
    /\ \A k \in Keys : Undated("replay", k) \in Requests /\ Dated(Undated("replay", k))
<1>1. W \in Weeks
  BY JobTableAssumption DEF W
<1>2. ASSUME NEW type \in Types \ {"daily_brief"}, NEW k \in Keys
      PROVE  Undated(type, k) \in Requests /\ Dated(Undated(type, k))
  BY <1>1 DEF Undated, Requests, Dated, Types
<1>3. ASSUME NEW a \in Asked, NEW k \in Keys
      PROVE  Daily(a[1], a[2], k) \in Requests /\ Dated(Daily(a[1], a[2], k))
  <2>1. a[1] \in Days /\ a[2] \in BOOLEAN
    BY OutputJobsAssumption
  <2> QED
    BY <1>1, <2>1 DEF Daily, Requests, Dated, Types
<1>4. "weekly_review" \in Types \ {"daily_brief"} /\ "replay" \in Types \ {"daily_brief"}
  BY DEF Types
<1> QED
  BY <1>2, <1>3, <1>4 DEF FormalRequests

\* More briefs keep a promise that was kept.
LEMMA KeptGrows ==
    ASSUME NEW of, NEW made, NEW more, made \subseteq more, Kept(of, made)
    PROVE  Kept(of, more)
BY DEF Kept

-----------------------------------------------------------------------------
(* The parts of the state                                                  *)

Pcs == {"idle", "gate", "dates", "versions", "watch", "replay"}
RunnerTypeOK ==
    runner \in [pc: Pcs, job: 0 .. MaxJobs, now: 0 .. WindowEnd, dates: SUBSET Days,
                failed: BOOLEAN, versions: SUBSET Versions, nested: BOOLEAN]
OutputsTypeOK ==
    /\ published \in BOOLEAN /\ watched \in BOOLEAN /\ starting \in BOOLEAN
    /\ briefs \subseteq Days /\ reviews \subseteq Versions
    /\ clock \in 0 .. WindowEnd
    /\ lost \subseteq JobIds /\ crashes \in 0 .. MaxCrashes
RequestTypeOK ==
    request \in [Clients -> [pc: {"idle", "active", "insert", "reuse", "answered"},
                             of: Requests, answer: 0 .. MaxJobs]]

\* The type invariant, part by part.
LEMMA TypeParts == TypeOK <=> TableTypeOK /\ RequestTypeOK /\ RunnerTypeOK /\ OutputsTypeOK
BY DEF TypeOK, JobsTypeOK, TableTypeOK, RequestTypeOK, RunnerTypeOK, OutputsTypeOK, Pcs

\* The parts make the invariant.
LEMMA Assembled ==
    ASSUME TableTypeOK', RequestTypeOK', RunnerTypeOK', OutputsTypeOK',
           TableInv', RunnerInv', OutputInv'
    PROVE  IInv'
BY DEF IInv, TypeOK, JobsTypeOK, TableTypeOK, RequestTypeOK, RunnerTypeOK, OutputsTypeOK, Pcs

\* The thread's fields.
LEMMA RunnerFields ==
    ASSUME RunnerTypeOK
    PROVE  /\ runner.pc \in Pcs /\ runner.job \in 0 .. MaxJobs /\ runner.now \in 0 .. WindowEnd
           /\ runner.dates \subseteq Days /\ runner.failed \in BOOLEAN
           /\ runner.versions \subseteq Versions /\ runner.nested \in BOOLEAN
           /\ runner.job # NoJob => runner.job \in JobIds
<1>1. runner.job \in 0 .. MaxJobs
  BY DEF RunnerTypeOK
<1>2. runner.job # NoJob => runner.job \in JobIds
  BY <1>1, JobTableAssumption DEF NoJob, JobIds
<1> QED
  BY <1>1, <1>2 DEF RunnerTypeOK

\* The idle thread's fields.
LEMMA IdleRunnerFields ==
    /\ IdleRunner.pc = "idle" /\ IdleRunner.job = NoJob /\ IdleRunner.now = 0
    /\ IdleRunner.dates = {} /\ ~ IdleRunner.failed /\ IdleRunner.versions = {}
    /\ ~ IdleRunner.nested
BY DEF IdleRunner

\* An idle thread is well typed and has no obligations.
LEMMA IdleAgain ==
    ASSUME runner' = IdleRunner, OutputsTypeOK'
    PROVE  RunnerTypeOK' /\ RunnerInv'
<1>1. RunnerTypeOK'
  BY JobTableAssumption, Calendar DEF IdleRunner, RunnerTypeOK, Pcs, NoJob
<1>2. /\ runner'.pc = "idle" /\ runner'.job = NoJob /\ runner'.now = 0 /\ runner'.dates = {}
      /\ ~ runner'.nested
  BY IdleRunnerFields
<1>3. Assigned' /\ Promised' /\ Reviewing'
  BY <1>2 DEF Assigned, Promised, Reviewing
<1>4. DatesAreDue'
  BY <1>2, Calendar DEF DatesAreDue, OutputsTypeOK
<1> QED
  BY <1>1, <1>3, <1>4 DEF RunnerInv

\* The table and its requests are left alone while briefs are added.
LEMMA TableStays ==
    ASSUME TableTypeOK, RequestTypeOK, TableInv, UNCHANGED <<table, request>>, briefs \subseteq briefs'
    PROVE  TableTypeOK' /\ RequestTypeOK' /\ TableInv'
<1>1. jobs' = jobs /\ created' = created /\ request' = request
  BY DEF table
<1>2. TableTypeOK' /\ RequestTypeOK'
  BY <1>1 DEF TableTypeOK, RequestTypeOK
<1>3. Asking'
  BY <1>1, KeptGrows DEF TableInv, Asking
<1>4. SucceededBriefsExist'
  BY <1>1 DEF TableInv, SucceededBriefsExist
<1> QED
  BY <1>2, <1>3, <1>4 DEF TableInv

\* The thread is left alone while its row runs on, time passes and outputs are added.
LEMMA RunnerStays ==
    ASSUME RunnerTypeOK, OutputsTypeOK, OutputsTypeOK', RunnerInv, runner' = runner,
           runner.job # NoJob =>
              jobs'[runner.job].of = jobs[runner.job].of /\ jobs'[runner.job].status = "running",
           clock <= clock', briefs \subseteq briefs', reviews \subseteq reviews'
    PROVE  RunnerTypeOK' /\ RunnerInv'
<1>1. RunnerTypeOK'
  BY DEF RunnerTypeOK
<1>2. Assigned'
  BY DEF RunnerInv, Assigned
<1>3. DatesAreDue'
  <2>1. runner.now \in Nat /\ clock \in Nat /\ clock' \in Nat
    BY RunnerFields, Calendar DEF OutputsTypeOK
  <2> QED
    BY <2>1 DEF RunnerInv, DatesAreDue
<1>4. Promised'
  <2>1. briefs \cup runner.dates \subseteq (briefs \cup runner.dates)'
    OBVIOUS
  <2> QED
    BY <2>1, KeptGrows DEF RunnerInv, Promised
<1>5. Reviewing'
  <2>1. clock \in Nat /\ clock' \in Nat /\ Due(LastOpen) \in Nat
    BY Calendar DEF OutputsTypeOK, Due
  <2> QED
    BY <2>1 DEF RunnerInv, Reviewing
<1> QED
  BY <1>1, <1>2, <1>3, <1>4, <1>5 DEF RunnerInv

\* Outputs stay as they are while time passes.
LEMMA OutputsStay ==
    ASSUME OutputsTypeOK, OutputsTypeOK', OutputInv, clock <= clock',
           briefs' = briefs, reviews' = reviews
    PROVE  OutputInv'
<1>1. clock \in Nat /\ clock' \in Nat /\ Due(LastOpen) \in Nat /\ \A d \in briefs : Due(d) \in Nat
  BY Calendar DEF OutputsTypeOK, Due
<1>2. BriefsAreDue'
  BY <1>1 DEF OutputInv, BriefsAreDue
<1>3. ReviewsComeLast'
  BY <1>1 DEF OutputInv, ReviewsComeLast
<1> QED
  BY <1>2, <1>3 DEF OutputInv

-----------------------------------------------------------------------------
(* The API                                                                 *)

\* What a request leaves alone.
Aside == UNCHANGED <<runner, outputs, starting, history>>

\* After a request everything outside the table is as it was.
LEMMA AsideFacts ==
    ASSUME Aside, OutputsTypeOK
    PROVE  /\ runner' = runner /\ briefs' = briefs /\ reviews' = reviews /\ watched' = watched
           /\ starting' = starting /\ published' = published /\ clock' = clock
           /\ lost' = lost /\ crashes' = crashes
           /\ OutputsTypeOK' /\ clock \in Nat /\ clock <= clock'
<1>1. /\ runner' = runner /\ briefs' = briefs /\ reviews' = reviews /\ watched' = watched
      /\ starting' = starting /\ published' = published /\ clock' = clock
      /\ lost' = lost /\ crashes' = crashes
  BY DEF Aside, outputs, history
<1>2. OutputsTypeOK' /\ clock \in Nat
  BY <1>1, Calendar DEF OutputsTypeOK
<1> QED
  BY <1>1, <1>2

\* A request that only moves on.
LEMMA RequestMoves ==
    ASSUME IInv, Aside, UNCHANGED table, NEW c \in Clients, NEW r,
           request' = [request EXCEPT ![c] = r],
           r \in [pc: {"idle", "active", "insert", "reuse", "answered"},
                  of: Requests, answer: 0 .. MaxJobs],
           r.pc # "idle" => Dated(r.of),
           r.pc = "reuse" /\ r.of.type = "daily_brief" => Kept(r.of, briefs)
    PROVE  IInv'
<1>1. TableTypeOK /\ RequestTypeOK /\ RunnerTypeOK /\ OutputsTypeOK
      /\ TableInv /\ RunnerInv /\ OutputInv
  BY TypeParts DEF IInv
<1>2. jobs' = jobs /\ created' = created /\ runner' = runner /\ briefs' = briefs
      /\ reviews' = reviews /\ OutputsTypeOK' /\ clock <= clock'
  BY <1>1, AsideFacts DEF table
<1>3. TableTypeOK' /\ SucceededBriefsExist'
  BY <1>1, <1>2 DEF TableTypeOK, TableInv, SucceededBriefsExist
<1>4. RequestTypeOK'
  BY <1>1 DEF RequestTypeOK
<1>5. /\ request'[c] = r
      /\ \A b \in Clients : b # c => request'[b] = request[b]
  BY <1>1 DEF RequestTypeOK
<1>6. Asking'
  <2>1. \A b \in Clients : request'[b] = r \/ request'[b] = request[b]
    BY <1>5
  <2>2. \A b \in Clients : request'[b].pc # "idle" => Dated(request'[b].of)
    BY <1>1, <2>1 DEF TableInv, Asking
  <2>3. \A b \in Clients : request'[b].pc = "reuse" /\ request'[b].of.type = "daily_brief" =>
           Kept(request'[b].of, briefs)
    BY <1>1, <2>1 DEF TableInv, Asking
  <2> QED
    BY <1>1, <1>2, <2>2, <2>3 DEF TableInv, Asking
<1>7. RunnerTypeOK' /\ RunnerInv'
  <2>1. runner.job # NoJob => jobs[runner.job].status = "running"
    BY <1>1 DEF RunnerInv, Assigned
  <2> QED
    BY <1>1, <1>2, <2>1, RunnerStays
<1>8. OutputInv'
  BY <1>1, <1>2, OutputsStay
<1> QED
  BY <1>2, <1>3, <1>4, <1>6, <1>7, <1>8, Assembled DEF TableInv

\* The fields of a request.
LEMMA RequestFields ==
    ASSUME RequestTypeOK, NEW c \in Clients
    PROVE  /\ request[c] \in [pc: {"idle", "active", "insert", "reuse", "answered"},
                              of: Requests, answer: 0 .. MaxJobs]
           /\ request[c].of \in Requests /\ request[c].answer \in 0 .. MaxJobs
BY DEF RequestTypeOK

\* Rows: a query finds rows that are in use.
LEMMA Found ==
    /\ \A type, w, k : WithKey(type, w, k) \subseteq JobIds
    /\ \A type, w : ActiveJobs(type, w) \subseteq JobIds /\ SucceededJobs(type, w) \subseteq JobIds
BY DEF WithKey, ActiveJobs, SucceededJobs, OfWeek, Present

\* A look-up answers, or goes on; it goes on to a reuse only of what exists.
LEMMA LookupStep ==
    ASSUME IInv, Aside, NEW c \in Clients, NEW of \in FormalRequests, EnqueueLookup(c, of)
    PROVE  IInv'
<1>1. of \in Requests /\ Dated(of) /\ of.catchUp \in BOOLEAN
  BY Asks DEF Requests
<1>2. UNCHANGED table
  BY DEF EnqueueLookup
<1>3. CASE \E j \in JobIds :
             request' = [request EXCEPT ![c] = [pc |-> "answered", of |-> of, answer |-> j]]
  <2>1. PICK j \in JobIds :
             request' = [request EXCEPT ![c] = [pc |-> "answered", of |-> of, answer |-> j]]
    BY <1>3
  <2>2. j \in 0 .. MaxJobs
    BY JobTableAssumption DEF JobIds
  <2> DEFINE r == [pc |-> "answered", of |-> of, answer |-> j]
  <2>3. /\ r \in [pc: {"idle", "active", "insert", "reuse", "answered"},
                  of: Requests, answer: 0 .. MaxJobs]
        /\ r.pc = "answered" /\ r.of = of
    BY <1>1, <2>2
  <2>4. request' = [request EXCEPT ![c] = r]
    BY <2>1
  <2> HIDE DEF r
  <2> QED
    BY <1>1, <1>2, <2>3, <2>4, RequestMoves
<1>4. CASE \E pc \in {"active", "reuse"} :
             /\ request' = [request EXCEPT ![c] = [pc |-> pc, of |-> of, answer |-> NoJob]]
             /\ pc = "reuse" => ~ of.catchUp /\ OutputExists(of)
  <2>1. PICK pc \in {"active", "reuse"} :
             /\ request' = [request EXCEPT ![c] = [pc |-> pc, of |-> of, answer |-> NoJob]]
             /\ pc = "reuse" => ~ of.catchUp /\ OutputExists(of)
    BY <1>4
  <2> DEFINE r == [pc |-> pc, of |-> of, answer |-> NoJob]
  <2>2. /\ r \in [pc: {"idle", "active", "insert", "reuse", "answered"},
                  of: Requests, answer: 0 .. MaxJobs]
        /\ r.pc = pc /\ r.of = of
    BY <1>1, JobTableAssumption DEF NoJob
  <2>3. request' = [request EXCEPT ![c] = r]
    BY <2>1
  <2>4. pc = "reuse" /\ of.type = "daily_brief" => Kept(of, briefs)
    BY <2>1 DEF OutputExists, Kept
  <2> HIDE DEF r
  <2> QED
    BY <1>1, <1>2, <2>2, <2>3, <2>4, RequestMoves
<1>5. (\E j \in JobIds :
             request' = [request EXCEPT ![c] = [pc |-> "answered", of |-> of, answer |-> j]])
      \/ (\E pc \in {"active", "reuse"} :
             /\ request' = [request EXCEPT ![c] = [pc |-> pc, of |-> of, answer |-> NoJob]]
             /\ pc = "reuse" => ~ of.catchUp /\ OutputExists(of))
  BY Found, Zenon DEF EnqueueLookup
<1> QED
  BY <1>3, <1>4, <1>5

\* A replay request answers by its key, or goes on to its insert.
LEMMA ReplayRequestStep ==
    ASSUME IInv, Aside, NEW c \in Clients, NEW k \in Keys, EnqueueReplay(c, k)
    PROVE  IInv'
<1> DEFINE of == Undated("replay", k)
<1>1. of \in Requests /\ Dated(of)
  BY Asks
<1>2. UNCHANGED table
  BY DEF EnqueueReplay
<1>3. PICK pc \in {"insert", "answered"}, j \in {NoJob} \cup JobIds :
         request' = [request EXCEPT ![c] = [pc |-> pc, of |-> of, answer |-> j]]
  BY Found DEF EnqueueReplay
<1> HIDE DEF of
<1> DEFINE r == [pc |-> pc, of |-> of, answer |-> j]
<1>4. j \in 0 .. MaxJobs
  BY JobTableAssumption DEF JobIds, NoJob
<1>5. /\ r \in [pc: {"idle", "active", "insert", "reuse", "answered"},
                of: Requests, answer: 0 .. MaxJobs]
      /\ r.pc = pc /\ r.of = of
  BY <1>1, <1>4
<1>6. request' = [request EXCEPT ![c] = r]
  BY <1>3
<1> HIDE DEF r
<1> QED
  BY <1>1, <1>2, <1>5, <1>6, RequestMoves

\* The look for an active job answers, or goes on to the insert.
LEMMA ActiveStep ==
    ASSUME IInv, Aside, NEW c \in Clients, EnqueueActive(c)
    PROVE  IInv'
<1> DEFINE old == request[c]
<1>1. RequestTypeOK /\ Asking
  BY TypeParts DEF IInv, TableInv
<1>2. /\ old \in [pc: {"idle", "active", "insert", "reuse", "answered"},
                  of: Requests, answer: 0 .. MaxJobs]
      /\ old.pc = "active" /\ Dated(old.of)
  BY <1>1, RequestFields DEF EnqueueActive, Asking
<1>3. UNCHANGED table
  BY DEF EnqueueActive
<1>4. PICK pc \in {"insert", "answered"}, j \in {old.answer} \cup JobIds :
         request' = [request EXCEPT ![c] = [old EXCEPT !.pc = pc, !.answer = j]]
  <2>1. CASE \E j \in ActiveJobs(old.of.type, old.of.week) : Answer(c, j)
    BY <2>1, Found, <1>2 DEF Answer
  <2>2. CASE request' = [request EXCEPT ![c].pc = "insert"]
    <3>1. request' = [request EXCEPT ![c] = [old EXCEPT !.pc = "insert"]]
      BY <2>2
    <3>2. [old EXCEPT !.pc = "insert"] = [old EXCEPT !.pc = "insert", !.answer = old.answer]
      BY <1>2
    <3> QED
      BY <3>1, <3>2
  <2> QED
    BY <2>1, <2>2 DEF EnqueueActive
<1> HIDE DEF old
<1> DEFINE r == [old EXCEPT !.pc = pc, !.answer = j]
<1>5. j \in 0 .. MaxJobs
  BY <1>2, JobTableAssumption DEF JobIds
<1>6. /\ r \in [pc: {"idle", "active", "insert", "reuse", "answered"},
                of: Requests, answer: 0 .. MaxJobs]
      /\ r.pc = pc /\ r.of = old.of
  BY <1>2, <1>5
<1>7. request' = [request EXCEPT ![c] = r]
  BY <1>4
<1> HIDE DEF r
<1> QED
  BY <1>2, <1>3, <1>6, <1>7, RequestMoves

\* A request ends.
LEMMA NextRequestStep ==
    ASSUME IInv, Aside, NEW c \in Clients, NextRequest(c)
    PROVE  IInv'
<1>1. IdleRequest \in [pc: {"idle", "active", "insert", "reuse", "answered"},
                       of: Requests, answer: 0 .. MaxJobs]
      /\ IdleRequest.pc = "idle"
  BY BlankRowType, JobTableAssumption DEF IdleRequest, NoJob
<1> QED
  BY <1>1, RequestMoves DEF NextRequest

\* A request writes one row, which the thread does not hold or does not lose.
LEMMA RowChanges ==
    ASSUME IInv, Aside, NEW j \in JobIds, OthersKept(j), TableTypeOK', RequestTypeOK',
           jobs'[j].status # "absent" => Dated(jobs'[j].of),
           jobs'[j].status = "succeeded" /\ jobs'[j].of.type = "daily_brief" =>
              Kept(jobs'[j].of, briefs),
           \A b \in Clients : \/ request'[b] = request[b]
                              \/ request'[b].pc = "answered" /\ Dated(request'[b].of),
           runner.job = j => jobs'[j].of = jobs[j].of /\ jobs'[j].status = "running"
    PROVE  IInv'
<1>1. TableTypeOK /\ RequestTypeOK /\ RunnerTypeOK /\ OutputsTypeOK
      /\ TableInv /\ RunnerInv /\ OutputInv
  BY TypeParts DEF IInv
<1>2. runner' = runner /\ briefs' = briefs /\ reviews' = reviews /\ OutputsTypeOK' /\ clock <= clock'
  BY <1>1, AsideFacts
<1>3. Asking'
  <2>1. \A b \in Clients : request'[b].pc # "idle" => Dated(request'[b].of)
    BY <1>1 DEF TableInv, Asking
  <2>2. \A b \in Clients : request'[b].pc = "reuse" /\ request'[b].of.type = "daily_brief" =>
           Kept(request'[b].of, briefs)
    BY <1>1 DEF TableInv, Asking
  <2>3. \A i \in JobIds : jobs'[i].status # "absent" => Dated(jobs'[i].of)
    BY <1>1 DEF TableInv, Asking, OthersKept
  <2> QED
    BY <1>2, <2>1, <2>2, <2>3 DEF Asking
<1>4. SucceededBriefsExist'
  <2>1. \A i \in JobIds : jobs'[i].status = "succeeded" /\ jobs'[i].of.type = "daily_brief" =>
           Kept(jobs'[i].of, briefs)
    BY <1>1 DEF TableInv, SucceededBriefsExist, OthersKept, Kept
  <2> QED
    BY <1>2, <2>1 DEF SucceededBriefsExist, Kept
<1>5. RunnerTypeOK' /\ RunnerInv'
  <2>1. runner.job # NoJob =>
           jobs'[runner.job].of = jobs[runner.job].of /\ jobs'[runner.job].status = "running"
    BY <1>1, RunnerFields DEF RunnerInv, Assigned, OthersKept
  <2> QED
    BY <1>1, <1>2, <2>1, RunnerStays
<1>6. OutputInv'
  BY <1>1, <1>2, OutputsStay
<1> QED
  BY <1>2, <1>3, <1>4, <1>5, <1>6, Assembled DEF TableInv

\* An inserted row is dated, and one recorded as a reuse is backed by its brief.
LEMMA InsertStep ==
    ASSUME IInv, Aside, NEW c \in Clients, EnqueueInsert(c)
    PROVE  IInv'
<1> DEFINE of == request[c].of
           old == request[c]
           status == IF request[c].pc = "reuse" THEN "succeeded" ELSE "queued"
<1>1. TableTypeOK /\ RequestTypeOK /\ RunnerTypeOK /\ TableInv /\ RunnerInv
  BY TypeParts DEF IInv
<1>2. /\ old \in [pc: {"idle", "active", "insert", "reuse", "answered"},
                  of: Requests, answer: 0 .. MaxJobs]
      /\ of \in Requests /\ old.pc \in {"insert", "reuse"} /\ Dated(of)
      /\ old.pc = "reuse" /\ of.type = "daily_brief" => Kept(of, briefs)
  BY <1>1, RequestFields DEF EnqueueInsert, TableInv, Asking
<1>3. CASE Insert(of, status) /\ Answer(c, created + 1)
  <2>1. status \in Statuses \ {"absent"} /\ (status = "succeeded" => old.pc = "reuse")
    BY DEF Statuses, ActiveStatuses, TerminalStatuses
  <2>2. /\ TableTypeOK' /\ created + 1 \in JobIds /\ jobs[created + 1].status = "absent"
        /\ jobs'[created + 1] = [of |-> of, status |-> status, cancel |-> FALSE,
                                 started |-> status # "queued"]
        /\ OthersKept(created + 1)
    <3> HIDE DEF of, status
    <3> QED
      BY <1>1, <1>2, <1>3, <2>1, InsertFacts
  <2>3. jobs'[created + 1].of = of /\ jobs'[created + 1].status = status
    <3> HIDE DEF of, status
    <3> QED
      BY <2>2
  <2>4. runner.job # created + 1
    BY <1>1, <2>2, RunnerFields, JobTableAssumption DEF RunnerInv, Assigned, JobIds, NoJob
  <2> DEFINE r == [old EXCEPT !.pc = "answered", !.answer = created + 1]
  <2>5. /\ r \in [pc: {"idle", "active", "insert", "reuse", "answered"},
                  of: Requests, answer: 0 .. MaxJobs]
        /\ r.pc = "answered" /\ r.of = of
    <3>1. created + 1 \in 0 .. MaxJobs
      BY <2>2, JobTableAssumption DEF JobIds
    <3>2. \A q \in [pc: {"idle", "active", "insert", "reuse", "answered"},
                    of: Requests, answer: 0 .. MaxJobs], a \in 0 .. MaxJobs :
             LET s == [q EXCEPT !.pc = "answered", !.answer = a]
             IN  /\ s \in [pc: {"idle", "active", "insert", "reuse", "answered"},
                           of: Requests, answer: 0 .. MaxJobs]
                 /\ s.pc = "answered" /\ s.of = q.of
      OBVIOUS
    <3> QED
      BY <1>2, <3>1, <3>2
  <2>6. request' = [request EXCEPT ![c] = r]
    BY <1>3 DEF Answer
  <2> HIDE DEF r
  <2>7. RequestTypeOK' /\ \A b \in Clients : request'[b] = request[b] \/ request'[b] = r
    BY <1>1, <2>5, <2>6 DEF RequestTypeOK
  <2>8. \A b \in Clients : \/ request'[b] = request[b]
                           \/ request'[b].pc = "answered" /\ Dated(request'[b].of)
    BY <1>2, <2>5, <2>7
  <2>9. /\ jobs'[created + 1].status # "absent" => Dated(jobs'[created + 1].of)
        /\ jobs'[created + 1].status = "succeeded" /\ jobs'[created + 1].of.type = "daily_brief" =>
              Kept(jobs'[created + 1].of, briefs)
    BY <1>2, <2>1, <2>3
  <2> QED
    BY <2>2, <2>4, <2>7, <2>8, <2>9, RowChanges
<1>4. \/ Insert(of, status) /\ Answer(c, created + 1)
      \/ UNCHANGED table /\ \E i \in {NoJob} \cup JobIds : Answer(c, i)
  BY Found DEF EnqueueInsert
<1>5. CASE UNCHANGED table /\ \E i \in {NoJob} \cup JobIds : Answer(c, i)
  <2>1. PICK i \in {NoJob} \cup JobIds : Answer(c, i)
    BY <1>5
  <2>2. request' = [request EXCEPT ![c] = [old EXCEPT !.pc = "answered", !.answer = i]]
    BY <2>1 DEF Answer
  <2> DEFINE r == [old EXCEPT !.pc = "answered", !.answer = i]
  <2>3. i \in 0 .. MaxJobs
    BY JobTableAssumption DEF JobIds, NoJob
  <2> HIDE DEF of, old
  <2>4. /\ r \in [pc: {"idle", "active", "insert", "reuse", "answered"},
                  of: Requests, answer: 0 .. MaxJobs]
        /\ r.pc = "answered" /\ r.of = old.of
    BY <1>2, <2>3 DEF of
  <2>5. request' = [request EXCEPT ![c] = r]
    BY <2>2
  <2>6. Dated(r.of)
    BY <1>2, <2>4 DEF of, old
  <2> HIDE DEF r
  <2> QED
    BY <1>5, <2>4, <2>5, <2>6, RequestMoves
<1> QED
  BY <1>3, <1>5, <1>4

\* A cancellation leaves the thread its running row.
LEMMA CancelStep ==
    ASSUME IInv, Aside, NEW j \in JobIds, RequestCancel(j)
    PROVE  IInv'
<1>1. TableTypeOK /\ RequestTypeOK /\ TableInv /\ RunnerInv
  BY TypeParts DEF IInv
<1>2. /\ TableTypeOK' /\ request' = request /\ OthersKept(j)
      /\ jobs[j].status \in ActiveStatuses /\ jobs'[j].of = jobs[j].of
      /\ jobs'[j].status = IF jobs[j].status = "queued" THEN "cancelled" ELSE "running"
  BY <1>1, RequestCancelFacts
<1>3. RequestTypeOK'
  BY <1>1, <1>2 DEF RequestTypeOK
<1>4. Dated(jobs'[j].of) /\ jobs'[j].status # "succeeded"
  BY <1>1, <1>2 DEF TableInv, Asking, ActiveStatuses
<1>5. runner.job = j => jobs'[j].status = "running"
  BY <1>1, <1>2, JobTableAssumption DEF RunnerInv, Assigned, JobIds, NoJob
<1> QED
  BY <1>2, <1>3, <1>4, <1>5, RowChanges

\* Whatever the API does.
LEMMA ApiStep == ASSUME IInv, Api PROVE IInv'
<1>1. Aside
  BY DEF Api, Aside
<1>2. ASSUME NEW c \in Clients, NEW of \in FormalRequests, EnqueueLookup(c, of) PROVE IInv'
  BY <1>1, <1>2, LookupStep
<1>3. ASSUME NEW c \in Clients, NEW k \in Keys, EnqueueReplay(c, k) PROVE IInv'
  BY <1>1, <1>3, ReplayRequestStep
<1>4. ASSUME NEW c \in Clients, EnqueueActive(c) PROVE IInv'
  BY <1>1, <1>4, ActiveStep
<1>5. ASSUME NEW c \in Clients, EnqueueInsert(c) PROVE IInv'
  BY <1>1, <1>5, InsertStep
<1>6. ASSUME NEW c \in Clients, NextRequest(c) PROVE IInv'
  BY <1>1, <1>6, NextRequestStep
<1>7. ASSUME NEW j \in JobIds, RequestCancel(j) PROVE IInv'
  BY <1>1, <1>7, CancelStep
<1> QED
  BY <1>2, <1>3, <1>4, <1>5, <1>6, <1>7 DEF Api

-----------------------------------------------------------------------------
(* Taking up work                                                          *)

\* The thread writes a row it takes up or is done with.
LEMMA RowWritten ==
    ASSUME TableTypeOK, RequestTypeOK, TableInv, NEW j \in JobIds, OthersKept(j),
           TableTypeOK', request' = request, briefs' = briefs,
           jobs[j].status # "absent", jobs'[j].of = jobs[j].of,
           jobs'[j].status = "succeeded" /\ jobs[j].of.type = "daily_brief" =>
              Kept(jobs[j].of, briefs)
    PROVE  RequestTypeOK' /\ TableInv'
<1>1. RequestTypeOK'
  BY DEF RequestTypeOK
<1>2. \A i \in JobIds : jobs'[i].of = jobs[i].of
  BY DEF OthersKept
<1>3. Asking'
  BY <1>2 DEF TableInv, Asking, OthersKept
<1>4. SucceededBriefsExist'
  <2>1. \A i \in JobIds : jobs'[i].status = "succeeded" /\ jobs'[i].of.type = "daily_brief" =>
           Kept(jobs'[i].of, briefs)
    BY <1>2 DEF TableInv, SucceededBriefsExist, OthersKept, Kept
  <2> QED
    BY <2>1 DEF SucceededBriefsExist, Kept
<1> QED
  BY <1>1, <1>3, <1>4 DEF TableInv

\* What a step of the thread leaves alone.
StepAside == UNCHANGED <<request, outputs, starting, history>>

\* After a step of the thread that writes no output the outputs are as they were.
LEMMA StepAsideFacts ==
    ASSUME StepAside, OutputsTypeOK
    PROVE  /\ request' = request /\ briefs' = briefs /\ reviews' = reviews /\ watched' = watched
           /\ starting' = starting /\ published' = published /\ clock' = clock
           /\ lost' = lost /\ crashes' = crashes
           /\ OutputsTypeOK' /\ clock \in Nat /\ clock <= clock'
<1>1. /\ request' = request /\ briefs' = briefs /\ reviews' = reviews /\ watched' = watched
      /\ starting' = starting /\ published' = published /\ clock' = clock
      /\ lost' = lost /\ crashes' = crashes
  BY DEF StepAside, outputs, history
<1>2. OutputsTypeOK' /\ clock \in Nat
  BY <1>1, Calendar DEF OutputsTypeOK
<1> QED
  BY <1>1, <1>2

\* A step that leaves the table alone: the thread's and the outputs' parts remain.
LEMMA TableAside ==
    ASSUME IInv, UNCHANGED <<table, request>>, briefs \subseteq briefs',
           RunnerTypeOK', RunnerInv', OutputsTypeOK', OutputInv'
    PROVE  IInv'
<1>1. TableTypeOK /\ RequestTypeOK /\ TableInv
  BY TypeParts DEF IInv
<1> QED
  BY <1>1, TableStays, Assembled

\* The thread takes a row of the kind that it will be busy with.
LEMMA TakeStep ==
    ASSUME IInv, NEW label \in {"gate", "replay"}, NEW j \in JobIds, Take(j, label),
           label = "gate" => jobs[j].of.type \in {"daily_brief", "weekly_review"},
           label = "replay" => jobs[j].of.type = "replay"
    PROVE  IInv'
<1>1. TableTypeOK /\ RequestTypeOK /\ RunnerTypeOK /\ OutputsTypeOK
      /\ TableInv /\ RunnerInv /\ OutputInv
  BY TypeParts DEF IInv
<1>2. StepAside /\ Claim(j) /\ runner' = [IdleRunner EXCEPT !.pc = label, !.job = j, !.now = clock]
  BY DEF Take, StepAside
<1>3. request' = request /\ briefs' = briefs /\ reviews' = reviews /\ clock' = clock
      /\ OutputsTypeOK' /\ clock \in Nat /\ clock <= clock'
  BY <1>1, <1>2, StepAsideFacts
<1>4. /\ TableTypeOK' /\ OthersKept(j) /\ jobs[j].status = "queued"
      /\ jobs'[j].of = jobs[j].of /\ jobs'[j].status = "running"
  BY <1>1, <1>2, ClaimFacts
<1>5. RequestTypeOK' /\ TableInv'
  BY <1>1, <1>3, <1>4, RowWritten
<1>6. /\ runner'.pc = label /\ runner'.job = j /\ runner'.now = clock /\ runner'.dates = {}
      /\ ~ runner'.nested
  BY <1>2 DEF IdleRunner
<1>7. RunnerTypeOK'
  <2>1. j \in 0 .. MaxJobs /\ clock \in 0 .. WindowEnd /\ label \in Pcs
    BY <1>1, JobTableAssumption DEF JobIds, OutputsTypeOK, Pcs
  <2> QED
    BY <1>2, <2>1 DEF RunnerTypeOK, IdleRunner
<1>8. Assigned'
  BY <1>4, <1>6, JobTableAssumption DEF Assigned, JobIds, NoJob
<1>9. DatesAreDue' /\ Promised' /\ Reviewing'
  BY <1>3, <1>6 DEF DatesAreDue, Promised, Reviewing
<1>10. OutputInv'
  BY <1>1, <1>3, OutputsStay
<1> QED
  BY <1>3, <1>4, <1>5, <1>7, <1>8, <1>9, <1>10, Assembled DEF RunnerInv

\* Both claims take a queued row of their kind.
LEMMA ClaimSteps == ASSUME IInv, ClaimReplay \/ ClaimOutput PROVE IInv'
<1>1. ASSUME NEW types, NEW j \in QueuedOf(types)
      PROVE  j \in JobIds /\ jobs[j].of.type \in types
  BY DEF QueuedOf, Present
<1>2. CASE ClaimReplay
  <2>1. PICK j \in QueuedOf({"replay"}) : Take(j, "replay")
    BY <1>2 DEF ClaimReplay
  <2>2. j \in JobIds /\ jobs[j].of.type = "replay"
    BY <1>1
  <2> QED
    BY <2>1, <2>2, TakeStep
<1>3. CASE ClaimOutput
  <2>1. PICK j \in QueuedOf({"daily_brief", "weekly_review"}) : Take(j, "gate")
    BY <1>3 DEF ClaimOutput
  <2>2. j \in JobIds /\ jobs[j].of.type \in {"daily_brief", "weekly_review"}
    BY <1>1
  <2> QED
    BY <2>1, <2>2, TakeStep
<1> QED
  BY <1>2, <1>3

\* The dates a scheduled task sets out to make are due.
LEMMA ScheduleStep == ASSUME IInv, Schedule PROVE IInv'
<1>1. TypeOK /\ RunnerTypeOK /\ OutputsTypeOK /\ OutputInv
  BY TypeParts DEF IInv
<1>2. StepAside /\ UNCHANGED table
  BY DEF Schedule, StepAside
<1>3. request' = request /\ briefs' = briefs /\ reviews' = reviews /\ clock' = clock
      /\ OutputsTypeOK' /\ clock \in Nat /\ clock <= clock'
  BY <1>1, <1>2, StepAsideFacts
<1>4. PICK dates :
         /\ runner' = [IdleRunner EXCEPT !.pc = "dates", !.now = clock, !.dates = dates]
         /\ \A d \in dates : \/ d \in Days /\ d = Today(clock) /\ Due(d) <= clock
                             \/ d \in Missing(Today(clock) - 1)
  BY DEF Schedule
<1>5. ASSUME NEW d \in dates PROVE d \in Days /\ Due(d) <= clock
  <2>1. CASE d \in Days /\ d = Today(clock) /\ Due(d) <= clock
    BY <2>1
  <2>2. CASE d \in Missing(Today(clock) - 1)
    <3>1. d \in OpenDates /\ d <= Today(clock) - 1
      BY <2>2 DEF Missing
    <3>2. d \in Days /\ d \in Nat /\ Today(clock) \in Nat /\ 2 * Today(clock) <= clock + 1
      BY <1>3, <3>1, Calendar
    <3> QED
      BY <1>3, <3>1, <3>2 DEF Due
  <2> QED
    BY <1>4, <2>1, <2>2
<1>6. /\ runner'.pc = "dates" /\ runner'.job = NoJob /\ runner'.now = clock
      /\ runner'.dates = dates /\ ~ runner'.nested
  BY <1>4 DEF IdleRunner
<1>7. RunnerTypeOK'
  <2>1. clock \in 0 .. WindowEnd /\ dates \subseteq Days /\ NoJob \in 0 .. MaxJobs
    BY <1>1, <1>5, JobTableAssumption DEF OutputsTypeOK, NoJob
  <2> QED
    BY <1>4, <2>1 DEF RunnerTypeOK, IdleRunner, Pcs
<1>8. RunnerInv'
  BY <1>3, <1>5, <1>6 DEF RunnerInv, Assigned, DatesAreDue, Promised, Reviewing
<1>9. OutputInv'
  BY <1>1, <1>3, OutputsStay
<1> QED
  BY <1>2, <1>3, <1>7, <1>8, <1>9, TableAside

\* The start-up catch-up reviews only when the review is due.
LEMMA StartUpStep == ASSUME IInv, StartUp PROVE IInv'
<1>1. RunnerTypeOK /\ OutputsTypeOK /\ OutputInv /\ RunnerInv
  BY TypeParts DEF IInv
<1>2. /\ UNCHANGED table /\ request' = request /\ briefs' = briefs /\ reviews' = reviews
      /\ watched' = watched /\ starting' = FALSE /\ published' = published /\ clock' = clock
      /\ lost' = lost /\ crashes' = crashes
  BY DEF StartUp, outputs, history
<1>3. OutputsTypeOK' /\ clock \in Nat /\ clock <= clock'
  <2>1. clock \in Nat
    BY <1>1, Calendar DEF OutputsTypeOK
  <2>2. OutputsTypeOK'
    BY <1>1, <1>2, Zenon DEF OutputsTypeOK
  <2> QED
    BY <1>2, <2>1, <2>2
<1>4. OutputInv'
  BY <1>1, <1>2, <1>3, OutputsStay
<1>5. CASE runner' = runner
  <2>1. runner.job # NoJob =>
           jobs'[runner.job].of = jobs[runner.job].of /\ jobs'[runner.job].status = "running"
    BY <1>1, <1>2 DEF RunnerInv, Assigned, table
  <2>2. RunnerTypeOK' /\ RunnerInv'
    BY <1>1, <1>2, <1>3, <1>5, <2>1, RunnerStays
  <2> QED
    BY <1>2, <1>3, <1>4, <2>2, TableAside
<1>6. CASE /\ ReviewReady(clock, briefs)
           /\ runner' = [IdleRunner EXCEPT !.pc = "versions", !.now = clock, !.versions = Versions]
  <2>1. clock >= Due(LastOpen) /\ OpenDates \subseteq briefs
    BY <1>6 DEF ReviewReady
  <2>2. /\ runner'.pc = "versions" /\ runner'.job = NoJob /\ runner'.now = clock
        /\ runner'.dates = {} /\ runner'.versions = Versions /\ ~ runner'.nested
    BY <1>6 DEF IdleRunner
  <2>3. RunnerTypeOK'
    <3>1. clock \in 0 .. WindowEnd /\ NoJob \in 0 .. MaxJobs
      BY <1>1, JobTableAssumption DEF OutputsTypeOK, NoJob
    <3> QED
      BY <1>6, <3>1 DEF RunnerTypeOK, IdleRunner, Pcs
  <2>4. RunnerInv'
    BY <1>2, <1>3, <2>1, <2>2 DEF RunnerInv, Assigned, DatesAreDue, Promised, Reviewing
  <2> QED
    BY <1>2, <1>3, <1>4, <2>3, <2>4, TableAside
<1> QED
  BY <1>5, <1>6 DEF StartUp

-----------------------------------------------------------------------------
(* Carrying the work out                                                   *)

\* The outputs and the time are as they were.
LEMMA Concluded ==
    ASSUME IInv, NEW outcome \in {"succeeded", "failed"}, Conclude(outcome),
           runner.pc # "idle", request' = request, briefs' = briefs, reviews' = reviews,
           OutputsTypeOK', clock <= clock',
           outcome = "succeeded" /\ runner.job # NoJob
              /\ jobs[runner.job].of.type = "daily_brief" => Kept(jobs[runner.job].of, briefs)
    PROVE  IInv'
<1>1. TableTypeOK /\ RequestTypeOK /\ RunnerTypeOK /\ OutputsTypeOK
      /\ TableInv /\ RunnerInv /\ OutputInv
  BY TypeParts DEF IInv
<1>2. runner' = IdleRunner
  BY DEF Conclude
<1>3. RunnerTypeOK' /\ RunnerInv'
  BY <1>2, IdleAgain
<1>4. OutputInv'
  BY <1>1, OutputsStay
<1>5. CASE runner.job = NoJob
  BY <1>3, <1>4, <1>5, TableAside DEF Conclude
<1>6. CASE runner.job # NoJob
  <2>1. runner.job \in JobIds /\ jobs[runner.job].status = "running"
    BY <1>1, <1>6, RunnerFields DEF RunnerInv, Assigned
  <2>2. PICK j \in JobIds : j = runner.job
    BY <2>1
  <2>3. Finish(j, outcome) /\ jobs[j].status = "running"
    BY <1>6, <2>1, <2>2 DEF Conclude
  <2>4. /\ TableTypeOK' /\ OthersKept(j) /\ jobs'[j].of = jobs[j].of
        /\ jobs'[j].status = IF jobs[j].cancel THEN "cancelled" ELSE outcome
    BY <1>1, <2>3, FinishFacts
  <2>5. jobs'[j].status = "succeeded" /\ jobs[j].of.type = "daily_brief" =>
           Kept(jobs[j].of, briefs)
    BY <1>6, <2>2, <2>4
  <2>6. RequestTypeOK' /\ TableInv'
    BY <1>1, <2>3, <2>4, <2>5, RowWritten
  <2> QED
    BY <1>3, <1>4, <2>4, <2>6, Assembled
<1> QED
  BY <1>5, <1>6

\* The dates that are made through the one asked for are due.
LEMMA MissingAreDue ==
    ASSUME NEW t \in Nat, NEW d \in Days, d <= Today(t),
           NEW through \in {d, d - 1}, through = d => t >= Due(d), NEW e \in Missing(through)
    PROVE  e \in Days /\ Due(e) <= t
<1>1. e \in OpenDates /\ e <= through
  BY DEF Missing
<1>2. e \in Days /\ e \in Nat /\ d \in Nat /\ Today(t) \in Nat /\ 2 * Today(t) <= t + 1
  BY <1>1, Calendar
<1>3. CASE through = d
  BY <1>1, <1>2, <1>3 DEF Due
<1>4. CASE through = d - 1
  BY <1>1, <1>2, <1>4 DEF Due
<1> QED
  BY <1>2, <1>3, <1>4

\* The gate of a brief job concludes it, or lays out the dates it promises.
LEMMA DailyGateStep == ASSUME IInv, DailyGate PROVE IInv'
<1> DEFINE of == jobs[runner.job].of
           d == jobs[runner.job].of.day
           due == runner.now >= Due(d)
           through == IF due THEN d ELSE d - 1
           targets == IF of.catchUp THEN Missing(through) ELSE {d}
<1>1. RunnerTypeOK /\ OutputsTypeOK /\ TableInv /\ RunnerInv /\ OutputInv
  BY TypeParts DEF IInv
<1>2. runner.pc = "gate" /\ of.type = "daily_brief" /\ StepAside
  BY DEF DailyGate, Job, StepAside
<1>3. request' = request /\ briefs' = briefs /\ reviews' = reviews /\ clock' = clock
      /\ OutputsTypeOK' /\ clock \in Nat /\ clock <= clock'
  BY <1>1, <1>2, StepAsideFacts
<1>4. runner.job # NoJob /\ runner.job \in JobIds /\ ~ runner.nested
      /\ jobs[runner.job].status = "running" /\ runner.now \in Nat /\ runner.now <= clock
  BY <1>1, <1>2, RunnerFields, Calendar DEF RunnerInv, Assigned, DatesAreDue
<1>5. d \in Days /\ d \in Nat
  BY <1>1, <1>2, <1>4, Calendar DEF TableInv, Asking, Dated
<1>6. \/ Conclude("failed")
      \/ targets = {} /\ due /\ Conclude("succeeded")
      \/ /\ d <= Today(runner.now) /\ (~ of.catchUp => due)
         /\ runner' = [runner EXCEPT !.pc = "dates", !.dates = targets]
         /\ UNCHANGED table
  <2>1. Today(runner.now) \in Nat
    BY <1>4, Calendar
  <2>2. \/ Conclude("failed")
        \/ targets = {} /\ due /\ Conclude("succeeded")
        \/ /\ ~ (d > Today(runner.now)) /\ ~ (~ of.catchUp /\ ~ due)
           /\ runner' = [runner EXCEPT !.pc = "dates", !.dates = targets]
           /\ UNCHANGED table
    BY Zenon DEF DailyGate, Job
  <2>3. ~ (d > Today(runner.now)) => d <= Today(runner.now)
    BY <1>5, <2>1
  <2> HIDE DEF of, d, due, targets
  <2> QED
    BY <2>2, <2>3
<1>7. of.catchUp => \A e \in OpenDates : e < d => e \in briefs \cup Missing(through)
  <2>1. \A e \in OpenDates : e \in Nat
    BY Calendar
  <2> QED
    BY <1>5, <2>1 DEF Missing
<1>8. Kept(of, briefs \cup targets)
  BY <1>7 DEF Kept
<1>9. CASE Conclude("failed")
  BY <1>2, <1>3, <1>9, Concluded
<1>10. CASE targets = {} /\ due /\ Conclude("succeeded")
  <2>1. Kept(of, briefs)
    <3>1. briefs \cup targets = briefs
      BY <1>10
    <3> QED
      BY <1>8, <3>1
  <2> QED
    BY <1>2, <1>3, <1>10, <2>1, Concluded
<1>11. CASE /\ d <= Today(runner.now) /\ (~ of.catchUp => due)
            /\ runner' = [runner EXCEPT !.pc = "dates", !.dates = targets]
            /\ UNCHANGED table
  <2>1. \A e \in targets : e \in Days /\ Due(e) <= runner.now
    <3>1. CASE of.catchUp
      <4>1. through \in {d, d - 1} /\ (through = d => runner.now >= Due(d))
        BY <1>5
      <4>2. targets = Missing(through)
        BY <3>1
      <4> HIDE DEF through, targets, due
      <4> QED
        BY <1>4, <1>5, <1>11, <4>1, <4>2, MissingAreDue
    <3>2. CASE ~ of.catchUp
      <4>1. targets = {d} /\ runner.now >= Due(d)
        BY <1>11, <3>2
      <4>2. Due(d) \in Nat
        BY <1>5 DEF Due
      <4> QED
        BY <1>4, <1>5, <4>1, <4>2
    <3> QED
      BY <3>1, <3>2
  <2> HIDE DEF targets, due, through
  <2>2. /\ runner'.pc = "dates" /\ runner'.job = runner.job /\ runner'.now = runner.now
        /\ runner'.dates = targets /\ runner'.nested = runner.nested
    BY <1>1, <1>11 DEF RunnerTypeOK
  <2>3. RunnerTypeOK'
    BY <1>1, <1>11, <2>1 DEF RunnerTypeOK, Pcs
  <2>4. jobs' = jobs
    BY <1>11 DEF table
  <2>5. Assigned'
    BY <1>2, <1>4, <2>2, <2>4 DEF Assigned
  <2>6. DatesAreDue' /\ Reviewing'
    BY <1>3, <1>4, <2>1, <2>2 DEF DatesAreDue, Reviewing
  <2>7. Promised'
    BY <1>3, <1>8, <2>2, <2>4 DEF Promised
  <2>8. OutputInv'
    BY <1>1, <1>3, OutputsStay
  <2> QED
    BY <1>3, <1>11, <2>3, <2>5, <2>6, <2>7, <2>8, TableAside DEF RunnerInv
<1> QED
  BY <1>6, <1>9, <1>10, <1>11

\* The gate of a review job fails it, or opens a review that is due.
LEMMA ReviewGateStep == ASSUME IInv, ReviewGate PROVE IInv'
<1>1. RunnerTypeOK /\ OutputsTypeOK /\ TableInv /\ RunnerInv /\ OutputInv
  BY TypeParts DEF IInv
<1>2. runner.pc = "gate" /\ jobs[runner.job].of.type = "weekly_review" /\ StepAside
  BY DEF ReviewGate, Job, StepAside
<1>3. request' = request /\ briefs' = briefs /\ reviews' = reviews /\ clock' = clock
      /\ OutputsTypeOK' /\ clock \in Nat /\ clock <= clock'
  BY <1>1, <1>2, StepAsideFacts
<1>4. runner.job # NoJob /\ ~ runner.nested /\ jobs[runner.job].status = "running"
      /\ runner.now \in Nat /\ runner.now <= clock /\ Due(LastOpen) \in Nat
  BY <1>1, <1>2, RunnerFields, Calendar DEF RunnerInv, Assigned, DatesAreDue, Due
<1>5. CASE Conclude("failed")
  BY <1>2, <1>3, <1>5, Concluded
<1>6. CASE /\ ReviewReady(runner.now, briefs) /\ UNCHANGED table
           /\ runner' = [runner EXCEPT !.pc = "versions", !.versions = Versions]
  <2>1. clock >= Due(LastOpen) /\ OpenDates \subseteq briefs
    BY <1>3, <1>4, <1>6 DEF ReviewReady
  <2>2. /\ runner'.pc = "versions" /\ runner'.job = runner.job /\ runner'.now = runner.now
        /\ runner'.dates = runner.dates /\ runner'.versions = Versions
        /\ runner'.nested = runner.nested
    BY <1>1, <1>6 DEF RunnerTypeOK
  <2>3. RunnerTypeOK'
    BY <1>1, <1>6 DEF RunnerTypeOK, Pcs
  <2>4. jobs' = jobs
    BY <1>6 DEF table
  <2>5. Assigned' /\ Promised'
    BY <1>2, <1>4, <2>2, <2>4 DEF Assigned, Promised
  <2>6. DatesAreDue' /\ Reviewing'
    BY <1>1, <1>3, <2>1, <2>2 DEF RunnerInv, DatesAreDue, Reviewing
  <2>7. OutputInv'
    BY <1>1, <1>3, OutputsStay
  <2> QED
    BY <1>3, <1>6, <2>3, <2>5, <2>6, <2>7, TableAside DEF RunnerInv
<1> QED
  BY <1>5, <1>6 DEF ReviewGate

\* A brief that is stored is one of the dates that were taken up.
LEMMA BriefStored ==
    ASSUME OutputsTypeOK, RunnerTypeOK, RunnerInv, OutputInv, NEW d \in runner.dates,
           briefs' = briefs \/ (d \in OpenDates /\ briefs' = briefs \cup {d}),
           reviews' = reviews, watched' = watched, starting' = starting,
           published' = published, clock' = clock, lost' = lost, crashes' = crashes
    PROVE  OutputInv' /\ OutputsTypeOK'
<1>1. d \in Days /\ Due(d) <= clock
  <2>1. d \in Days /\ runner.now \in 0 .. WindowEnd /\ clock \in 0 .. WindowEnd
    BY RunnerFields DEF OutputsTypeOK
  <2>2. d \in Nat /\ WindowEnd \in Nat
    BY <2>1, Calendar
  <2> QED
    BY <2>1, <2>2 DEF RunnerInv, DatesAreDue, Due
<1>2. BriefsAreDue'
  <2>1. Due(d) \in Nat /\ clock \in Nat
    BY <1>1, Calendar DEF OutputsTypeOK, Due
  <2> QED
    BY <1>1, <2>1 DEF OutputInv, BriefsAreDue
<1>3. ReviewsComeLast'
  BY DEF OutputInv, ReviewsComeLast
<1>4. OutputsTypeOK'
  BY <1>1 DEF OutputsTypeOK
<1> QED
  BY <1>2, <1>3, <1>4 DEF OutputInv

\* A brief that is made was due; the review follows only the last of them.
LEMMA MakeBriefStep == ASSUME IInv, NEW d \in Days, MakeBrief(d) PROVE IInv'
<1> DEFINE made == briefs \cup {d}
           review == ReviewReady(runner.now, made) /\ reviews = {}
<1>1. RunnerTypeOK /\ OutputsTypeOK /\ RunnerInv /\ OutputInv
  BY TypeParts DEF IInv
<1>2. /\ runner.pc = "dates" /\ d \in runner.dates /\ d \in OpenDates /\ briefs' = made
      /\ UNCHANGED table /\ request' = request /\ reviews' = reviews /\ watched' = watched
      /\ starting' = starting /\ published' = published /\ clock' = clock
      /\ lost' = lost /\ crashes' = crashes
  BY DEF MakeBrief, NextDate, history
<1>3. OutputInv' /\ OutputsTypeOK'
  BY <1>1, <1>2, BriefStored
<1>4. runner' = [runner EXCEPT !.dates = @ \ {d},
                               !.pc = IF review THEN "versions" ELSE "dates",
                               !.versions = IF review THEN Versions ELSE {},
                               !.nested = review]
  BY DEF MakeBrief
<1>5. review \in BOOLEAN
  BY DEF ReviewReady
<1>6. review => clock >= Due(LastOpen) /\ OpenDates \subseteq made
  <2>1. runner.now \in Nat /\ clock \in Nat /\ Due(LastOpen) \in Nat /\ runner.now <= clock
    BY <1>1, RunnerFields, Calendar DEF OutputsTypeOK, RunnerInv, DatesAreDue, Due
  <2> QED
    BY <2>1 DEF ReviewReady
<1> HIDE DEF review
<1>7. /\ runner'.pc = (IF review THEN "versions" ELSE "dates") /\ runner'.job = runner.job
      /\ runner'.now = runner.now /\ runner'.failed = runner.failed
      /\ runner'.dates = runner.dates \ {d}
      /\ runner'.versions = (IF review THEN Versions ELSE {}) /\ runner'.nested = review
  BY <1>1, <1>4 DEF RunnerTypeOK
<1>8. RunnerTypeOK'
  <2>1. (IF review THEN "versions" ELSE "dates") \in Pcs
        /\ (IF review THEN Versions ELSE {}) \subseteq Versions
        /\ runner.dates \ {d} \subseteq Days
    BY <1>1, RunnerFields DEF Pcs
  <2> QED
    BY <1>1, <1>4, <1>5, <2>1 DEF RunnerTypeOK
<1>9. jobs' = jobs
  BY <1>2 DEF table
<1>10. Assigned'
  BY <1>1, <1>2, <1>5, <1>7, <1>9 DEF RunnerInv, Assigned
<1>11. DatesAreDue'
  BY <1>1, <1>2, <1>7 DEF RunnerInv, DatesAreDue
<1>12. Reviewing'
  BY <1>2, <1>5, <1>6, <1>7 DEF Reviewing
<1>13. Promised'
  <2>1. briefs \cup runner.dates \subseteq briefs' \cup runner'.dates
    BY <1>2, <1>7
  <2> QED
    BY <1>1, <1>2, <1>7, <1>9, <2>1, KeptGrows DEF RunnerInv, Promised
<1> QED
  BY <1>2, <1>3, <1>8, <1>10, <1>11, <1>12, <1>13, TableAside DEF RunnerInv

\* A date that fails is remembered.
LEMMA MissBriefStep == ASSUME IInv, NEW d \in Days, MissBrief(d) PROVE IInv'
<1>1. RunnerTypeOK /\ OutputsTypeOK /\ RunnerInv /\ OutputInv
  BY TypeParts DEF IInv
<1>2. /\ runner.pc = "dates" /\ d \in runner.dates
      /\ briefs' = briefs \/ (d \in OpenDates /\ briefs' = briefs \cup {d})
      /\ UNCHANGED table /\ request' = request /\ reviews' = reviews /\ watched' = watched
      /\ starting' = starting /\ published' = published /\ clock' = clock
      /\ lost' = lost /\ crashes' = crashes
  BY DEF MissBrief, NextDate, history
<1>3. OutputInv' /\ OutputsTypeOK'
  BY <1>1, <1>2, BriefStored
<1>4. runner' = [runner EXCEPT !.dates = @ \ {d}, !.failed = TRUE]
  BY DEF MissBrief
<1>5. /\ runner'.pc = "dates" /\ runner'.job = runner.job /\ runner'.now = runner.now
      /\ runner'.failed /\ runner'.dates = runner.dates \ {d}
      /\ runner'.versions = runner.versions /\ runner'.nested = runner.nested
  BY <1>1, <1>2, <1>4 DEF RunnerTypeOK
<1>6. RunnerTypeOK'
  BY <1>1, <1>4 DEF RunnerTypeOK
<1>7. jobs' = jobs
  BY <1>2 DEF table
<1>8. Assigned' /\ Promised' /\ Reviewing'
  BY <1>1, <1>2, <1>5, <1>7 DEF RunnerInv, Assigned, Promised, Reviewing
<1>9. DatesAreDue'
  BY <1>1, <1>2, <1>5 DEF RunnerInv, DatesAreDue
<1> QED
  BY <1>2, <1>3, <1>6, <1>8, <1>9, TableAside DEF RunnerInv

\* A job that ends well with no date left has kept its promise.
LEMMA DatesDoneStep == ASSUME IInv, DatesDone PROVE IInv'
<1>1. RunnerTypeOK /\ OutputsTypeOK /\ RunnerInv
  BY TypeParts DEF IInv
<1>2. runner.pc = "dates" /\ StepAside
  BY DEF DatesDone, StepAside
<1>3. request' = request /\ briefs' = briefs /\ reviews' = reviews
      /\ OutputsTypeOK' /\ clock <= clock'
  BY <1>1, <1>2, StepAsideFacts
<1>4. \/ Conclude("failed")
      \/ ~ runner.failed /\ runner.dates = {} /\ Conclude("succeeded")
  BY DEF DatesDone
<1>5. ~ runner.failed /\ runner.dates = {} /\ runner.job # NoJob
      /\ jobs[runner.job].of.type = "daily_brief" => Kept(jobs[runner.job].of, briefs)
  <2>1. runner.dates = {} => briefs \cup runner.dates = briefs
    OBVIOUS
  <2> QED
    BY <1>1, <1>2, <2>1 DEF RunnerInv, Promised
<1> QED
  BY <1>2, <1>3, <1>4, <1>5, Concluded

\* Reviewing a version moves it from the open ones to those reviewed.
LEMMA ReviewVersionStep == ASSUME IInv, NEW v \in Versions, ReviewVersion(v) PROVE IInv'
<1>1. RunnerTypeOK /\ OutputsTypeOK /\ RunnerInv /\ OutputInv
  BY TypeParts DEF IInv
<1>2. /\ runner.pc = "versions" /\ v \in runner.versions /\ reviews' = reviews \cup {v}
      /\ UNCHANGED table /\ request' = request /\ briefs' = briefs /\ watched' = watched
      /\ starting' = starting /\ published' = published /\ clock' = clock
      /\ lost' = lost /\ crashes' = crashes
  BY DEF ReviewVersion, history
<1>3. OutputsTypeOK'
  BY <1>1, <1>2 DEF OutputsTypeOK
<1>4. OutputInv'
  BY <1>1, <1>2 DEF RunnerInv, Reviewing, OutputInv, BriefsAreDue, ReviewsComeLast
<1> DEFINE pc == IF runner.versions = {v} THEN "watch" ELSE "versions"
<1>5. runner' = [runner EXCEPT !.versions = @ \ {v}, !.pc = pc]
  BY DEF ReviewVersion
<1>6. pc \in {"watch", "versions"} /\ (pc = "watch" => runner.versions = {v})
  OBVIOUS
<1> HIDE DEF pc
<1>7. /\ runner'.pc = pc /\ runner'.job = runner.job /\ runner'.now = runner.now
      /\ runner'.failed = runner.failed /\ runner'.dates = runner.dates
      /\ runner'.versions = runner.versions \ {v} /\ runner'.nested = runner.nested
  BY <1>1, <1>5 DEF RunnerTypeOK
<1>8. RunnerTypeOK'
  BY <1>1, <1>5, <1>6 DEF RunnerTypeOK, Pcs
<1>9. jobs' = jobs
  BY <1>2 DEF table
<1>10. Assigned' /\ DatesAreDue' /\ Promised'
  BY <1>1, <1>2, <1>6, <1>7, <1>9 DEF RunnerInv, Assigned, DatesAreDue, Promised
<1>11. Reviewing'
  BY <1>1, <1>2, <1>6, <1>7 DEF RunnerInv, Reviewing
<1> QED
  BY <1>2, <1>3, <1>4, <1>8, <1>10, <1>11, TableAside DEF RunnerInv

\* A review that followed a brief returns to the dates.
LEMMA ReviewReturns ==
    ASSUME IInv, runner.pc \in {"versions", "watch"}, runner.nested, UNCHANGED <<table, request>>,
           runner' = [runner EXCEPT !.pc = "dates", !.versions = {}, !.nested = FALSE],
           briefs' = briefs, reviews' = reviews, OutputsTypeOK', clock' = clock
    PROVE  IInv'
<1>1. RunnerTypeOK /\ OutputsTypeOK /\ RunnerInv /\ OutputInv
  BY TypeParts DEF IInv
<1>2. /\ runner'.pc = "dates" /\ runner'.job = runner.job /\ runner'.now = runner.now
      /\ runner'.failed = runner.failed /\ runner'.dates = runner.dates /\ ~ runner'.nested
  BY <1>1 DEF RunnerTypeOK
<1>3. RunnerTypeOK'
  BY <1>1 DEF RunnerTypeOK, Pcs
<1>4. jobs' = jobs
  BY DEF table
<1>5. RunnerInv'
  BY <1>1, <1>2, <1>4 DEF RunnerInv, Assigned, DatesAreDue, Promised, Reviewing
<1>6. OutputInv'
  BY <1>1 DEF OutputInv, BriefsAreDue, ReviewsComeLast
<1> QED
  BY <1>3, <1>5, <1>6, TableAside

\* The end of a review, good or bad.
LEMMA ReviewEndsStep ==
    ASSUME IInv, runner.pc \in {"versions", "watch"}, NEW outcome \in {"succeeded", "failed"},
           ReviewEnds(outcome), request' = request,
           briefs' = briefs, reviews' = reviews, OutputsTypeOK', clock' = clock
    PROVE  IInv'
<1>1. RunnerTypeOK /\ OutputsTypeOK /\ RunnerInv
  BY TypeParts DEF IInv
<1>2. CASE runner.nested
  BY <1>2, ReviewReturns DEF ReviewEnds
<1>3. CASE ~ runner.nested
  <2>1. runner.job # NoJob => jobs[runner.job].of.type # "daily_brief"
    BY <1>1, <1>3 DEF RunnerInv, Assigned
  <2>2. clock <= clock'
    BY <1>1, Calendar DEF OutputsTypeOK
  <2>3. Conclude(outcome)
    BY <1>3 DEF ReviewEnds
  <2> QED
    BY <2>1, <2>2, <2>3, Concluded
<1> QED
  BY <1>2, <1>3

\* The watchlists end a review.
LEMMA WatchItemsStep == ASSUME IInv, WatchItems PROVE IInv'
<1>1. OutputsTypeOK
  BY TypeParts DEF IInv
<1>2. /\ runner.pc = "watch" /\ ReviewEnds("succeeded") /\ request' = request
      /\ briefs' = briefs /\ reviews' = reviews /\ watched' = TRUE /\ starting' = starting
      /\ published' = published /\ clock' = clock /\ lost' = lost /\ crashes' = crashes
  BY DEF WatchItems, history
<1>3. OutputsTypeOK'
  BY <1>1, <1>2, Zenon DEF OutputsTypeOK
<1> QED
  BY <1>2, <1>3, ReviewEndsStep

\* An error ends a review.
LEMMA ReviewRaisesStep == ASSUME IInv, ReviewRaises PROVE IInv'
<1>1. OutputsTypeOK
  BY TypeParts DEF IInv
<1>2. StepAside /\ runner.pc \in {"versions", "watch"} /\ ReviewEnds("failed")
  BY DEF ReviewRaises, StepAside
<1> QED
  BY <1>1, <1>2, StepAsideFacts, ReviewEndsStep

\* A replay's outcome is that of no formal job.
LEMMA RunReplayStep == ASSUME IInv, RunReplay PROVE IInv'
<1>1. TableTypeOK /\ RequestTypeOK /\ RunnerTypeOK /\ OutputsTypeOK
      /\ TableInv /\ RunnerInv /\ OutputInv
  BY TypeParts DEF IInv
<1>2. /\ runner.pc = "replay" /\ runner' = IdleRunner /\ request' = request
      /\ briefs' = briefs /\ reviews' = reviews /\ watched' = watched /\ starting' = starting
      /\ published' = published /\ clock' = clock /\ crashes' = crashes
  BY DEF RunReplay, outputs
<1>3. PICK j \in JobIds : j = runner.job
  BY <1>1, <1>2, RunnerFields DEF RunnerInv, Assigned
<1>4. jobs[j].status = "running" /\ jobs[j].of.type = "replay"
  BY <1>1, <1>2, <1>3 DEF RunnerInv, Assigned
<1>5. lost' \subseteq JobIds
  BY <1>1, <1>3 DEF RunReplay, OutputsTypeOK
<1>6. OutputsTypeOK' /\ clock <= clock'
  <2>1. OutputsTypeOK'
    BY <1>1, <1>2, <1>5 DEF OutputsTypeOK
  <2> QED
    BY <1>1, <1>2, <2>1, Calendar DEF OutputsTypeOK
<1>7. RunnerTypeOK' /\ RunnerInv'
  BY <1>2, <1>6, IdleAgain
<1>8. OutputInv'
  BY <1>1, <1>2, <1>6, OutputsStay
<1>9. CASE UNCHANGED table
  BY <1>2, <1>6, <1>7, <1>8, <1>9, TableAside
<1>10. ASSUME NEW outcome \in {"succeeded", "failed"}, created' = created,
              jobs' = [jobs EXCEPT ![j].status = outcome]
       PROVE  IInv'
  <2> DEFINE row == [jobs[j] EXCEPT !.status = outcome]
  <2>1. /\ row \in Rows /\ row.status = outcome /\ row.of = jobs[j].of
        /\ outcome \in Statuses \ {"absent"}
    BY <1>1 DEF TableTypeOK, Rows, Statuses, TerminalStatuses
  <2>2. jobs' = [jobs EXCEPT ![j] = row]
    BY <1>10
  <2>3. TableTypeOK' /\ OthersKept(j) /\ jobs'[j].of = jobs[j].of /\ jobs'[j].status = outcome
    <3> HIDE DEF row
    <3> QED
      BY <1>1, <1>4, <1>10, <2>1, <2>2, WriteFacts
  <2>4. RequestTypeOK' /\ TableInv'
    BY <1>1, <1>2, <1>4, <2>1, <2>3, RowWritten
  <2> QED
    BY <1>6, <1>7, <1>8, <2>3, <2>4, Assembled
<1> QED
  BY <1>3, <1>9, <1>10 DEF RunReplay

\* All the thread's work keeps the invariant.
LEMMA WorkStep == ASSUME IInv, Work PROVE IInv'
BY DailyGateStep, ReviewGateStep, DatesDoneStep, WatchItemsStep, ReviewRaisesStep,
   RunReplayStep, MakeBriefStep, MissBriefStep, ReviewVersionStep DEF Work

-----------------------------------------------------------------------------
(* The environment                                                         *)

\* What happens around the thread: the table, and what is made, stay.
LEMMA EnvironmentStep == ASSUME IInv, Publish \/ Tick \/ Crash PROVE IInv'
<1>1. RunnerTypeOK /\ OutputsTypeOK /\ RunnerInv /\ OutputInv /\ clock \in Nat /\ WindowEnd \in Nat
  BY TypeParts, Calendar DEF IInv, OutputsTypeOK
<1>2. UNCHANGED <<table, request>> /\ briefs' = briefs /\ reviews' = reviews /\ watched' = watched
      /\ (runner' = runner \/ runner' = IdleRunner)
  BY DEF Publish, Tick, Crash, outputs
<1>3. OutputsTypeOK' /\ clock <= clock'
  <2>1. CASE Publish
    <3>1. /\ published' = TRUE /\ watched' = watched /\ briefs' = briefs /\ reviews' = reviews
          /\ starting' = starting /\ clock' = clock /\ lost' = lost /\ crashes' = crashes
      BY <2>1 DEF Publish, outputs
    <3>2. OutputsTypeOK'
      BY <1>1, <3>1, Zenon DEF OutputsTypeOK
    <3> QED
      BY <1>1, <3>1, <3>2
  <2>2. CASE Tick
    <3>1. /\ published' = published /\ watched' = watched /\ briefs' = briefs
          /\ reviews' = reviews /\ starting' = starting /\ clock' = clock + 1
          /\ clock < WindowEnd /\ lost' = lost /\ crashes' = crashes
      BY <2>2 DEF Tick, outputs
    <3>2. clock' \in 0 .. WindowEnd
      BY <1>1, <3>1
    <3>3. OutputsTypeOK'
      BY <1>1, <3>1, <3>2, Zenon DEF OutputsTypeOK
    <3> QED
      BY <1>1, <3>1, <3>3
  <2>3. CASE Crash
    <3>1. /\ published' = published /\ watched' = watched /\ briefs' = briefs
          /\ reviews' = reviews /\ starting' = TRUE /\ clock' = clock
          /\ crashes < MaxCrashes /\ crashes' = crashes + 1
          /\ lost' = lost \cup {j \in Present : jobs[j].status = "running"}
      BY <2>3 DEF Crash, outputs
    <3>2. lost' \subseteq JobIds
      BY <1>1, <3>1 DEF OutputsTypeOK, Present
    <3>3. crashes' \in 0 .. MaxCrashes
      BY <1>1, <3>1, OutputJobsAssumption DEF OutputsTypeOK
    <3>4. OutputsTypeOK'
      BY <1>1, <3>1, <3>2, <3>3, Zenon DEF OutputsTypeOK
    <3> QED
      BY <1>1, <3>1, <3>4
  <2> QED
    BY <2>1, <2>2, <2>3
<1>4. OutputInv'
  BY <1>1, <1>2, <1>3, OutputsStay
<1>5. RunnerTypeOK' /\ RunnerInv'
  <2>1. CASE runner' = IdleRunner
    BY <1>3, <2>1, IdleAgain
  <2>2. CASE runner' = runner
    <3>1. runner.job # NoJob =>
             jobs'[runner.job].of = jobs[runner.job].of /\ jobs'[runner.job].status = "running"
      BY <1>1, <1>2 DEF RunnerInv, Assigned, table
    <3> QED
      BY <1>1, <1>2, <1>3, <2>2, <3>1, RunnerStays
  <2> QED
    BY <1>2, <2>1, <2>2
<1> QED
  BY <1>2, <1>3, <1>4, <1>5, TableAside

-----------------------------------------------------------------------------
(* The theorems                                                            *)

\* The invariant holds at the start.
LEMMA Start == ASSUME Init PROVE IInv
<1>1. JobsTypeOK /\ TableTypeOK
  BY JobsInitType DEF Init, JobsTypeOK, TableTypeOK
<1>2. OutputsTypeOK
  <2>1. clock \in 0 .. WindowEnd /\ crashes \in 0 .. MaxCrashes
    BY Calendar, OutputJobsAssumption DEF Init
  <2>2. briefs \subseteq Days /\ reviews \subseteq Versions /\ lost \subseteq JobIds
    BY DEF Init
  <2> QED
    BY <2>1, <2>2, Zenon DEF Init, OutputsTypeOK
<1>3. RunnerTypeOK
  BY JobTableAssumption, Calendar DEF Init, IdleRunner, RunnerTypeOK, Pcs, NoJob
<1>4. \A j \in JobIds : jobs[j].status = "absent"
  BY BlankRowType DEF Init, JobsInit
<1>5. \A c \in Clients : request[c].pc = "idle"
  BY DEF Init, JobsInit, IdleRequest
<1>6. TableInv
  BY <1>4, <1>5 DEF TableInv, Asking, SucceededBriefsExist
<1>7. RunnerInv
  <2>1. /\ runner.pc = "idle" /\ runner.job = NoJob /\ runner.now = 0 /\ runner.dates = {}
        /\ clock = 0
    BY IdleRunnerFields DEF Init
  <2> QED
    BY <2>1 DEF RunnerInv, Assigned, DatesAreDue, Promised, Reviewing
<1>8. OutputInv
  BY DEF Init, OutputInv, BriefsAreDue, ReviewsComeLast
<1>9. TypeOK
  BY <1>1, <1>2, <1>3 DEF TypeOK, OutputsTypeOK, RunnerTypeOK, Pcs
<1> QED
  BY <1>6, <1>7, <1>8, <1>9 DEF IInv

\* A step that changes nothing keeps it.
LEMMA StutterStep == ASSUME IInv, UNCHANGED vars PROVE IInv'
<1>1. RunnerTypeOK /\ OutputsTypeOK /\ RunnerInv /\ OutputInv
  BY TypeParts DEF IInv
<1>2. StepAside /\ UNCHANGED table /\ runner' = runner
  BY DEF vars, StepAside, table
<1>3. request' = request /\ briefs' = briefs /\ reviews' = reviews
      /\ OutputsTypeOK' /\ clock <= clock'
  BY <1>1, <1>2, StepAsideFacts
<1>4. runner.job # NoJob =>
         jobs'[runner.job].of = jobs[runner.job].of /\ jobs'[runner.job].status = "running"
  BY <1>1, <1>2 DEF RunnerInv, Assigned, table
<1>5. RunnerTypeOK' /\ RunnerInv' /\ OutputInv'
  BY <1>1, <1>2, <1>3, <1>4, RunnerStays, OutputsStay
<1> QED
  BY <1>2, <1>3, <1>5, TableAside

\* Every step keeps it.
LEMMA Step == ASSUME IInv, [Next]_vars PROVE IInv'
<1>1. CASE Api
  BY <1>1, ApiStep
<1>2. CASE ClaimReplay \/ ClaimOutput
  BY <1>2, ClaimSteps
<1>3. CASE Schedule
  BY <1>3, ScheduleStep
<1>4. CASE StartUp
  BY <1>4, StartUpStep
<1>5. CASE Work
  BY <1>5, WorkStep
<1>6. CASE Publish \/ Tick \/ Crash
  BY <1>6, EnvironmentStep
<1>7. CASE UNCHANGED vars
  BY <1>7, StutterStep
<1> QED
  BY <1>1, <1>2, <1>3, <1>4, <1>5, <1>6, <1>7 DEF Next

\* The inductive invariant holds of every behaviour of the jobs and their thread.
THEOREM Invariant == Spec => []IInv
<1>1. Init => IInv
  BY Start
<1>2. IInv /\ [Next]_vars => IInv'
  BY Step
<1> QED
  BY <1>1, <1>2, PTL DEF Spec

\* Every variable keeps its type, whatever requests, jobs and crashes there are.
THEOREM TypeCorrect == Spec => []TypeOK
<1>1. IInv => TypeOK
  BY DEF IInv
<1> QED
  BY <1>1, Invariant, PTL

\* A daily job (run_daily_brief_job) reports success only when the briefs that it
\* was asked for are stored, whatever failed, crashed or was cancelled around it.
THEOREM SuccessIsBacked == Spec => []SucceededBriefsExist
<1>1. IInv => SucceededBriefsExist
  BY DEF IInv, TableInv
<1> QED
  BY <1>1, Invariant, PTL

\* No path (a job, a catch-up, a scheduled task) makes the brief of a trading day
\* before 15:30 of that day.
THEOREM BriefsWait == Spec => []BriefsAreDue
<1>1. IInv => BriefsAreDue
  BY DEF IInv, OutputInv
<1> QED
  BY <1>1, Invariant, PTL

\* A weekly review, however it came about, follows the last close and every brief.
THEOREM ReviewsWait == Spec => []ReviewsComeLast
<1>1. IInv => ReviewsComeLast
  BY DEF IInv, OutputInv
<1> QED
  BY <1>1, Invariant, PTL

-----------------------------------------------------------------------------
(* What a review job's success means                                       *)

\* A row goes from running to succeeded.
Succeeds(j) == jobs[j].status = "running" /\ jobs'[j].status = "succeeded"

\* A row that is not written does not go on to succeed.
LEMMA OthersDoNot ==
    ASSUME NEW i \in JobIds, OthersKept(i), NEW j \in JobIds, Succeeds(j)
    PROVE  j = i
BY DEF OthersKept, Succeeds

\* Only the row that the thread holds succeeds when it concludes.
LEMMA HeldSucceeds ==
    ASSUME IInv, NEW outcome \in {"succeeded", "failed"}, Conclude(outcome),
           NEW j \in JobIds, Succeeds(j)
    PROVE  j = runner.job /\ outcome = "succeeded"
<1>1. TableTypeOK /\ RunnerTypeOK /\ RunnerInv
  BY TypeParts DEF IInv
<1>2. runner.job # NoJob
  BY DEF Conclude, table, Succeeds
<1>3. PICK i \in JobIds : i = runner.job
  BY <1>1, <1>2, RunnerFields
<1>4. jobs[i].status = "running" /\ Finish(i, outcome)
  BY <1>1, <1>2, <1>3 DEF RunnerInv, Assigned, Conclude
<1>5. OthersKept(i) /\ jobs'[i].status = IF jobs[i].cancel THEN "cancelled" ELSE outcome
  BY <1>1, <1>4, FinishFacts
<1> QED
  BY <1>3, <1>5, OthersDoNot DEF Succeeds

\* No request makes a running row succeed.
LEMMA ApiDoesNot == ASSUME IInv, Api, NEW j \in JobIds PROVE ~ Succeeds(j)
<1>1. TableTypeOK /\ RequestTypeOK
  BY TypeParts DEF IInv
<1>2. CASE UNCHANGED table
  BY <1>2 DEF table, Succeeds
<1>3. ASSUME NEW i \in JobIds, RequestCancel(i) PROVE ~ Succeeds(j)
  <2>1. OthersKept(i) /\ jobs'[i].status \in {"cancelled", "running"}
    BY <1>1, <1>3, RequestCancelFacts
  <2> QED
    BY <2>1, OthersDoNot DEF Succeeds
<1>4. ASSUME NEW of \in Requests, NEW status \in {"succeeded", "queued"}, Insert(of, status)
      PROVE  ~ Succeeds(j)
  <2>1. status \in Statuses \ {"absent"}
    BY DEF Statuses, ActiveStatuses, TerminalStatuses
  <2>2. OthersKept(created + 1) /\ created + 1 \in JobIds /\ jobs[created + 1].status = "absent"
    BY <1>1, <1>4, <2>1, InsertFacts
  <2>3. Succeeds(j) => j = created + 1
    BY <2>2 DEF OthersKept, Succeeds
  <2> QED
    BY <2>2, <2>3 DEF Succeeds
<1>5. ASSUME NEW c \in Clients, EnqueueInsert(c)
      PROVE  \/ UNCHANGED table
             \/ \E of \in Requests, status \in {"succeeded", "queued"} : Insert(of, status)
  <2>1. request[c].of \in Requests
    BY <1>1, RequestFields
  <2> QED
    BY <1>5, <2>1 DEF EnqueueInsert
<1>6. \/ UNCHANGED table
      \/ \E c \in Clients : EnqueueInsert(c)
      \/ \E i \in JobIds : RequestCancel(i)
  BY DEF Api, EnqueueLookup, EnqueueReplay, EnqueueActive, NextRequest
<1> QED
  BY <1>2, <1>3, <1>4, <1>5, <1>6

\* A claim, or a replay's outcome, is no review's success.
LEMMA ClaimDoesNot ==
    ASSUME IInv, ClaimReplay \/ ClaimOutput, NEW j \in JobIds
    PROVE  ~ Succeeds(j)
<1>1. TableTypeOK
  BY TypeParts DEF IInv
<1>2. PICK i \in JobIds : Claim(i)
  BY DEF ClaimReplay, ClaimOutput, Take, QueuedOf, Present
<1>3. OthersKept(i) /\ jobs'[i].status = "running"
  BY <1>1, <1>2, ClaimFacts
<1> QED
  BY <1>3, OthersDoNot DEF Succeeds

\* The thread lets a review job succeed only at the end of the whole review.
LEMMA WorkCompletes ==
    ASSUME IInv, Work, NEW j \in JobIds, Succeeds(j), jobs[j].of.type = "weekly_review"
    PROVE  reviews' = Versions /\ watched'
<1>1. TableTypeOK /\ RunnerTypeOK /\ OutputsTypeOK /\ RunnerInv
  BY TypeParts DEF IInv
<1>2. CASE UNCHANGED table
  BY <1>2 DEF table, Succeeds
<1>3. CASE Conclude("failed")
  BY <1>3, HeldSucceeds
<1>4. CASE Conclude("succeeded") /\ (DailyGate \/ DatesDone)
  <2>1. j = runner.job
    BY <1>4, HeldSucceeds
  <2>2. jobs[runner.job].of.type = "daily_brief"
    <3>1. runner.job # NoJob
      BY <2>1, JobTableAssumption DEF NoJob, JobIds
    <3>2. DailyGate => jobs[runner.job].of.type = "daily_brief"
      BY Zenon DEF DailyGate, Job
    <3>3. DatesDone => runner.pc = "dates"
      BY Zenon DEF DatesDone
    <3> QED
      BY <1>1, <1>4, <3>1, <3>2, <3>3 DEF RunnerInv, Assigned
  <2> QED
    BY <2>1, <2>2
<1>5. CASE Conclude("succeeded") /\ WatchItems
  <2>1. runner.pc = "watch" /\ reviews' = reviews /\ watched' = TRUE
    BY <1>5 DEF WatchItems
  <2>2. reviews = Versions
    BY <1>1, <2>1 DEF RunnerInv, Reviewing, OutputsTypeOK
  <2> QED
    BY <2>1, <2>2
<1>6. CASE RunReplay
  <2>1. PICK i \in JobIds : i = runner.job /\ jobs[i].of.type = "replay"
    BY <1>1, <1>6, RunnerFields DEF RunReplay, RunnerInv, Assigned
  <2>2. OthersKept(i)
    BY <1>1, <1>6, <2>1 DEF RunReplay, OthersKept, TableTypeOK, table
  <2> QED
    BY <2>1, <2>2, OthersDoNot
<1>7. \/ UNCHANGED table \/ Conclude("failed")
      \/ Conclude("succeeded") /\ (DailyGate \/ DatesDone)
      \/ Conclude("succeeded") /\ WatchItems
      \/ RunReplay
  BY DEF Work, DailyGate, ReviewGate, DatesDone, WatchItems, ReviewRaises, ReviewEnds,
         MakeBrief, MissBrief, ReviewVersion
<1> QED
  BY <1>2, <1>3, <1>4, <1>5, <1>6, <1>7

\* A review job that is carried out (run_weekly_review_job) reports success only with
\* a review of every decision version and the watchlists' items; a failure or
\* a crash between its transactions never passes for a success.
THEOREM ReviewsAreWhole == Spec => ReviewRunCompletes
<1>1. ASSUME IInv, [Next]_vars, NEW j \in JobIds, Succeeds(j),
             jobs[j].of.type = "weekly_review"
      PROVE  reviews' = Versions /\ watched'
  <2>1. CASE Api \/ ClaimReplay \/ ClaimOutput
    BY <1>1, <2>1, ApiDoesNot, ClaimDoesNot
  <2>2. CASE Work
    BY <1>1, <2>2, WorkCompletes
  <2>3. CASE UNCHANGED jobs
    BY <1>1, <2>3 DEF Succeeds
  <2>4. Schedule \/ StartUp \/ Publish \/ Tick \/ Crash \/ UNCHANGED vars => UNCHANGED jobs
    BY DEF Schedule, StartUp, Publish, Tick, Crash, vars, table
  <2> QED
    BY <1>1, <2>1, <2>2, <2>3, <2>4 DEF Next
<1>2. IInv /\ [Next]_vars =>
         [\A j \in JobIds :
             jobs[j].status = "running" /\ jobs'[j].status = "succeeded"
             /\ jobs[j].of.type = "weekly_review" => reviews' = Versions /\ watched']_vars
  BY <1>1 DEF Succeeds
<1> QED
  BY <1>2, Invariant, PTL DEF Spec, ReviewRunCompletes

-----------------------------------------------------------------------------
(* Briefs and reviews implement the life cycle of cancellable jobs         *)

\* The row's part in the abstract state; a row of a replay has none.
StatusOf(row) == IF row.status # "absent" /\ row.of.type # "replay" THEN row.status ELSE "absent"
CancelOf(row) == row.status # "absent" /\ row.of.type # "replay" /\ row.cancel
status == [j \in JobIds |-> StatusOf(jobs[j])]
cancel == [j \in JobIds |-> CancelOf(jobs[j])]

\* The mapping that the instance of JobLifecycle uses, before a step ...
LEMMA AbstractState ==
    /\ status = [j \in JobIds |-> IF Lives(j) THEN jobs[j].status ELSE "absent"]
    /\ cancel = [j \in JobIds |-> Lives(j) /\ jobs[j].cancel]
BY DEF status, cancel, StatusOf, CancelOf, Lives, Formal

\* ... and after it.
LEMMA AbstractNext ==
    /\ status' = [j \in JobIds |-> IF Lives(j)' THEN jobs'[j].status ELSE "absent"]
    /\ cancel' = [j \in JobIds |-> Lives(j)' /\ jobs'[j].cancel]
BY DEF status, cancel, StatusOf, CancelOf, Lives, Formal

\* A write of one row is a write of one entry of the abstract state.
LEMMA AbstractWrite ==
    ASSUME NEW j \in JobIds, OthersKept(j)
    PROVE  /\ status' = [status EXCEPT ![j] = StatusOf(jobs'[j])]
           /\ cancel' = [cancel EXCEPT ![j] = CancelOf(jobs'[j])]
           /\ status[j] = StatusOf(jobs[j]) /\ cancel[j] = CancelOf(jobs[j])
BY DEF status, cancel, OthersKept

\* One that leaves the row's part as it was leaves the abstract state.
LEMMA UnseenWrite ==
    ASSUME NEW j \in JobIds, OthersKept(j), StatusOf(jobs'[j]) = StatusOf(jobs[j]),
           CancelOf(jobs'[j]) = CancelOf(jobs[j])
    PROVE  UNCHANGED Lifecycle!lifecycleVars
<1>1. status' = status /\ cancel' = cancel
  <2>1. \A i \in JobIds : /\ StatusOf(jobs'[i]) = StatusOf(jobs[i])
                          /\ CancelOf(jobs'[i]) = CancelOf(jobs[i])
    BY DEF OthersKept
  <2> QED
    BY <2>1 DEF status, cancel
<1> QED
  BY <1>1, AbstractState, AbstractNext DEF Lifecycle!lifecycleVars

\* An empty table is an empty set of jobs.
LEMMA InitRefines == Init => Lifecycle!Init
BY BlankRowType DEF Init, JobsInit, Lifecycle!Init, Lives

\* An insert is an enqueueing, or a record of what exists; a replay's is unseen.
LEMMA InsertRefines ==
    ASSUME TableTypeOK, NEW of \in Requests, NEW s \in {"succeeded", "queued"}, Insert(of, s)
    PROVE  Lifecycle!Next \/ UNCHANGED Lifecycle!lifecycleVars
<1>1. s \in Statuses \ {"absent"}
  BY DEF Statuses, ActiveStatuses, TerminalStatuses
<1>2. /\ OthersKept(created + 1) /\ created + 1 \in JobIds
      /\ jobs[created + 1].status = "absent"
      /\ jobs'[created + 1] = [of |-> of, status |-> s, cancel |-> FALSE,
                               started |-> s # "queued"]
  BY <1>1, InsertFacts
<1>3. PICK j \in JobIds : /\ OthersKept(j) /\ jobs[j].status = "absent"
                         /\ jobs'[j].of = of /\ jobs'[j].status = s
                         /\ jobs'[j].cancel = FALSE
  BY <1>2
<1>4. CASE of.type = "replay"
  BY <1>3, <1>4, UnseenWrite DEF StatusOf, CancelOf
<1>5. CASE of.type # "replay"
  <2>1. /\ status' = [status EXCEPT ![j] = s] /\ status[j] = "absent"
    BY <1>3, <1>5, AbstractWrite DEF StatusOf
  <2>2. cancel' = cancel
    <3>1. \A i \in JobIds : CancelOf(jobs'[i]) = CancelOf(jobs[i])
      BY <1>3 DEF OthersKept, CancelOf
    <3> QED
      BY <3>1 DEF cancel
  <2>3. Lifecycle!Enqueue(j) \/ Lifecycle!Record(j)
    BY <2>1, <2>2, AbstractState, AbstractNext
       DEF Lifecycle!Enqueue, Lifecycle!Record, Lifecycle!Become, Lifecycle!Outcomes
  <2> QED
    BY <2>3 DEF Lifecycle!Next
<1> QED
  BY <1>4, <1>5

\* A claim starts the job.
LEMMA ClaimRefines ==
    ASSUME TableTypeOK, NEW j \in JobIds, Claim(j)
    PROVE  Lifecycle!Next \/ UNCHANGED Lifecycle!lifecycleVars
<1>1. /\ OthersKept(j) /\ jobs[j].status = "queued" /\ jobs'[j].of = jobs[j].of
      /\ jobs'[j].status = "running" /\ jobs'[j].cancel = jobs[j].cancel
  BY ClaimFacts
<1>2. CASE jobs[j].of.type = "replay"
  BY <1>1, <1>2, UnseenWrite DEF StatusOf, CancelOf
<1>3. CASE jobs[j].of.type # "replay"
  <2>1. status' = [status EXCEPT ![j] = "running"] /\ status[j] = "queued"
    BY <1>1, <1>3, AbstractWrite DEF StatusOf
  <2>2. cancel' = cancel
    <3>1. \A i \in JobIds : CancelOf(jobs'[i]) = CancelOf(jobs[i])
      BY <1>1 DEF OthersKept, CancelOf
    <3> QED
      BY <3>1 DEF cancel
  <2>3. Lifecycle!Start(j)
    BY <2>1, <2>2, AbstractState, AbstractNext DEF Lifecycle!Start, Lifecycle!Become
  <2> QED
    BY <2>3 DEF Lifecycle!Next
<1> QED
  BY <1>2, <1>3

\* A cancellation stops the job, or is put down for its next boundary.
LEMMA CancelRefines ==
    ASSUME TableTypeOK, NEW j \in JobIds, RequestCancel(j)
    PROVE  Lifecycle!Next \/ UNCHANGED Lifecycle!lifecycleVars
<1>1. /\ OthersKept(j) /\ jobs[j].status \in ActiveStatuses /\ jobs[j].cancel = FALSE
      /\ jobs'[j].of = jobs[j].of /\ jobs'[j].cancel = TRUE
      /\ jobs'[j].status = IF jobs[j].status = "queued" THEN "cancelled" ELSE "running"
  BY RequestCancelFacts
<1>2. CASE jobs[j].of.type = "replay"
  BY <1>1, <1>2, UnseenWrite DEF StatusOf, CancelOf
<1>3. CASE jobs[j].of.type # "replay"
  <2>1. /\ status' = [status EXCEPT ![j] =
                        IF status[j] = "queued" THEN "cancelled" ELSE "running"]
        /\ status[j] \in {"queued", "running"}
    BY <1>1, <1>3, AbstractWrite DEF StatusOf, ActiveStatuses
  <2>2. cancel' = [cancel EXCEPT ![j] = TRUE] /\ ~ cancel[j]
    BY <1>1, <1>3, AbstractWrite DEF CancelOf, ActiveStatuses
  <2>3. Lifecycle!RequestCancel(j)
    BY <2>1, <2>2, AbstractState, AbstractNext DEF Lifecycle!RequestCancel, Lifecycle!Become
  <2> QED
    BY <2>3 DEF Lifecycle!Next
<1> QED
  BY <1>2, <1>3

\* The thread concludes the running job that it holds.
LEMMA ConcludeRefines ==
    ASSUME IInv, NEW outcome \in {"succeeded", "failed"}, Conclude(outcome)
    PROVE  Lifecycle!Next \/ UNCHANGED Lifecycle!lifecycleVars
<1>1. TableTypeOK /\ RunnerTypeOK /\ RunnerInv
  BY TypeParts DEF IInv
<1>2. CASE runner.job = NoJob
  BY <1>2 DEF Conclude, table, Lifecycle!lifecycleVars, Lives, Formal
<1>3. CASE runner.job # NoJob
  <2>1. PICK j \in JobIds : j = runner.job
    BY <1>1, <1>3, RunnerFields
  <2>2. jobs[j].status = "running" /\ Finish(j, outcome)
    BY <1>1, <1>3, <2>1 DEF RunnerInv, Assigned, Conclude
  <2>3. /\ OthersKept(j) /\ jobs'[j].of = jobs[j].of /\ jobs'[j].cancel = jobs[j].cancel
        /\ jobs'[j].status = IF jobs[j].cancel THEN "cancelled" ELSE outcome
    BY <1>1, <2>2, FinishFacts
  <2>4. CASE jobs[j].of.type = "replay"
    BY <2>2, <2>3, <2>4, UnseenWrite DEF StatusOf, CancelOf
  <2>5. CASE jobs[j].of.type # "replay"
    <3>1. /\ status' = [status EXCEPT ![j] = IF cancel[j] THEN "cancelled" ELSE outcome]
          /\ status[j] = "running"
      BY <2>2, <2>3, <2>5, AbstractWrite DEF StatusOf, CancelOf
    <3>2. cancel' = cancel
      <4>1. \A i \in JobIds : CancelOf(jobs'[i]) = CancelOf(jobs[i])
        BY <2>2, <2>3 DEF OthersKept, CancelOf
      <4> QED
        BY <4>1 DEF cancel
    <3>3. Lifecycle!Conclude(j)
      BY <3>1, <3>2, AbstractState, AbstractNext
         DEF Lifecycle!Conclude, Lifecycle!Become, Lifecycle!Outcomes
    <3> QED
      BY <3>3 DEF Lifecycle!Next
  <2> QED
    BY <2>4, <2>5
<1> QED
  BY <1>2, <1>3

\* A replay's outcome is written to the row of a replay.
LEMMA RunReplayRefines ==
    ASSUME IInv, RunReplay
    PROVE  UNCHANGED Lifecycle!lifecycleVars
<1>1. TableTypeOK /\ RunnerTypeOK /\ RunnerInv
  BY TypeParts DEF IInv
<1>2. PICK j \in JobIds : j = runner.job /\ jobs[j].of.type = "replay"
  BY <1>1, RunnerFields DEF RunReplay, RunnerInv, Assigned
<1>3. OthersKept(j) /\ jobs'[j].of.type = "replay"
  BY <1>1, <1>2 DEF RunReplay, OthersKept, TableTypeOK, Rows, table
<1> QED
  BY <1>2, <1>3, UnseenWrite DEF StatusOf, CancelOf

\* Every step is a step of one formal job's life, or none.
LEMMA StepRefines == IInv /\ [Next]_vars => [Lifecycle!Next]_(Lifecycle!lifecycleVars)
<1> SUFFICES ASSUME IInv, [Next]_vars
             PROVE  Lifecycle!Next \/ UNCHANGED Lifecycle!lifecycleVars
  OBVIOUS
<1>1. TableTypeOK /\ RequestTypeOK
  BY TypeParts DEF IInv
<1>2. CASE UNCHANGED jobs
  BY <1>2 DEF Lifecycle!lifecycleVars, Lives, Formal
<1>3. CASE Api
  <2>1. ASSUME NEW c \in Clients, EnqueueInsert(c)
        PROVE  \/ UNCHANGED jobs
               \/ \E of \in Requests, s \in {"succeeded", "queued"} : Insert(of, s)
    <3>1. request[c].of \in Requests
      BY <1>1, RequestFields
    <3> QED
      BY <2>1, <3>1 DEF EnqueueInsert, table
  <2>2. \/ UNCHANGED jobs
        \/ \E c \in Clients : EnqueueInsert(c)
        \/ \E j \in JobIds : RequestCancel(j)
    BY <1>3 DEF Api, EnqueueLookup, EnqueueReplay, EnqueueActive, NextRequest, table
  <2> QED
    BY <1>1, <1>2, <2>1, <2>2, InsertRefines, CancelRefines
<1>4. CASE ClaimReplay \/ ClaimOutput
  <2>1. PICK j \in JobIds : Claim(j)
    BY <1>4 DEF ClaimReplay, ClaimOutput, Take, QueuedOf, Present
  <2> QED
    BY <1>1, <2>1, ClaimRefines
<1>5. CASE Work
  <2>1. UNCHANGED jobs \/ Conclude("failed") \/ Conclude("succeeded") \/ RunReplay
    BY <1>5 DEF Work, DailyGate, ReviewGate, DatesDone, WatchItems, ReviewRaises, ReviewEnds,
           MakeBrief, MissBrief, ReviewVersion, table
  <2> QED
    BY <1>2, <2>1, ConcludeRefines, RunReplayRefines
<1>6. Schedule \/ StartUp \/ Publish \/ Tick \/ Crash \/ UNCHANGED vars => UNCHANGED jobs
  BY DEF Schedule, StartUp, Publish, Tick, Crash, vars, table
<1> QED
  BY <1>2, <1>3, <1>4, <1>5, <1>6 DEF Next

\* Every behaviour of the week's brief and review jobs is one of independent,
\* cancellable jobs: each is concluded at most once, and nothing but "cancelled"
\* follows a cancellation, whatever the thread, the schedule and the crashes do.
THEOREM Refinement == Spec => FormalLifecycle
<1> QED
  BY InitRefines, StepRefines, Invariant, PTL DEF Spec, FormalLifecycle, Lifecycle!Spec
=============================================================================
