------------------------- MODULE WeeklyJobs_proofs -------------------------
(***************************************************************************)
(* The safety of the weekly selection queue, for any number of weeks,      *)
(* keys, concurrent requests, jobs and crashes of the worker.              *)
(***************************************************************************)
EXTENDS WeeklyJobs, TLAPS

-----------------------------------------------------------------------------
(* The writes of the jobs table                                            *)

\* The type of the table: the part of JobsTypeOK that writes can break.
TableTypeOK ==
    /\ jobs \in [JobIds -> Rows]
    /\ created \in 0 .. MaxJobs
    /\ \A j \in JobIds : (jobs[j].status = "absent") <=> (j > created)

\* The rows other than j are left alone.
OthersKept(j) == \A i \in JobIds \ {j} : jobs'[i] = jobs[i]

\* An unused row is queued nowhere, not cancelled and of some request.
LEMMA BlankRowType ==
    /\ BlankRow \in Rows /\ BlankRow.status = "absent" /\ BlankRow.of \in Requests
    /\ BlankRow.cancel = FALSE /\ BlankRow.started = FALSE
<1>1. PICK w \in Weeks, k \in Keys : TRUE
  BY JobTableAssumption
<1>2. [type |-> "replay", week |-> w, day |-> NoDay, catchUp |-> FALSE, key |-> k] \in Requests
  BY <1>1 DEF Requests, Types
<1>3. (CHOOSE r \in Requests : TRUE) \in Requests
  BY <1>2
<1> QED
  BY <1>3 DEF BlankRow, Rows, Statuses

\* The empty table is well typed, and no request is under way.
LEMMA JobsInitType == ASSUME JobsInit PROVE JobsTypeOK
BY BlankRowType, JobTableAssumption DEF JobsInit, JobsTypeOK, JobIds, IdleRequest, NoJob

\* A write of one row in use, or of the next unused one, keeps the table well typed.
LEMMA WriteFacts ==
    ASSUME TableTypeOK, NEW j \in JobIds, NEW row \in Rows, row.status # "absent",
           jobs' = [jobs EXCEPT ![j] = row],
           \/ created' = created /\ jobs[j].status # "absent"
           \/ created' = j /\ j = created + 1
    PROVE  TableTypeOK' /\ OthersKept(j) /\ jobs'[j] = row
<1>1. OthersKept(j) /\ jobs'[j] = row /\ jobs' \in [JobIds -> Rows]
  BY DEF TableTypeOK, OthersKept
<1>2. created' \in 0 .. MaxJobs /\ \A i \in JobIds : (jobs'[i].status = "absent") <=> (i > created')
  BY <1>1, JobTableAssumption DEF TableTypeOK, OthersKept, JobIds
<1> QED
  BY <1>1, <1>2 DEF TableTypeOK

\* An insert fills the next unused row.
LEMMA InsertFacts ==
    ASSUME TableTypeOK, NEW of \in Requests, NEW status \in Statuses \ {"absent"},
           Insert(of, status)
    PROVE  /\ TableTypeOK' /\ OthersKept(created + 1)
           /\ created + 1 \in JobIds /\ jobs[created + 1].status = "absent"
           /\ jobs'[created + 1] = [of |-> of, status |-> status, cancel |-> FALSE,
                                    started |-> status # "queued"]
<1> DEFINE row == [of |-> of, status |-> status, cancel |-> FALSE, started |-> status # "queued"]
<1>1. created + 1 \in JobIds /\ jobs[created + 1].status = "absent"
  BY JobTableAssumption DEF TableTypeOK, Insert, JobIds
<1>2. (status # "queued") \in BOOLEAN
  OBVIOUS
<1>3. row \in Rows /\ row.status # "absent"
  BY <1>2 DEF Rows
<1>4. jobs' = [jobs EXCEPT ![created + 1] = row] /\ created' = created + 1
  BY DEF Insert
<1>5. PICK j \in JobIds : j = created + 1
  BY <1>1
<1> HIDE DEF row
<1>6. TableTypeOK' /\ OthersKept(j) /\ jobs'[j] = row
  BY <1>3, <1>4, <1>5, WriteFacts
<1> QED
  BY <1>1, <1>5, <1>6 DEF row

\* A claim turns a queued row into a started, running one.
LEMMA ClaimFacts ==
    ASSUME TableTypeOK, NEW j \in JobIds, Claim(j)
    PROVE  /\ TableTypeOK' /\ created' = created /\ OthersKept(j)
           /\ jobs[j].status = "queued"
           /\ jobs'[j].of = jobs[j].of /\ jobs'[j].status = "running"
           /\ jobs'[j].cancel = jobs[j].cancel /\ jobs'[j].started = TRUE
<1> DEFINE row == [jobs[j] EXCEPT !.status = "running", !.started = TRUE]
<1>1. row \in Rows /\ row.status = "running" /\ row.started = TRUE
      /\ row.of = jobs[j].of /\ row.cancel = jobs[j].cancel
  BY DEF TableTypeOK, Rows, Statuses, ActiveStatuses
<1>2. jobs' = [jobs EXCEPT ![j] = row] /\ created' = created /\ jobs[j].status = "queued"
  BY DEF Claim
<1> HIDE DEF row
<1> QED
  BY <1>1, <1>2, WriteFacts

\* Closing a row records the outcome, or the cancellation that came first.
LEMMA FinishFacts ==
    ASSUME TableTypeOK, NEW j \in JobIds, jobs[j].status # "absent",
           NEW outcome \in {"succeeded", "failed"}, Finish(j, outcome)
    PROVE  /\ TableTypeOK' /\ created' = created /\ OthersKept(j)
           /\ jobs'[j].of = jobs[j].of
           /\ jobs'[j].status = IF jobs[j].cancel THEN "cancelled" ELSE outcome
           /\ jobs'[j].cancel = jobs[j].cancel /\ jobs'[j].started = jobs[j].started
<1> DEFINE status == IF jobs[j].cancel THEN "cancelled" ELSE outcome
           row == [jobs[j] EXCEPT !.status = status]
<1>1. status \in Statuses \ {"absent"}
  BY DEF Statuses, TerminalStatuses
<1>2. jobs' = [jobs EXCEPT ![j] = row] /\ created' = created
  BY DEF Finish
<1> HIDE DEF status
<1>3. row \in Rows /\ row.status = status
      /\ row.of = jobs[j].of /\ row.cancel = jobs[j].cancel /\ row.started = jobs[j].started
  BY <1>1 DEF TableTypeOK, Rows
<1> HIDE DEF row
<1> QED
  BY <1>1, <1>2, <1>3, WriteFacts DEF status

\* A cancellation marks an active row, and ends it when it is only queued.
LEMMA RequestCancelFacts ==
    ASSUME TableTypeOK, NEW j \in JobIds, RequestCancel(j)
    PROVE  /\ TableTypeOK' /\ created' = created /\ request' = request /\ OthersKept(j)
           /\ jobs[j].status \in ActiveStatuses /\ jobs[j].cancel = FALSE
           /\ jobs'[j].of = jobs[j].of
           /\ jobs'[j].status = IF jobs[j].status = "queued" THEN "cancelled" ELSE "running"
           /\ jobs'[j].cancel = TRUE /\ jobs'[j].started = jobs[j].started
<1> DEFINE status == IF jobs[j].status = "queued" THEN "cancelled" ELSE jobs[j].status
           row == [jobs[j] EXCEPT !.cancel = TRUE, !.status = status]
<1>1. /\ jobs' = [jobs EXCEPT ![j] = row] /\ created' = created /\ request' = request
      /\ jobs[j].status \in ActiveStatuses /\ jobs[j].cancel = FALSE
  BY DEF RequestCancel, TableTypeOK, Rows
<1>2. status = (IF jobs[j].status = "queued" THEN "cancelled" ELSE "running")
      /\ status \in Statuses \ {"absent"} /\ jobs[j].status # "absent"
  BY <1>1 DEF Statuses, ActiveStatuses, TerminalStatuses
<1> HIDE DEF status
<1>3. row \in Rows /\ row.status = status /\ row.cancel = TRUE
      /\ row.of = jobs[j].of /\ row.started = jobs[j].started
  BY <1>2 DEF TableTypeOK, Rows
<1> HIDE DEF row
<1> QED
  BY <1>1, <1>2, <1>3, WriteFacts

-----------------------------------------------------------------------------
(* The inductive invariant                                                 *)

\* A job that waits is untouched; one that runs was started; all are weekly selections.
RowsConsistent ==
    \A j \in JobIds :
        /\ jobs[j].status \in {"absent", "queued"} => ~ jobs[j].cancel /\ ~ jobs[j].started
        /\ jobs[j].status = "running" => jobs[j].started
        /\ jobs[j].status # "absent" => jobs[j].of.type = "weekly_selection"

\* Requests ask for weekly selections, which are never recorded as a reuse.
RequestsConsistent ==
    \A c \in Clients : request[c].pc # "idle" =>
        request[c].of.type = "weekly_selection" /\ request[c].pc # "reuse"

\* What the poller remembers of its job and of its week still holds.
PollerConsistent ==
    /\ poller.pc # "idle" => poller.job \in JobIds
    /\ poller.pc \in {"prepare", "claim"} => jobs[poller.job].status \in {"queued", "cancelled"}
    /\ poller.pc \in {"read", "commit", "finish"} => jobs[poller.job].status = "running"
    /\ poller.pc = "commit" /\ poller.saw => decision[PickedWeek] # NoJob
    /\ poller.pc = "finish" /\ poller.result = "succeeded" => decision[PickedWeek] # NoJob

\* And what the pre-open task remembers of its week.
PreopenConsistent ==
    preopen.pc = "commit" =>
        /\ preopen.of.type = "weekly_selection"
        /\ preopen.saw => decision[preopen.of.week] # NoJob

\* The inductive invariant: the properties of WeeklyJobs and what each thread
\* remembers between its transactions.
IInv ==
    /\ TypeOK
    /\ RowsConsistent /\ RequestsConsistent /\ PollerConsistent /\ PreopenConsistent
    /\ OneActivePerWeek /\ CancelWins /\ OnlyClaimedJobsDecide
    /\ SucceededHasDecision /\ RunningHasRunner /\ AnswerOfWeek

-----------------------------------------------------------------------------
(* The initial states                                                      *)

\* An empty table with idle threads satisfies the invariant.
LEMMA InitInv == Init => IInv
<1> SUFFICES ASSUME Init PROVE IInv
  OBVIOUS
<1>1. JobsTypeOK
  BY JobsInitType DEF Init
<1>2. TypeOK
  BY <1>1, BlankRowType, WeeklyJobsAssumption, JobTableAssumption
  DEF TypeOK, Init, IdlePoller, IdlePreopen, NoJob, Creators
<1>3. \A j \in JobIds : jobs[j] = BlankRow
  BY DEF Init, JobsInit
<1>4. RowsConsistent /\ CancelWins /\ RunningHasRunner /\ SucceededHasDecision /\ OneActivePerWeek
  BY <1>3, BlankRowType
  DEF RowsConsistent, CancelWins, RunningHasRunner, SucceededHasDecision, OneActivePerWeek,
      ActiveJobs, OfWeek, Present, ActiveStatuses, TerminalStatuses
<1>5. RequestsConsistent /\ AnswerOfWeek
  BY DEF Init, JobsInit, RequestsConsistent, AnswerOfWeek, IdleRequest
<1>6. PollerConsistent /\ PreopenConsistent
  BY DEF Init, PollerConsistent, PreopenConsistent, IdlePoller, IdlePreopen
<1>7. OnlyClaimedJobsDecide
  BY JobTableAssumption DEF Init, OnlyClaimedJobsDecide, NoJob, JobIds
<1> QED
  BY <1>2, <1>4, <1>5, <1>6, <1>7 DEF IInv

-----------------------------------------------------------------------------
(* Steps that leave the table alone                                        *)

\* The poller's reads move its program counter and nothing else.
LEMMA PollerReads ==
    ASSUME IInv, Pick \/ PrepareOk \/ WorkRead PROVE IInv'
<1>1. UNCHANGED <<jobs, created, request, preopen, decision, ended, lost, crashes>>
  BY DEF Pick, PrepareOk, WorkRead, table, environment
<1>2. TypeOK'
  <2>1. poller' \in [pc: {"idle", "prepare", "claim", "read", "commit", "finish"},
                     job: 0 .. MaxJobs, open: BOOLEAN, saw: BOOLEAN,
                     result: {"succeeded", "failed"}]
    <3>1. CASE Pick
      <4>1. PICK j \in JobIds :
               poller' = [pc |-> IF jobs[j].of.week \in ended THEN "claim" ELSE "prepare",
                          job |-> j, open |-> jobs[j].of.week \notin ended, saw |-> FALSE,
                          result |-> "failed"]
        BY <3>1 DEF Pick, IdlePoller, Queued, Present
      <4>2. (jobs[j].of.week \notin ended) \in BOOLEAN /\ j \in 0 .. MaxJobs
        BY JobTableAssumption DEF JobIds
      <4> QED
        BY <4>1, <4>2
    <3>2. CASE PrepareOk
      BY <3>2 DEF IInv, TypeOK, PrepareOk
    <3>3. CASE WorkRead
      BY <3>3 DEF IInv, TypeOK, WorkRead
    <3> QED
      BY <3>1, <3>2, <3>3
  <2> QED
    BY <1>1, <2>1 DEF IInv, TypeOK, JobsTypeOK
<1>3. PollerConsistent' /\ RunningHasRunner'
  <2>1. CASE Pick
    BY <1>1, <2>1 DEF IInv, TypeOK, Pick, IdlePoller, Queued, Present, PickedWeek,
                      PollerConsistent, RunningHasRunner
  <2>2. CASE PrepareOk
    BY <1>1, <2>2 DEF IInv, TypeOK, PrepareOk, PickedWeek, PollerConsistent, RunningHasRunner
  <2>3. CASE WorkRead
    BY <1>1, <2>3 DEF IInv, TypeOK, WorkRead, PickedWeek, PollerConsistent, RunningHasRunner
  <2> QED
    BY <2>1, <2>2, <2>3
<1>4. /\ RowsConsistent' /\ RequestsConsistent' /\ PreopenConsistent' /\ OneActivePerWeek'
      /\ CancelWins' /\ OnlyClaimedJobsDecide' /\ SucceededHasDecision' /\ AnswerOfWeek'
  BY <1>1 DEF IInv, RowsConsistent, RequestsConsistent, PreopenConsistent, OneActivePerWeek,
              CancelWins, OnlyClaimedJobsDecide, SucceededHasDecision, AnswerOfWeek,
              ActiveJobs, OfWeek, Present
<1> QED
  BY <1>2, <1>3, <1>4 DEF IInv

\* The decision of a week is created once and then kept.
LEMMA WorkCommitInv == ASSUME IInv, WorkCommit PROVE IInv'
<1>1. UNCHANGED <<jobs, created, request, preopen, ended, lost, crashes>>
  BY DEF WorkCommit, table, environment
<1>2. /\ poller.pc = "commit" /\ poller.job \in JobIds /\ jobs[poller.job].status = "running"
      /\ jobs[poller.job].started /\ PickedWeek \in Weeks
  BY DEF IInv, TypeOK, JobsTypeOK, WorkCommit, PollerConsistent, RowsConsistent, PickedWeek,
         Rows, Requests
<1>3. /\ poller' \in [pc: {"finish"}, job: {poller.job}, open: BOOLEAN, saw: BOOLEAN,
                      result: {"succeeded", "failed"}]
      /\ poller'.result = "succeeded" => decision'[PickedWeek] # NoJob
  <2>1. \E r \in {"succeeded", "failed"} :
           poller' = [poller EXCEPT !.pc = "finish", !.result = r]
    BY DEF WorkCommit
  <2>2. poller' \in [pc: {"finish"}, job: {poller.job}, open: BOOLEAN, saw: BOOLEAN,
                     result: {"succeeded", "failed"}]
    BY <2>1 DEF IInv, TypeOK
  <2>3. poller'.result = "succeeded" => decision'[PickedWeek] # NoJob
    <3>1. CASE UNCHANGED decision /\ ~ poller.saw /\ decision[PickedWeek] # NoJob
      BY <3>1
    <3>2. CASE decision' = [decision EXCEPT ![PickedWeek] =
                              IF poller.saw THEN @ ELSE poller.job]
      BY <1>2, <3>2, JobTableAssumption
      DEF IInv, TypeOK, PollerConsistent, NoJob, JobIds
    <3> QED
      BY <3>1, <3>2 DEF WorkCommit
  <2> QED
    BY <2>2, <2>3
<1>4. /\ decision' \in [Weeks -> Creators]
      /\ \A w \in Weeks : decision[w] # NoJob => decision'[w] = decision[w]
      /\ \A w \in Weeks : decision'[w] = decision[w] \/ (decision'[w] = poller.job /\ w = PickedWeek)
  BY <1>2, JobTableAssumption DEF IInv, TypeOK, WorkCommit, Creators, JobIds, NoJob
<1>5. TypeOK'
  BY <1>1, <1>2, <1>3, <1>4, JobTableAssumption DEF IInv, TypeOK, JobsTypeOK, JobIds
<1>6. PollerConsistent' /\ RunningHasRunner'
  BY <1>1, <1>2, <1>3 DEF IInv, PickedWeek, PollerConsistent, RunningHasRunner
<1>7. OnlyClaimedJobsDecide'
  BY <1>1, <1>2, <1>4 DEF IInv, OnlyClaimedJobsDecide, PickedWeek
<1>8. SucceededHasDecision' /\ PreopenConsistent'
  BY <1>1, <1>4 DEF IInv, TypeOK, JobsTypeOK, Rows, Requests, SucceededHasDecision,
                    PreopenConsistent
<1>9. /\ RowsConsistent' /\ RequestsConsistent' /\ OneActivePerWeek'
      /\ CancelWins' /\ AnswerOfWeek'
  BY <1>1 DEF IInv, RowsConsistent, RequestsConsistent, OneActivePerWeek, CancelWins,
              AnswerOfWeek, ActiveJobs, OfWeek, Present
<1> QED
  BY <1>5, <1>6, <1>7, <1>8, <1>9 DEF IInv

\* The pre-open task's read remembers whether the decision exists already.
LEMMA PreopenReadInv ==
    ASSUME IInv, NEW w \in Weeks, NEW k \in AutoKeys, PreopenRead(w, k) PROVE IInv'
<1>1. UNCHANGED <<jobs, created, request, poller, decision, ended, lost, crashes>>
  BY DEF PreopenRead, table
<1>2. /\ preopen' = [pc |-> "commit", of |-> Weekly(w, k), open |-> w \notin ended,
                     saw |-> decision[w] # NoJob]
      /\ Weekly(w, k).type = "weekly_selection" /\ Weekly(w, k).week = w
      /\ Weekly(w, k) \in Requests
  BY WeeklyJobsAssumption DEF PreopenRead, Weekly, Requests, Types
<1>3. (w \notin ended) \in BOOLEAN /\ (decision[w] # NoJob) \in BOOLEAN
  OBVIOUS
<1>4. preopen' \in [pc: {"idle", "commit"}, of: Requests, open: BOOLEAN, saw: BOOLEAN]
  BY <1>2, <1>3
<1>5. TypeOK'
  BY <1>1, <1>4 DEF IInv, TypeOK, JobsTypeOK
<1>6. PreopenConsistent'
  BY <1>1, <1>2 DEF PreopenConsistent
<1>7. /\ RowsConsistent' /\ RequestsConsistent' /\ PollerConsistent' /\ OneActivePerWeek'
      /\ CancelWins' /\ OnlyClaimedJobsDecide' /\ SucceededHasDecision'
      /\ RunningHasRunner' /\ AnswerOfWeek'
  BY <1>1 DEF IInv, RowsConsistent, RequestsConsistent, PollerConsistent, PickedWeek,
              OneActivePerWeek, CancelWins, OnlyClaimedJobsDecide, SucceededHasDecision,
              RunningHasRunner, AnswerOfWeek, ActiveJobs, OfWeek, Present
<1> QED
  BY <1>5, <1>6, <1>7 DEF IInv

\* A formal window that ends disturbs nothing: nobody's memory mentions `ended`.
LEMMA WeekEndsInv == ASSUME IInv, NEW w \in Weeks, WeekEnds(w) PROVE IInv'
<1>1. UNCHANGED <<jobs, created, request, poller, preopen, decision, lost, crashes>>
  BY DEF WeekEnds, table
<1>2. ended' \subseteq Weeks
  BY DEF IInv, TypeOK, WeekEnds
<1> QED
  BY <1>1, <1>2
  DEF IInv, TypeOK, JobsTypeOK, RowsConsistent, RequestsConsistent, PollerConsistent, PickedWeek,
      PreopenConsistent, OneActivePerWeek, CancelWins, OnlyClaimedJobsDecide,
      SucceededHasDecision, RunningHasRunner, AnswerOfWeek, ActiveJobs, OfWeek, Present

\* A crash forgets what the threads knew, and no row.
LEMMA CrashInv == ASSUME IInv, Crash PROVE IInv'
<1>1. UNCHANGED <<jobs, created, request, decision, ended>>
  BY DEF Crash, table
<1>2. poller' = IdlePoller /\ preopen' = IdlePreopen
  BY DEF Crash
<1>3. /\ lost' = lost \cup {j \in Present : jobs[j].status = "running"}
      /\ lost' \subseteq JobIds
  BY DEF Crash, IInv, TypeOK, Present
<1>4. crashes' \in 0 .. MaxCrashes
  BY WeeklyJobsAssumption DEF Crash, IInv, TypeOK
<1>5. TypeOK'
  BY <1>1, <1>2, <1>3, <1>4, BlankRowType, JobTableAssumption
  DEF IInv, TypeOK, JobsTypeOK, IdlePoller, IdlePreopen, NoJob
<1>6. PollerConsistent' /\ PreopenConsistent'
  BY <1>2 DEF PollerConsistent, PreopenConsistent, IdlePoller, IdlePreopen
<1>7. RunningHasRunner'
  BY <1>1, <1>3 DEF RunningHasRunner, Present
<1>8. /\ RowsConsistent' /\ RequestsConsistent' /\ OneActivePerWeek' /\ CancelWins'
      /\ OnlyClaimedJobsDecide' /\ SucceededHasDecision' /\ AnswerOfWeek'
  BY <1>1 DEF IInv, RowsConsistent, RequestsConsistent, OneActivePerWeek, CancelWins,
              OnlyClaimedJobsDecide, SucceededHasDecision, AnswerOfWeek,
              ActiveJobs, OfWeek, Present
<1> QED
  BY <1>5, <1>6, <1>7, <1>8 DEF IInv

-----------------------------------------------------------------------------
(* Steps of requests                                                       *)

\* A request that only looks at the table.
LookedUp(c) ==
    /\ UNCHANGED <<jobs, created>>
    /\ UNCHANGED worker
    /\ \/ request' = [request EXCEPT ![c] = IdleRequest]
       \/ \E r \in [pc: {"active", "insert", "answered"}, of: Requests, answer: 0 .. MaxJobs] :
             /\ request' = [request EXCEPT ![c] = r]
             /\ r.of.type = "weekly_selection"
             /\ r.pc = "answered" /\ r.answer # NoJob =>
                   r.answer \in OfWeek("weekly_selection", r.of.week)

\* A request that only looked at the table keeps the invariant.
LEMMA LookedUpInv == ASSUME IInv, NEW c \in Clients, LookedUp(c) PROVE IInv'
<1> DEFINE R == [pc: {"idle", "active", "insert", "reuse", "answered"}, of: Requests,
                 answer: 0 .. MaxJobs]
<1>1. /\ UNCHANGED <<jobs, created>>
      /\ UNCHANGED <<poller, preopen, decision, ended, lost, crashes>>
  BY DEF LookedUp, worker
<1>2. IdleRequest \in R /\ request \in [Clients -> R]
  BY BlankRowType, JobTableAssumption DEF IdleRequest, NoJob, IInv, TypeOK, JobsTypeOK
<1>3. request' \in [Clients -> R]
  BY <1>2 DEF LookedUp
<1>4. TypeOK'
  BY <1>1, <1>3 DEF IInv, TypeOK, JobsTypeOK
<1>5. \A w \in Weeks : OfWeek("weekly_selection", w)' = OfWeek("weekly_selection", w)
  BY <1>1 DEF OfWeek, Present
<1>6. RequestsConsistent' /\ AnswerOfWeek'
  <2>1. CASE request' = [request EXCEPT ![c] = IdleRequest]
    BY <1>2, <1>5, <2>1 DEF IInv, TypeOK, JobsTypeOK, RequestsConsistent, AnswerOfWeek, IdleRequest,
                       Requests
  <2>2. ASSUME NEW r \in [pc: {"active", "insert", "answered"}, of: Requests, answer: 0 .. MaxJobs],
               request' = [request EXCEPT ![c] = r],
               r.of.type = "weekly_selection",
               r.pc = "answered" /\ r.answer # NoJob =>
                   r.answer \in OfWeek("weekly_selection", r.of.week)
        PROVE  RequestsConsistent' /\ AnswerOfWeek'
    BY <1>2, <1>5, <2>2 DEF IInv, TypeOK, JobsTypeOK, RequestsConsistent, AnswerOfWeek, Requests
  <2> QED
    BY <2>1, <2>2 DEF LookedUp
<1>7. /\ RowsConsistent' /\ PollerConsistent' /\ PreopenConsistent' /\ OneActivePerWeek'
      /\ CancelWins' /\ OnlyClaimedJobsDecide' /\ SucceededHasDecision' /\ RunningHasRunner'
  BY <1>1 DEF IInv, RowsConsistent, PollerConsistent, PickedWeek, PreopenConsistent,
              OneActivePerWeek, CancelWins, OnlyClaimedJobsDecide, SucceededHasDecision,
              RunningHasRunner, ActiveJobs, OfWeek, Present
<1> QED
  BY <1>4, <1>6, <1>7 DEF IInv

\* The look-up by key, or by succeeded job, answers with a job of the asked week.
LEMMA EnqueueLookupInv ==
    ASSUME IInv, NEW c \in Clients, NEW w \in Weeks, NEW k \in Keys,
           EnqueueLookup(c, w, k), UNCHANGED worker
    PROVE  IInv'
<1> DEFINE same == WithKey("weekly_selection", w, k)
           found == IF same # {} THEN same ELSE SucceededJobs("weekly_selection", w)
           asked == [pc |-> "active", of |-> Weekly(w, k), answer |-> NoJob]
           told(j) == [pc |-> "answered", of |-> Weekly(w, k), answer |-> j]
<1>1. /\ Weekly(w, k) \in Requests /\ Weekly(w, k).type = "weekly_selection"
      /\ Weekly(w, k).week = w
  BY DEF Weekly, Requests, Types
<1>2. found \subseteq OfWeek("weekly_selection", w)
  BY DEF WithKey, SucceededJobs
<1>3. UNCHANGED <<jobs, created>>
  BY DEF EnqueueLookup, table
<1>4. CASE request' = [request EXCEPT ![c] = asked]
  <2>1. asked \in [pc: {"active", "insert", "answered"}, of: Requests, answer: 0 .. MaxJobs]
    BY <1>1, JobTableAssumption DEF NoJob
  <2>2. LookedUp(c)
    BY <1>1, <1>3, <1>4, <2>1 DEF LookedUp
  <2> QED
    BY <2>2, LookedUpInv
<1>5. ASSUME NEW j \in found,
             request' = [request EXCEPT ![c] = told(j)]
      PROVE  IInv'
  <2>1. j \in OfWeek("weekly_selection", w) /\ j \in 0 .. MaxJobs
    BY <1>2, JobTableAssumption DEF OfWeek, Present, JobIds
  <2>2. told(j) \in [pc: {"active", "insert", "answered"}, of: Requests, answer: 0 .. MaxJobs]
    BY <1>1, <2>1
  <2>3. LookedUp(c)
    BY <1>1, <1>3, <1>5, <2>1, <2>2 DEF LookedUp
  <2> QED
    BY <2>3, LookedUpInv
<1> QED
  BY <1>4, <1>5 DEF EnqueueLookup

\* So does the look for an active job.
LEMMA EnqueueActiveInv ==
    ASSUME IInv, NEW c \in Clients, EnqueueActive(c), UNCHANGED worker PROVE IInv'
<1> DEFINE of == request[c].of
           active == ActiveJobs(of.type, of.week)
<1>1. /\ request[c] \in [pc: {"active"}, of: Requests, answer: 0 .. MaxJobs]
      /\ of.type = "weekly_selection"
  BY DEF IInv, TypeOK, JobsTypeOK, RequestsConsistent, EnqueueActive
<1>2. UNCHANGED <<jobs, created>>
  BY DEF EnqueueActive, table
<1>3. CASE request' = [request EXCEPT ![c].pc = "insert"]
  <2> DEFINE r == [request[c] EXCEPT !.pc = "insert"]
  <2>1. request' = [request EXCEPT ![c] = r]
    BY <1>3 DEF IInv, TypeOK, JobsTypeOK
  <2>2. /\ r \in [pc: {"active", "insert", "answered"}, of: Requests, answer: 0 .. MaxJobs]
        /\ r.of.type = "weekly_selection" /\ r.pc = "insert"
    BY <1>1
  <2> HIDE DEF r
  <2>3. LookedUp(c)
    BY <1>2, <2>1, <2>2 DEF LookedUp
  <2> QED
    BY <2>3, LookedUpInv
<1>4. ASSUME NEW j \in active, Answer(c, j) PROVE IInv'
  <2> DEFINE r == [request[c] EXCEPT !.pc = "answered", !.answer = j]
  <2>1. j \in OfWeek("weekly_selection", of.week) /\ j \in 0 .. MaxJobs
    BY <1>1, JobTableAssumption DEF ActiveJobs, OfWeek, Present, JobIds
  <2>2. request' = [request EXCEPT ![c] = r]
    BY <1>4 DEF Answer
  <2>3. /\ r \in [pc: {"active", "insert", "answered"}, of: Requests, answer: 0 .. MaxJobs]
        /\ r.of = of /\ r.answer = j
    BY <1>1, <2>1
  <2> HIDE DEF r
  <2>4. LookedUp(c)
    BY <1>1, <1>2, <2>1, <2>2, <2>3 DEF LookedUp
  <2> QED
    BY <2>4, LookedUpInv
<1> QED
  BY <1>3, <1>4 DEF EnqueueActive

\* A request that ends forgets what it asked for.
LEMMA NextRequestInv ==
    ASSUME IInv, NEW c \in Clients, NextRequest(c), UNCHANGED worker PROVE IInv'
<1>1. LookedUp(c)
  BY DEF NextRequest, LookedUp, table
<1> QED
  BY <1>1, LookedUpInv

-----------------------------------------------------------------------------
(* Steps that write the table                                              *)

\* TypeOK without the variables that a write of the table does not touch.
LEMMA TableTyped == ASSUME IInv PROVE TableTypeOK
BY DEF IInv, TypeOK, JobsTypeOK, TableTypeOK

\* What an update of one row in use must respect.
GoodUpdate(j) ==
    /\ TableTypeOK' /\ created' = created /\ OthersKept(j)
    /\ jobs[j].status # "absent"
    /\ jobs'[j].of = jobs[j].of
    /\ jobs[j].started => jobs'[j].started
    /\ jobs'[j].status \in {"running", "succeeded", "failed", "cancelled"}
    /\ jobs'[j].status = "running" => jobs'[j].started /\ jobs[j].status \in ActiveStatuses
    /\ jobs'[j].status = "cancelled" <=> jobs'[j].cancel /\ jobs'[j].status \in TerminalStatuses
    /\ jobs'[j].status = "succeeded" => decision[jobs[j].of.week] # NoJob

\* A good update of one row keeps every part that does not mention the poller.
LEMMA UpdateInv ==
    ASSUME IInv, NEW j \in JobIds, GoodUpdate(j), UNCHANGED <<request, preopen, decision>>
    PROVE  /\ JobsTypeOK' /\ RowsConsistent' /\ RequestsConsistent' /\ PreopenConsistent'
           /\ OneActivePerWeek' /\ CancelWins' /\ OnlyClaimedJobsDecide'
           /\ SucceededHasDecision' /\ AnswerOfWeek'
<1> USE DEF GoodUpdate, OthersKept
<1>1. JobsTypeOK'
  BY DEF IInv, TypeOK, JobsTypeOK, TableTypeOK
<1>2. RowsConsistent'
  BY DEF IInv, RowsConsistent
<1>3. RequestsConsistent' /\ PreopenConsistent'
  BY DEF IInv, RequestsConsistent, PreopenConsistent
<1>4. CancelWins'
  BY DEF IInv, CancelWins, TerminalStatuses
<1>5. OnlyClaimedJobsDecide' /\ SucceededHasDecision'
  BY DEF IInv, OnlyClaimedJobsDecide, SucceededHasDecision
<1>6. \A w \in Weeks : ActiveJobs("weekly_selection", w)' \subseteq ActiveJobs("weekly_selection", w)
  BY DEF ActiveJobs, OfWeek, Present, ActiveStatuses
<1>7. OneActivePerWeek'
  BY <1>6 DEF IInv, OneActivePerWeek
<1>8. \A w \in Weeks : OfWeek("weekly_selection", w)' = OfWeek("weekly_selection", w)
  BY DEF OfWeek, Present
<1>9. AnswerOfWeek'
  BY <1>8 DEF IInv, TypeOK, JobsTypeOK, AnswerOfWeek, Requests
<1> QED
  BY <1>1, <1>2, <1>3, <1>4, <1>5, <1>7, <1>9

\* A cancellation, of a queued or of a running job.
LEMMA RequestCancelInv ==
    ASSUME IInv, NEW j \in JobIds, RequestCancel(j), UNCHANGED worker PROVE IInv'
<1>1. /\ TableTypeOK' /\ created' = created /\ request' = request /\ OthersKept(j)
      /\ jobs[j].status \in ActiveStatuses
      /\ jobs'[j].of = jobs[j].of
      /\ jobs'[j].status = IF jobs[j].status = "queued" THEN "cancelled" ELSE "running"
      /\ jobs'[j].cancel = TRUE /\ jobs'[j].started = jobs[j].started
  BY TableTyped, RequestCancelFacts
<1>2. UNCHANGED <<poller, preopen, decision, ended, lost, crashes>>
  BY DEF worker
<1>3. GoodUpdate(j)
  BY <1>1 DEF GoodUpdate, IInv, RowsConsistent, ActiveStatuses, TerminalStatuses
<1>4. PollerConsistent' /\ RunningHasRunner'
  BY <1>1, <1>2 DEF IInv, PollerConsistent, PickedWeek, RunningHasRunner, OthersKept,
                    ActiveStatuses
<1>5. TypeOK'
  BY <1>1, <1>2, <1>3, UpdateInv DEF IInv, TypeOK
<1> QED
  BY <1>1, <1>2, <1>3, <1>4, <1>5, UpdateInv DEF IInv

\* The type of the variables the poller changes only by becoming idle.
LEMMA IdleAgain ==
    ASSUME IInv, poller' = IdlePoller, UNCHANGED <<preopen, decision, ended, lost, crashes>>,
           JobsTypeOK'
    PROVE  TypeOK' /\ PollerConsistent'
BY JobTableAssumption DEF IInv, TypeOK, PollerConsistent, IdlePoller, NoJob

\* A failed preparation closes a job nobody has claimed.
LEMMA PrepareFailsInv == ASSUME IInv, PrepareFails PROVE IInv'
<1> DEFINE j == poller.job
<1>1. /\ j \in JobIds /\ jobs[j].status \in {"queued", "cancelled"}
      /\ poller.pc = "prepare" /\ poller' = IdlePoller /\ Finish(j, "failed")
  BY DEF PrepareFails, IInv, PollerConsistent
<1>2. UNCHANGED <<request, preopen, decision, ended, lost, crashes>>
  BY DEF PrepareFails, environment
<1>3. /\ TableTypeOK' /\ created' = created /\ OthersKept(j)
      /\ jobs'[j].of = jobs[j].of
      /\ jobs'[j].status = IF jobs[j].cancel THEN "cancelled" ELSE "failed"
      /\ jobs'[j].cancel = jobs[j].cancel /\ jobs'[j].started = jobs[j].started
  BY <1>1, TableTyped, FinishFacts
<1>4. GoodUpdate(j)
  BY <1>1, <1>3 DEF GoodUpdate, TerminalStatuses
<1>5. TypeOK' /\ PollerConsistent'
  BY <1>1, <1>2, <1>4, UpdateInv, IdleAgain
<1>6. RunningHasRunner'
  BY <1>1, <1>2, <1>3 DEF IInv, RunningHasRunner, OthersKept
<1> QED
  BY <1>1, <1>2, <1>4, <1>5, <1>6, UpdateInv DEF IInv

\* The claim takes the picked row if it is still queued.
LEMMA ClaimPickedInv == ASSUME IInv, ClaimPicked PROVE IInv'
<1> DEFINE j == poller.job
<1>1. /\ j \in JobIds /\ poller.pc = "claim" /\ jobs[j].status \in {"queued", "cancelled"}
  BY DEF ClaimPicked, IInv, PollerConsistent
<1>2. UNCHANGED <<request, preopen, decision, ended, lost, crashes>>
  BY DEF ClaimPicked, environment
<1>3. CASE Claim(j) /\ poller' = [poller EXCEPT !.pc = "read"]
  <2>1. /\ TableTypeOK' /\ created' = created /\ OthersKept(j)
        /\ jobs[j].status = "queued"
        /\ jobs'[j].of = jobs[j].of /\ jobs'[j].status = "running"
        /\ jobs'[j].cancel = jobs[j].cancel /\ jobs'[j].started = TRUE
    BY <1>1, <1>3, TableTyped, ClaimFacts
  <2>2. GoodUpdate(j)
    BY <1>1, <2>1 DEF GoodUpdate, TerminalStatuses, ActiveStatuses
  <2>3. TypeOK'
    BY <1>1, <1>2, <1>3, <2>2, UpdateInv DEF IInv, TypeOK
  <2>4. PollerConsistent' /\ RunningHasRunner'
    BY <1>1, <1>2, <1>3, <2>1
    DEF IInv, TypeOK, PollerConsistent, PickedWeek, RunningHasRunner, OthersKept
  <2> QED
    BY <1>1, <1>2, <2>2, <2>3, <2>4, UpdateInv DEF IInv
<1>4. CASE poller' = IdlePoller /\ UNCHANGED table
  <2>1. UNCHANGED <<jobs, created, request, preopen, decision, ended, lost, crashes>>
    BY <1>2, <1>4 DEF table
  <2>2. JobsTypeOK'
    BY <2>1 DEF IInv, TypeOK, JobsTypeOK
  <2>3. TypeOK' /\ PollerConsistent'
    BY <1>4, <2>1, <2>2, IdleAgain
  <2>4. RunningHasRunner'
    BY <1>1, <1>4, <2>1 DEF IInv, RunningHasRunner
  <2>5. /\ RowsConsistent' /\ RequestsConsistent' /\ PreopenConsistent' /\ OneActivePerWeek'
        /\ CancelWins' /\ OnlyClaimedJobsDecide' /\ SucceededHasDecision' /\ AnswerOfWeek'
    BY <2>1 DEF IInv, RowsConsistent, RequestsConsistent, PreopenConsistent, OneActivePerWeek,
                CancelWins, OnlyClaimedJobsDecide, SucceededHasDecision, AnswerOfWeek,
                ActiveJobs, OfWeek, Present
  <2> QED
    BY <2>3, <2>4, <2>5 DEF IInv
<1> QED
  BY <1>3, <1>4 DEF ClaimPicked

\* The closing transaction writes the outcome, or the cancellation, over the row.
LEMMA FinishPickedInv == ASSUME IInv, FinishPicked PROVE IInv'
<1> DEFINE j == poller.job
<1>1. /\ j \in JobIds /\ jobs[j].status = "running"
      /\ poller.pc = "finish" /\ poller' = IdlePoller /\ Finish(j, poller.result)
      /\ poller.result \in {"succeeded", "failed"}
      /\ poller.result = "succeeded" => decision[jobs[j].of.week] # NoJob
  BY DEF FinishPicked, IInv, TypeOK, PollerConsistent, PickedWeek
<1>2. UNCHANGED <<request, preopen, decision, ended, lost, crashes>>
  BY DEF FinishPicked, environment
<1>3. /\ TableTypeOK' /\ created' = created /\ OthersKept(j)
      /\ jobs'[j].of = jobs[j].of
      /\ jobs'[j].status = IF jobs[j].cancel THEN "cancelled" ELSE poller.result
      /\ jobs'[j].cancel = jobs[j].cancel /\ jobs'[j].started = jobs[j].started
  BY <1>1, TableTyped, FinishFacts
<1>4. GoodUpdate(j)
  BY <1>1, <1>3 DEF GoodUpdate, TerminalStatuses
<1>5. TypeOK' /\ PollerConsistent'
  BY <1>1, <1>2, <1>4, UpdateInv, IdleAgain
<1>6. RunningHasRunner'
  BY <1>1, <1>2, <1>3 DEF IInv, RunningHasRunner, OthersKept
<1> QED
  BY <1>1, <1>2, <1>4, <1>5, <1>6, UpdateInv DEF IInv

\* An insert that respects the constraints, and the decision it may come with.
LEMMA InsertInv ==
    ASSUME IInv, NEW of \in Requests, NEW status \in {"queued", "succeeded", "failed"},
           of.type = "weekly_selection",
           Insertable(of, status), Insert(of, status),
           decision' \in [Weeks -> Creators],
           \A w \in Weeks : decision[w] # NoJob => decision'[w] = decision[w],
           \A w \in Weeks : decision'[w] # decision[w] => decision'[w] = Preopen,
           status = "succeeded" => decision'[of.week] # NoJob
    PROVE  /\ TableTypeOK' /\ OthersKept(created + 1)
           /\ created + 1 \in JobIds /\ jobs[created + 1].status = "absent"
           /\ jobs'[created + 1].of = of /\ jobs'[created + 1].status = status
           /\ RowsConsistent' /\ OneActivePerWeek' /\ CancelWins' /\ OnlyClaimedJobsDecide'
           /\ SucceededHasDecision'
           /\ \A w \in Weeks : OfWeek("weekly_selection", w) \subseteq OfWeek("weekly_selection", w)'
           /\ PollerConsistent /\ UNCHANGED poller => PollerConsistent'
           /\ UNCHANGED <<poller, lost>> => RunningHasRunner'
<1> DEFINE n == created + 1
<1>1. /\ TableTypeOK' /\ OthersKept(n) /\ n \in JobIds /\ jobs[n].status = "absent"
      /\ jobs'[n] = [of |-> of, status |-> status, cancel |-> FALSE,
                     started |-> status # "queued"]
  BY TableTyped, InsertFacts DEF Statuses, ActiveStatuses, TerminalStatuses
<1>2. /\ jobs'[n].of = of /\ jobs'[n].status = status /\ jobs'[n].cancel = FALSE
      /\ jobs'[n].started = (status # "queued")
  BY <1>1
<1> HIDE DEF n
<1> USE DEF OthersKept
<1>3. RowsConsistent'
  BY <1>1, <1>2 DEF IInv, RowsConsistent
<1>4. CancelWins'
  BY <1>1, <1>2 DEF IInv, CancelWins, TerminalStatuses
<1>5. OneActivePerWeek'
  <2>1. SUFFICES ASSUME NEW w \in Weeks,
                        NEW i \in ActiveJobs("weekly_selection", w)',
                        NEW j \in ActiveJobs("weekly_selection", w)'
                 PROVE  i = j
    BY DEF OneActivePerWeek
  <2>2. \A k \in ActiveJobs("weekly_selection", w)' \ {n} : k \in ActiveJobs("weekly_selection", w)
    BY <1>1, <1>2 DEF ActiveJobs, OfWeek, Present
  <2>3. n \in ActiveJobs("weekly_selection", w)' => ActiveJobs("weekly_selection", w) = {}
    BY <1>1, <1>2 DEF ActiveJobs, OfWeek, Present, Insertable
  <2> QED
    BY <2>2, <2>3 DEF IInv, OneActivePerWeek
<1>6. OnlyClaimedJobsDecide'
  <2>1. SUFFICES ASSUME NEW w \in Weeks, decision'[w] \in JobIds
                 PROVE  jobs'[decision'[w]].started /\ jobs'[decision'[w]].of.week = w
    BY DEF OnlyClaimedJobsDecide
  <2>2. decision'[w] = decision[w]
    BY <2>1, JobTableAssumption DEF Preopen, JobIds
  <2>3. jobs[decision[w]].started /\ jobs[decision[w]].of.week = w
    BY <2>1, <2>2 DEF IInv, OnlyClaimedJobsDecide
  <2>4. decision[w] # n
    BY <1>1, <2>3 DEF IInv, RowsConsistent
  <2> QED
    BY <1>1, <2>1, <2>2, <2>3, <2>4
<1>7. SucceededHasDecision'
  <2>1. SUFFICES ASSUME NEW j \in JobIds, jobs'[j].status = "succeeded"
                 PROVE  decision'[jobs'[j].of.week] # NoJob
    BY DEF SucceededHasDecision
  <2>2. CASE j = n
    BY <1>2, <2>1, <2>2
  <2>3. CASE j # n
    <3>1. jobs'[j] = jobs[j]
      BY <1>1, <2>3
    <3>2. decision[jobs[j].of.week] # NoJob /\ jobs[j].of.week \in Weeks
      BY <2>1, <3>1 DEF IInv, TypeOK, JobsTypeOK, Rows, Requests, SucceededHasDecision
    <3> QED
      BY <3>1, <3>2
  <2> QED
    BY <2>2, <2>3
<1>8. \A w \in Weeks : OfWeek("weekly_selection", w) \subseteq OfWeek("weekly_selection", w)'
  BY <1>1 DEF OfWeek, Present
<1>9. UNCHANGED poller => PollerConsistent'
  <2>1. SUFFICES ASSUME UNCHANGED poller PROVE PollerConsistent'
    OBVIOUS
  <2>2. poller.pc # "idle" => poller.job \in JobIds /\ poller.job # n
    BY <1>1 DEF IInv, TypeOK, PollerConsistent
  <2>3. poller.pc # "idle" => jobs'[poller.job] = jobs[poller.job]
    BY <1>1, <2>2
  <2>4. poller.pc # "idle" /\ decision[PickedWeek] # NoJob => decision'[PickedWeek] # NoJob
    BY <2>2 DEF IInv, TypeOK, JobsTypeOK, Rows, Requests, PickedWeek
  <2> QED
    BY <2>1, <2>2, <2>3, <2>4 DEF IInv, PollerConsistent, PickedWeek
<1>10. UNCHANGED <<poller, lost>> => RunningHasRunner'
  BY <1>1, <1>2 DEF IInv, RunningHasRunner
<1> QED
  BY <1>1, <1>2, <1>3, <1>4, <1>5, <1>6, <1>7, <1>8, <1>9, <1>10 DEF n

\* An insert respects the active-job index, or answers with the newest active job.
LEMMA EnqueueInsertInv ==
    ASSUME IInv, NEW c \in Clients, EnqueueInsert(c), UNCHANGED worker PROVE IInv'
<1> DEFINE of == request[c].of
           active == ActiveJobs(of.type, of.week)
           R == [pc: {"idle", "active", "insert", "reuse", "answered"}, of: Requests,
                 answer: 0 .. MaxJobs]
<1>1. /\ request[c].pc = "insert" /\ of \in Requests /\ of.type = "weekly_selection"
      /\ of.week \in Weeks /\ request \in [Clients -> R]
  BY DEF IInv, TypeOK, JobsTypeOK, RequestsConsistent, EnqueueInsert, Requests
<1>2. UNCHANGED <<poller, preopen, decision, ended, lost, crashes>>
  BY DEF worker
<1>3. CASE Insertable(of, "queued") /\ Insert(of, "queued") /\ Answer(c, created + 1)
  <2> DEFINE r == [request[c] EXCEPT !.pc = "answered", !.answer = created + 1]
  <2>1. /\ TableTypeOK' /\ OthersKept(created + 1)
        /\ created + 1 \in JobIds /\ jobs[created + 1].status = "absent"
        /\ jobs'[created + 1].of = of /\ jobs'[created + 1].status = "queued"
        /\ RowsConsistent' /\ OneActivePerWeek' /\ CancelWins' /\ OnlyClaimedJobsDecide'
        /\ SucceededHasDecision' /\ PollerConsistent' /\ RunningHasRunner'
        /\ \A w \in Weeks : OfWeek("weekly_selection", w) \subseteq OfWeek("weekly_selection", w)'
    BY <1>1, <1>2, <1>3, InsertInv DEF IInv, TypeOK
  <2>2. request' = [request EXCEPT ![c] = r]
    BY <1>3 DEF Answer
  <2>3. r \in R /\ r.of = of /\ r.pc = "answered" /\ r.answer = created + 1
    <3>1. created + 1 \in 0 .. MaxJobs /\ request[c] \in R
      BY <1>1, <2>1, JobTableAssumption DEF JobIds
    <3> QED
      BY <3>1
  <2> HIDE DEF r
  <2>4. request' \in [Clients -> R]
    BY <1>1, <2>2, <2>3
  <2>5. TypeOK'
    BY <1>2, <2>1, <2>4 DEF IInv, TypeOK, JobsTypeOK, TableTypeOK
  <2>6. RequestsConsistent' /\ PreopenConsistent'
    BY <1>1, <1>2, <2>2, <2>3 DEF IInv, RequestsConsistent, PreopenConsistent
  <2>7. \A w \in Weeks : w = of.week => created + 1 \in OfWeek("weekly_selection", w)'
    BY <1>1, <2>1 DEF OfWeek, Present
  <2>8. AnswerOfWeek'
    BY <1>1, <2>1, <2>2, <2>3, <2>7 DEF IInv, AnswerOfWeek, Requests
  <2> QED
    BY <2>1, <2>5, <2>6, <2>8 DEF IInv
<1>4. ASSUME NEW j \in active \cup {NoJob}, Answer(c, j), UNCHANGED table PROVE IInv'
  <2> DEFINE r == [request[c] EXCEPT !.pc = "answered", !.answer = j]
  <2>1. j # NoJob => j \in OfWeek("weekly_selection", of.week)
    BY <1>1 DEF ActiveJobs
  <2>2. j \in 0 .. MaxJobs
    BY JobTableAssumption DEF ActiveJobs, OfWeek, Present, JobIds, NoJob
  <2>3. request' = [request EXCEPT ![c] = r]
    BY <1>4 DEF Answer
  <2>4. /\ r \in [pc: {"active", "insert", "answered"}, of: Requests, answer: 0 .. MaxJobs]
        /\ r.of = of /\ r.answer = j
    BY <1>1, <2>2
  <2> HIDE DEF r
  <2>5. LookedUp(c)
    BY <1>1, <1>4, <2>1, <2>3, <2>4 DEF LookedUp, table
  <2> QED
    BY <2>5, LookedUpInv
<1> QED
  BY <1>1, <1>3, <1>4 DEF EnqueueInsert

\* The pre-open task's commit inserts a finished row, with a decision if it succeeded.
LEMMA PreopenCommitInv == ASSUME IInv, PreopenCommit PROVE IInv'
<1> DEFINE of == preopen.of
<1>1. /\ of \in Requests /\ of.type = "weekly_selection" /\ of.week \in Weeks
      /\ preopen.saw => decision[of.week] # NoJob
      /\ preopen' = IdlePreopen
      /\ UNCHANGED <<request, poller, ended, lost, crashes>>
  BY DEF PreopenCommit, IInv, TypeOK, PreopenConsistent, Requests
<1>2. ASSUME NEW status \in {"succeeded", "failed"}, Insertable(of, status), Insert(of, status),
             decision' \in [Weeks -> Creators],
             \A w \in Weeks : decision[w] # NoJob => decision'[w] = decision[w],
             \A w \in Weeks : decision'[w] # decision[w] => decision'[w] = Preopen,
             status = "succeeded" => decision'[of.week] # NoJob
      PROVE  IInv'
  <2>1. /\ TableTypeOK'
        /\ RowsConsistent' /\ OneActivePerWeek' /\ CancelWins' /\ OnlyClaimedJobsDecide'
        /\ SucceededHasDecision' /\ PollerConsistent' /\ RunningHasRunner'
        /\ \A w \in Weeks : OfWeek("weekly_selection", w) \subseteq OfWeek("weekly_selection", w)'
    BY <1>1, <1>2, InsertInv DEF IInv
  <2>2. TypeOK'
    BY <1>1, <1>2, <2>1, BlankRowType
    DEF IInv, TypeOK, JobsTypeOK, TableTypeOK, IdlePreopen
  <2>3. RequestsConsistent' /\ PreopenConsistent'
    BY <1>1 DEF IInv, RequestsConsistent, PreopenConsistent, IdlePreopen
  <2>4. AnswerOfWeek'
    BY <1>1, <2>1 DEF IInv, TypeOK, JobsTypeOK, AnswerOfWeek, Requests
  <2> QED
    BY <2>1, <2>2, <2>3, <2>4 DEF IInv
<1>3. CASE Insertable(of, "failed") /\ Insert(of, "failed") /\ UNCHANGED decision
  BY <1>2, <1>3 DEF IInv, TypeOK
<1>4. CASE /\ Insertable(of, "succeeded") /\ Insert(of, "succeeded")
           /\ preopen.saw \/ decision[of.week] = NoJob
           /\ decision' = [decision EXCEPT ![of.week] = IF preopen.saw THEN @ ELSE Preopen]
  <2>1. Preopen \in Creators /\ Preopen # NoJob
    BY JobTableAssumption DEF Preopen, Creators, NoJob
  <2>2. /\ decision' \in [Weeks -> Creators]
        /\ \A w \in Weeks : decision[w] # NoJob => decision'[w] = decision[w]
        /\ \A w \in Weeks : decision'[w] # decision[w] => decision'[w] = Preopen
        /\ decision'[of.week] # NoJob
    BY <1>1, <1>4, <2>1 DEF IInv, TypeOK
  <2> QED
    BY <1>2, <1>4, <2>2
<1>5. CASE UNCHANGED <<table, decision>>
  <2>1. UNCHANGED <<jobs, created, request, poller, decision, ended, lost, crashes>>
    BY <1>1, <1>5 DEF table
  <2> QED
    BY <1>1, <2>1, BlankRowType
    DEF IInv, TypeOK, JobsTypeOK, RowsConsistent, RequestsConsistent, PollerConsistent,
        PickedWeek, PreopenConsistent, OneActivePerWeek, CancelWins, OnlyClaimedJobsDecide,
        SucceededHasDecision, RunningHasRunner, AnswerOfWeek, ActiveJobs, OfWeek, Present,
        IdlePreopen
<1> QED
  BY <1>3, <1>4, <1>5 DEF PreopenCommit

-----------------------------------------------------------------------------
(* The invariant, and what it says                                         *)

\* Every step preserves the invariant.
LEMMA NextInv == IInv /\ [Next]_vars => IInv'
<1> SUFFICES ASSUME IInv, [Next]_vars PROVE IInv'
  OBVIOUS
<1>1. CASE Api
  <2>1. AutoKeys \subseteq Keys
    BY WeeklyJobsAssumption
  <2> QED
    BY <1>1, <2>1, EnqueueLookupInv, EnqueueActiveInv, EnqueueInsertInv, NextRequestInv,
       RequestCancelInv DEF Api
<1>2. CASE Poller
  BY <1>2, PollerReads, PrepareFailsInv, ClaimPickedInv, WorkCommitInv, FinishPickedInv
  DEF Poller
<1>3. CASE \E w \in Weeks, k \in AutoKeys : PreopenRead(w, k)
  BY <1>3, PreopenReadInv
<1>4. CASE PreopenCommit
  BY <1>4, PreopenCommitInv
<1>5. CASE \E w \in Weeks : WeekEnds(w)
  BY <1>5, WeekEndsInv
<1>6. CASE Crash
  BY <1>6, CrashInv
<1>7. CASE UNCHANGED vars
  BY <1>7 DEF vars, IInv, TypeOK, JobsTypeOK, RowsConsistent, RequestsConsistent,
              PollerConsistent, PickedWeek, PreopenConsistent, OneActivePerWeek, CancelWins,
              OnlyClaimedJobsDecide, SucceededHasDecision, RunningHasRunner, AnswerOfWeek,
              ActiveJobs, OfWeek, Present
<1> QED
  BY <1>1, <1>2, <1>3, <1>4, <1>5, <1>6, <1>7 DEF Next

\* The inductive invariant holds in every reachable state of the weekly queue.
THEOREM Invariance == Spec => []IInv
<1> QED
  BY InitInv, NextInv, PTL DEF Spec

\* The types of all variables, in every reachable state.
THEOREM TypeCorrect == Spec => []TypeOK
<1>1. IInv => TypeOK
  BY DEF IInv
<1> QED
  BY <1>1, Invariance, PTL

\* However requests, poller, pre-open task, cancellations and crashes interleave,
\* a week has at most one queued or running weekly selection.
THEOREM ExclusiveQueue == Spec => []OneActivePerWeek
<1>1. IInv => OneActivePerWeek
  BY DEF IInv
<1> QED
  BY <1>1, Invariance, PTL

\* No runner overrules a cancellation, and nothing is cancelled unasked.
THEOREM CancellationWins == Spec => []CancelWins
<1>1. IInv => CancelWins
  BY DEF IInv
<1> QED
  BY <1>1, Invariance, PTL

\* A decision made by a job was made by a claimed job of its week.
THEOREM Attribution == Spec => []OnlyClaimedJobsDecide
<1>1. IInv => OnlyClaimedJobsDecide
  BY DEF IInv
<1> QED
  BY <1>1, Invariance, PTL

\* Success is never reported without an active rule decision of the week.
THEOREM SuccessIsReal == Spec => []SucceededHasDecision
<1>1. IInv => SucceededHasDecision
  BY DEF IInv
<1> QED
  BY <1>1, Invariance, PTL

\* A running job that no crash orphaned is the poller's.
THEOREM NoStrayRunner == Spec => []RunningHasRunner
<1>1. IInv => RunningHasRunner
  BY DEF IInv
<1> QED
  BY <1>1, Invariance, PTL

\* Callers are told about jobs of their own week.
THEOREM AnswersFit == Spec => []AnswerOfWeek
<1>1. IInv => AnswerOfWeek
  BY DEF IInv
<1> QED
  BY <1>1, Invariance, PTL

\* The decision of a week is written once.
THEOREM DecisionStability == Spec => DecisionIsFinal
<1>1. IInv /\ [Next]_vars => [\A w \in Weeks : decision[w] # NoJob => decision'[w] = decision[w]]_vars
  <2> SUFFICES ASSUME IInv, Next, NEW w \in Weeks, decision[w] # NoJob
               PROVE  decision'[w] = decision[w]
    OBVIOUS
  <2>1. CASE WorkCommit
    BY <2>1 DEF WorkCommit, IInv, TypeOK
  <2>2. CASE PreopenCommit
    BY <2>2 DEF PreopenCommit, IInv, TypeOK
  <2>3. CASE UNCHANGED decision
    BY <2>3
  <2>4. UNCHANGED decision \/ WorkCommit \/ PreopenCommit
    BY DEF Next, Api, Poller, Pick, PrepareOk, PrepareFails, ClaimPicked, WorkRead, FinishPicked,
           PreopenRead, WeekEnds, Crash, worker, environment
  <2> QED
    BY <2>1, <2>2, <2>3, <2>4
<1> QED
  BY <1>1, Invariance, PTL DEF Spec, DecisionIsFinal

-----------------------------------------------------------------------------
(* The queue implements the life cycle of its jobs                         *)

status == [j \in JobIds |-> jobs[j].status]
cancel == [j \in JobIds |-> jobs[j].cancel]

\* A write of one row is a write of one entry of the abstract state.
LEMMA AbstractWrite ==
    ASSUME NEW j \in JobIds, OthersKept(j)
    PROVE  /\ status' = [status EXCEPT ![j] = jobs'[j].status]
           /\ cancel' = [cancel EXCEPT ![j] = jobs'[j].cancel]
           /\ status[j] = jobs[j].status /\ cancel[j] = jobs[j].cancel
BY DEF status, cancel, OthersKept

\* An empty table is an empty set of jobs.
LEMMA InitRefines == Init => Lifecycle!Init
BY BlankRowType DEF Init, JobsInit, Lifecycle!Init

\* Every step is a step of one job's life, or none.
LEMMA StepRefines == IInv /\ [Next]_vars => [Lifecycle!Next]_(Lifecycle!lifecycleVars)
<1> SUFFICES ASSUME IInv, [Next]_vars
             PROVE  Lifecycle!Next \/ UNCHANGED Lifecycle!lifecycleVars
  OBVIOUS
<1>1. ASSUME UNCHANGED jobs PROVE UNCHANGED Lifecycle!lifecycleVars
  BY <1>1 DEF Lifecycle!lifecycleVars
<1>2. ASSUME NEW of \in Requests, NEW s \in {"queued", "succeeded", "failed"}, Insert(of, s)
      PROVE  Lifecycle!Next
  <2>1. /\ OthersKept(created + 1) /\ created + 1 \in JobIds
        /\ jobs[created + 1].status = "absent"
        /\ jobs'[created + 1] = [of |-> of, status |-> s, cancel |-> FALSE,
                                 started |-> s # "queued"]
    BY <1>2, TableTyped, InsertFacts DEF Statuses, ActiveStatuses, TerminalStatuses
  <2>2. PICK n \in JobIds : /\ OthersKept(n) /\ jobs[n].status = "absent"
                            /\ jobs'[n].status = s /\ jobs'[n].cancel = FALSE
    BY <2>1
  <2>3. jobs[n].cancel = FALSE
    BY <2>2 DEF IInv, TypeOK, JobsTypeOK, Rows, RowsConsistent
  <2>4. /\ status' = [status EXCEPT ![n] = s] /\ cancel' = cancel
        /\ status[n] = "absent"
    <3>1. \A i \in JobIds : jobs'[i].cancel = jobs[i].cancel
      BY <2>2, <2>3 DEF OthersKept
    <3> QED
      BY <2>2, <3>1, AbstractWrite DEF cancel
  <2>5. Lifecycle!Enqueue(n) \/ Lifecycle!Record(n)
    BY <2>4 DEF Lifecycle!Enqueue, Lifecycle!Record, Lifecycle!Become, Lifecycle!Outcomes,
                status, cancel
  <2> QED
    BY <2>5 DEF Lifecycle!Next
<1>3. ASSUME NEW j \in JobIds, RequestCancel(j) PROVE Lifecycle!Next
  <2>1. /\ OthersKept(j) /\ jobs[j].status \in ActiveStatuses /\ jobs[j].cancel = FALSE
        /\ jobs'[j].status = IF jobs[j].status = "queued" THEN "cancelled" ELSE "running"
        /\ jobs'[j].cancel = TRUE
    BY <1>3, TableTyped, RequestCancelFacts
  <2>2. /\ status' = [status EXCEPT ![j] =
                        IF status[j] = "queued" THEN "cancelled" ELSE "running"]
        /\ cancel' = [cancel EXCEPT ![j] = TRUE]
        /\ status[j] \in ActiveStatuses /\ ~ cancel[j]
    BY <2>1, AbstractWrite
  <2>3. Lifecycle!RequestCancel(j)
    BY <2>2 DEF Lifecycle!RequestCancel, Lifecycle!Become, ActiveStatuses, status, cancel
  <2> QED
    BY <2>3 DEF Lifecycle!Next
<1>4. ASSUME NEW j \in JobIds, Claim(j) PROVE Lifecycle!Next
  <2>1. /\ OthersKept(j) /\ jobs[j].status = "queued" /\ jobs'[j].status = "running"
        /\ jobs'[j].cancel = jobs[j].cancel
    BY <1>4, TableTyped, ClaimFacts
  <2>2. /\ status' = [status EXCEPT ![j] = "running"] /\ cancel' = cancel
        /\ status[j] = "queued"
    BY <2>1, AbstractWrite DEF cancel
  <2>3. Lifecycle!Start(j)
    BY <2>2 DEF Lifecycle!Start, Lifecycle!Become, status, cancel
  <2> QED
    BY <2>3 DEF Lifecycle!Next
<1>5. ASSUME NEW j \in JobIds, NEW outcome \in {"succeeded", "failed"}, Finish(j, outcome),
             jobs[j].status \in {"queued", "running", "cancelled"}
      PROVE  Lifecycle!Next \/ UNCHANGED Lifecycle!lifecycleVars
  <2>1. /\ OthersKept(j) /\ jobs'[j].cancel = jobs[j].cancel
        /\ jobs'[j].status = IF jobs[j].cancel THEN "cancelled" ELSE outcome
    BY <1>5, TableTyped, FinishFacts
  <2>2. /\ status' = [status EXCEPT ![j] = IF cancel[j] THEN "cancelled" ELSE outcome]
        /\ cancel' = cancel /\ status[j] = jobs[j].status /\ cancel[j] = jobs[j].cancel
    BY <2>1, AbstractWrite DEF cancel
  <2>3. CASE jobs[j].status = "cancelled"
    <3>1. cancel[j]
      BY <2>2, <2>3 DEF IInv, CancelWins
    <3>2. status' = status
      BY <2>2, <2>3, <3>1 DEF status
    <3> QED
      BY <2>2, <3>2 DEF Lifecycle!lifecycleVars, status, cancel
  <2>4. CASE jobs[j].status # "cancelled"
    <3>1. Lifecycle!Conclude(j)
      BY <1>5, <2>2, <2>4 DEF Lifecycle!Conclude, Lifecycle!Become, Lifecycle!Outcomes,
                              status, cancel
    <3> QED
      BY <3>1 DEF Lifecycle!Next
  <2> QED
    BY <2>3, <2>4
<1>6. CASE Api
  <2>1. ASSUME NEW c \in Clients, EnqueueInsert(c)
        PROVE  Lifecycle!Next \/ UNCHANGED Lifecycle!lifecycleVars
    <3>1. request[c].of \in Requests /\ request[c].pc = "insert"
      BY <2>1 DEF EnqueueInsert, IInv, TypeOK, JobsTypeOK, RequestsConsistent
    <3>2. Insert(request[c].of, "queued") \/ UNCHANGED jobs
      BY <2>1, <3>1 DEF EnqueueInsert, table
    <3> QED
      BY <1>1, <1>2, <3>1, <3>2
  <2>2. ASSUME NEW c \in Clients, EnqueueActive(c) \/ NextRequest(c)
                 \/ \E w \in Weeks, k \in Keys : EnqueueLookup(c, w, k)
        PROVE  UNCHANGED jobs
    BY <2>2 DEF EnqueueActive, NextRequest, EnqueueLookup, table
  <2> QED
    BY <1>1, <1>3, <1>6, <2>1, <2>2 DEF Api
<1>7. CASE PrepareFails \/ FinishPicked
  <2>1. /\ poller.job \in JobIds
        /\ jobs[poller.job].status \in {"queued", "running", "cancelled"}
        /\ \E outcome \in {"succeeded", "failed"} : Finish(poller.job, outcome)
    BY <1>7 DEF PrepareFails, FinishPicked, IInv, TypeOK, PollerConsistent
  <2> QED
    BY <1>5, <2>1
<1>8. CASE ClaimPicked
  <2>1. poller.job \in JobIds
    BY <1>8 DEF ClaimPicked, IInv, PollerConsistent
  <2>2. Claim(poller.job) \/ UNCHANGED jobs
    BY <1>8 DEF ClaimPicked, table
  <2> QED
    BY <1>1, <1>4, <2>1, <2>2
<1>9. CASE PreopenCommit
  <2>1. preopen.of \in Requests
    BY DEF IInv, TypeOK
  <2>2. Insert(preopen.of, "failed") \/ Insert(preopen.of, "succeeded") \/ UNCHANGED jobs
    BY <1>9 DEF PreopenCommit, table
  <2> QED
    BY <1>1, <1>2, <2>1, <2>2
<1>10. CASE \/ Pick \/ PrepareOk \/ WorkRead \/ WorkCommit
            \/ \E w \in Weeks, k \in AutoKeys : PreopenRead(w, k)
            \/ \E w \in Weeks : WeekEnds(w)
            \/ Crash \/ UNCHANGED vars
  BY <1>1, <1>10 DEF Pick, PrepareOk, WorkRead, WorkCommit, PreopenRead, WeekEnds, Crash,
                     table, vars
<1> QED
  BY <1>6, <1>7, <1>8, <1>9, <1>10 DEF Next, Poller

\* Every behaviour of the queue is one of independent, cancellable jobs, each of
\* which is concluded at most once.
THEOREM Refinement == Spec => LifecycleSpec
<1> QED
  BY InitRefines, StepRefines, Invariance, PTL DEF Spec, LifecycleSpec, Lifecycle!Spec

\* The abstract life cycle never leaves a terminal status, so neither does the queue.
THEOREM OutcomeStability == Spec => TerminalIsFinal
<1> DEFINE Kept == \A j \in JobIds : jobs[j].status \in TerminalStatuses =>
                      /\ jobs'[j].status = jobs[j].status
                      /\ jobs'[j].cancel = jobs[j].cancel
<1>1. IInv /\ [Next]_vars => [Kept]_vars
  <2> SUFFICES ASSUME IInv, [Next]_vars, NEW j \in JobIds,
                      jobs[j].status \in TerminalStatuses
               PROVE  jobs'[j].status = jobs[j].status /\ jobs'[j].cancel = jobs[j].cancel
    OBVIOUS
  <2>1. /\ status[j] = jobs[j].status /\ status'[j] = jobs'[j].status
        /\ cancel[j] = jobs[j].cancel /\ cancel'[j] = jobs'[j].cancel
    BY DEF status, cancel
  <2>2. CASE UNCHANGED Lifecycle!lifecycleVars
    BY <2>1, <2>2 DEF Lifecycle!lifecycleVars, status, cancel
  <2>3. ASSUME NEW i \in JobIds,
               Lifecycle!Enqueue(i) \/ Lifecycle!Record(i) \/ Lifecycle!Start(i)
                 \/ Lifecycle!RequestCancel(i) \/ Lifecycle!Conclude(i)
        PROVE  status'[j] = status[j] /\ cancel'[j] = cancel[j]
    <3>1. i # j
      BY <2>1, <2>3 DEF Lifecycle!Enqueue, Lifecycle!Record, Lifecycle!Start,
                        Lifecycle!RequestCancel, Lifecycle!Conclude, TerminalStatuses,
                        status
    <3>2. \/ \E s : status' = [status EXCEPT ![i] = s]
      BY <2>3 DEF Lifecycle!Enqueue, Lifecycle!Record, Lifecycle!Start,
                  Lifecycle!RequestCancel, Lifecycle!Conclude, Lifecycle!Become, status
    <3>3. cancel' = cancel \/ \E b : cancel' = [cancel EXCEPT ![i] = b]
      BY <2>3 DEF Lifecycle!Enqueue, Lifecycle!Record, Lifecycle!Start,
                  Lifecycle!RequestCancel, Lifecycle!Conclude, cancel
    <3> QED
      BY <3>1, <3>2, <3>3 DEF status, cancel
  <2> QED
    BY <2>1, <2>2, <2>3, StepRefines DEF Lifecycle!Next
<1> HIDE DEF Kept
<1>2. IInv /\ [Next]_vars => [Kept]_vars
  BY <1>1
<1>3. Spec => [][Kept]_vars
  BY <1>2, Invariance, PTL DEF Spec
<1> QED
  BY <1>3 DEF TerminalIsFinal, Kept
=============================================================================
