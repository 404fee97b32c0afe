------------------------- MODULE Experiments_proofs -------------------------
(***************************************************************************)
(* Proofs about Experiments: types, the run in progress that an            *)
(* experiment's status stands for, the evidence behind an approval and an  *)
(* activation, and what an approval speaks of.  They hold for any number   *)
(* of experiments and administrators and any history of runs.              *)
(***************************************************************************)
EXTENDS Experiments, TLAPS

\* Statuses behind a replay, and behind a shadow run as well, that succeeded.
AfterShadow == {"awaiting_approval", "approved", "activated", "rolled_back"}
AfterReplay == {"replay_passed", "shadow_ready", "shadow_running"} \cup AfterShadow

\* Statuses that an experiment can have after it was decided.
Accepted == {"approved", "activated", "rolled_back"}
Decided == Accepted \cup {"replay_rejected", "superseded"}

\* The inductive invariant about one experiment.
Unborn(e) == proposal[e] \in {"absent", "proposed"} => experiment[e].status = "absent"
OneRun(e) ==
    /\ \A m, n \in Unfinished(e) : m = n
    /\ \A n \in Unfinished(e) :
          <<runs[n].type, runs[n].status, experiment[e].status>> \in InProgress
    /\ experiment[e].status \in {t[3] : t \in InProgress} => Unfinished(e) # {}
Tested(e) ==
    /\ experiment[e].status \in AfterReplay => Succeeded(e, "replay")
    /\ experiment[e].status \in AfterShadow => Succeeded(e, "shadow")
Judged(e) ==
    /\ experiment[e].status \in Accepted => \E p \in approvals : p.of = e /\ p.action = "approve"
    /\ \A p \in approvals : p.of = e => experiment[e].status \in Decided
Named(e) == experiment[e].activated <=> experiment[e].status = "activated"

Sound(e) == Unborn(e) /\ OneRun(e) /\ Tested(e) /\ Judged(e) /\ Named(e)

IInv == TypeOK /\ ApprovalsAreInformed /\ \A e \in Ids : Sound(e)

-----------------------------------------------------------------------------
(* Operators                                                               *)

\* A run in progress is a queued or running replay, or a running shadow run.
LEMMA InProgressCases ==
    ASSUME NEW type, NEW status, NEW s
    PROVE  <<type, status, s>> \in InProgress <=>
              \/ type = "replay" /\ status = "queued" /\ s = "replay_queued"
              \/ type = "replay" /\ status = "running" /\ s = "replay_running"
              \/ type = "shadow" /\ status = "running" /\ s = "shadow_running"
BY DEF InProgress

\* The statuses that stand for a run in progress.
LEMMA InProgressStatuses ==
    {t[3] : t \in InProgress} = {"replay_queued", "replay_running", "shadow_running"}
BY DEF InProgress

\* In any other status the experiment has no run in progress.
LEMMA NothingInProgress ==
    ASSUME NEW e, OneRun(e),
           experiment[e].status \notin {"replay_queued", "replay_running", "shadow_running"}
    PROVE  Unfinished(e) = {}
<1>1. ASSUME NEW n \in Unfinished(e)
      PROVE  FALSE
  <2>1. <<runs[n].type, runs[n].status, experiment[e].status>> \in InProgress
    BY DEF OneRun
  <2> QED
    BY <2>1, InProgressCases
<1> QED
  BY <1>1

\* A transition goes from a status to a status, and never to "absent".
LEMMA TransitionStatuses ==
    ASSUME NEW s, NEW t, <<s, t>> \in Transitions
    PROVE  s \in Statuses /\ t \in Statuses \ {"absent"} /\ s # "absent"
<1>1. s \in Statuses /\ t \in Statuses
  BY DEF Statuses
<1>2. s # "absent" /\ t # "absent"
  BY DEF Transitions
<1> QED
  BY <1>1, <1>2

\* What every step of an experiment writes, and that it leaves the others alone.
LEMMA MoveFacts ==
    ASSUME TypeOK, NEW e \in Ids, NEW target, Move(e, target)
    PROVE  /\ experiment' \in [Ids -> [status: Statuses, version: Nat, activated: BOOLEAN]]
           /\ experiment'[e].status = target
           /\ experiment'[e].activated <=> target = "activated"
           /\ experiment[e].status # "absent"
           /\ \A d \in Ids \ {e} : experiment'[d] = experiment[d]
<1> DEFINE new == [status |-> target, version |-> experiment[e].version + 1,
                   activated |-> target = "activated"]
<1>1. experiment \in [Ids -> [status: Statuses, version: Nat, activated: BOOLEAN]]
  BY DEF TypeOK
<1>2. experiment' = [experiment EXCEPT ![e] = new]
  BY DEF Move
<1>3. target \in Statuses /\ experiment[e].status # "absent"
  BY TransitionStatuses DEF Move
<1>4. new \in [status: Statuses, version: Nat, activated: BOOLEAN]
  BY <1>1, <1>3
<1>5. new.status = target /\ (new.activated <=> target = "activated")
  OBVIOUS
<1> HIDE DEF new
<1> QED
  BY <1>1, <1>2, <1>3, <1>4, <1>5

\* A run's status changes, and nothing else of the runs.
LEMMA RunChanged ==
    ASSUME runs \in Seq(Runs), NEW n \in DOMAIN runs,
           NEW status \in {"queued", "running", "succeeded", "rejected", "failed"},
           runs' = [runs EXCEPT ![n].status = status]
    PROVE  /\ runs' \in Seq(Runs) /\ DOMAIN runs' = DOMAIN runs
           /\ runs'[n] = [runs[n] EXCEPT !.status = status]
           /\ runs'[n].of = runs[n].of /\ runs'[n].type = runs[n].type
           /\ runs'[n].status = status
           /\ \A m \in DOMAIN runs \ {n} : runs'[m] = runs[m]
<1> DEFINE new == [runs[n] EXCEPT !.status = status]
<1>1. runs[n] \in Runs
  OBVIOUS
<1>2. new \in Runs /\ new.of = runs[n].of /\ new.type = runs[n].type /\ new.status = status
  BY <1>1 DEF Runs
<1>3. runs' = [runs EXCEPT ![n] = new]
  OBVIOUS
<1> HIDE DEF new
<1>4. runs' \in Seq(Runs) /\ DOMAIN runs' = DOMAIN runs /\ runs'[n] = new
      /\ \A m \in DOMAIN runs \ {n} : runs'[m] = runs[m]
  BY <1>2, <1>3
<1> QED
  BY <1>2, <1>4 DEF new

\* A run is added.
LEMMA RunAdded ==
    ASSUME runs \in Seq(Runs), NEW run \in Runs, runs' = Append(runs, run)
    PROVE  /\ runs' \in Seq(Runs)
           /\ DOMAIN runs' = DOMAIN runs \cup {Len(runs) + 1} /\ Len(runs) + 1 \notin DOMAIN runs
           /\ runs'[Len(runs) + 1] = run
           /\ \A m \in DOMAIN runs : runs'[m] = runs[m]
OBVIOUS

-----------------------------------------------------------------------------
(* What a step leaves alone                                                *)

\* The records of an experiment are kept.
RunsKept(d) == /\ DOMAIN runs \subseteq DOMAIN runs'
               /\ \A n \in DOMAIN runs : runs'[n].of = runs[n].of
               /\ \A n \in DOMAIN runs : runs[n].of = d => runs'[n] = runs[n]
               /\ \A n \in DOMAIN runs' \ DOMAIN runs : runs'[n].of # d
ApprovalsKept(d) == \A p : p.of = d => (p \in approvals' <=> p \in approvals)

\* An experiment whose runs are kept has what it had: in progress, and succeeded.
LEMMA RunsKeptFacts ==
    ASSUME NEW d, RunsKept(d)
    PROVE  /\ Unfinished(d)' = Unfinished(d)
           /\ \A n \in Unfinished(d) : runs'[n] = runs[n]
           /\ \A type : Succeeded(d, type)' <=> Succeeded(d, type)
<1>1. Unfinished(d)' = Unfinished(d)
  BY DEF RunsKept, Unfinished
<1>2. ASSUME NEW type
      PROVE  Attempts(d, type)' = Attempts(d, type)
             /\ \A n \in Attempts(d, type) : runs'[n] = runs[n]
  BY DEF RunsKept, Attempts
<1>3. ASSUME NEW type
      PROVE  Succeeded(d, type)' <=> Succeeded(d, type)
  BY <1>2 DEF Succeeded
<1>4. \A n \in Unfinished(d) : runs'[n] = runs[n]
  BY DEF RunsKept, Unfinished
<1> QED
  BY <1>1, <1>3, <1>4

\* An experiment with whose records nothing happens stays sound.
LEMMA KeptSound ==
    ASSUME NEW d, Sound(d), RunsKept(d), ApprovalsKept(d),
           experiment'[d] = experiment[d], proposal'[d] = proposal[d]
    PROVE  Sound(d)'
<1> USE RunsKeptFacts
<1>1. Unborn(d)' /\ Named(d)'
  BY DEF Sound, Unborn, Named
<1>2. OneRun(d)'
  BY DEF Sound, OneRun
<1>3. Tested(d)'
  BY DEF Sound, Tested
<1>4. Judged(d)'
  BY DEF Sound, Judged, ApprovalsKept
<1> QED
  BY <1>1, <1>2, <1>3, <1>4 DEF Sound

-----------------------------------------------------------------------------
(* The steps                                                               *)

\* At first there is nothing.
LEMMA InitInv == Init => IInv
<1> SUFFICES ASSUME Init PROVE IInv
  OBVIOUS
<1>1. TypeOK
  <2>1. NothingSeen \in [of: Ids, version: Nat]
    BY IdsAssumption DEF NothingSeen
  <2>2. "absent" \in Statuses
    BY DEF Statuses
  <2> QED
    BY <2>1, <2>2 DEF Init, TypeOK
<1>2. ApprovalsAreInformed
  BY DEF Init, ApprovalsAreInformed
<1>3. ASSUME NEW e \in Ids
      PROVE  Sound(e)
  <2>1. Unfinished(e) = {} /\ experiment[e].status = "absent" /\ experiment[e].activated = FALSE
        /\ approvals = {}
    BY DEF Init, Unfinished
  <2> QED
    BY <2>1, InProgressStatuses
    DEF Sound, Unborn, OneRun, Tested, Judged, Named, AfterReplay, AfterShadow, Accepted
<1> QED
  BY <1>1, <1>2, <1>3 DEF IInv

\* A proposal is made: it has no experiment.
LEMMA CreateInv == ASSUME IInv, NEW e \in Ids, CreateProposal(e) PROVE IInv'
<1>1. TypeOK' /\ ApprovalsAreInformed'
  BY DEF IInv, CreateProposal, TypeOK, ApprovalsAreInformed
<1>2. ASSUME NEW d \in Ids
      PROVE  Sound(d)'
  <2>1. Sound(d) /\ RunsKept(d) /\ ApprovalsKept(d)
    BY DEF IInv, CreateProposal, RunsKept, ApprovalsKept
  <2>2. CASE d # e
    BY <2>1, <2>2, KeptSound DEF IInv, TypeOK, CreateProposal
  <2>3. CASE d = e
    <3>1. experiment' = experiment /\ experiment[d].status = "absent"
      BY <2>1, <2>3 DEF CreateProposal, Sound, Unborn
    <3> QED
      BY <2>1, <3>1, RunsKeptFacts
      DEF Sound, Unborn, OneRun, Tested, Judged, Named, ApprovalsKept
  <2> QED
    BY <2>2, <2>3
<1> QED
  BY <1>1, <1>2 DEF IInv

\* The experiment that a valid proposal begins has neither runs nor approvals.
LEMMA ValidateInv == ASSUME IInv, NEW e \in Ids, ValidateProposal(e) PROVE IInv'
<1> DEFINE new == [status |-> "schema_validated", version |-> 1, activated |-> FALSE]
<1>0. /\ proposal \in [Ids -> {"absent", "proposed", "schema_validated", "invalid"}]
      /\ experiment \in [Ids -> [status: Statuses, version: Nat, activated: BOOLEAN]]
      /\ proposal[e] = "proposed" /\ UNCHANGED <<runs, approvals, view>>
  BY DEF IInv, TypeOK, ValidateProposal
<1>1. CASE experiment' = experiment /\ proposal' = [proposal EXCEPT ![e] = "invalid"]
  <2>1. TypeOK' /\ ApprovalsAreInformed'
    BY <1>0, <1>1 DEF IInv, TypeOK, ApprovalsAreInformed
  <2>2. ASSUME NEW d \in Ids
        PROVE  Sound(d)'
    <3>1. Sound(d) /\ RunsKept(d) /\ ApprovalsKept(d)
      BY <1>0 DEF IInv, RunsKept, ApprovalsKept
    <3>2. Unborn(d)'
      BY <1>0, <1>1, <3>1 DEF Sound, Unborn
    <3> QED
      BY <1>1, <3>1, <3>2, RunsKeptFacts DEF Sound, OneRun, Tested, Judged, Named, ApprovalsKept
  <2> QED
    BY <2>1, <2>2 DEF IInv
<1>2. CASE /\ proposal' = [proposal EXCEPT ![e] = "schema_validated"]
           /\ experiment' = [experiment EXCEPT ![e] = new]
  <2>1. new \in [status: Statuses, version: Nat, activated: BOOLEAN]
    BY DEF Statuses, Transitions
  <2>2. TypeOK' /\ ApprovalsAreInformed'
    BY <1>0, <1>2, <2>1 DEF IInv, TypeOK, ApprovalsAreInformed
  <2>3. ASSUME NEW d \in Ids
        PROVE  Sound(d)'
    <3>1. Sound(d) /\ RunsKept(d) /\ ApprovalsKept(d)
      BY <1>0 DEF IInv, RunsKept, ApprovalsKept
    <3>2. CASE d # e
      BY <1>0, <1>2, <3>1, <3>2, KeptSound
    <3>3. CASE d = e
      <4>1. experiment[d].status = "absent" /\ proposal'[d] = "schema_validated"
            /\ experiment'[d].status = "schema_validated" /\ experiment'[d].activated = FALSE
        BY <1>0, <1>2, <3>1, <3>3 DEF Sound, Unborn
      <4>2. Unfinished(d)' = {}
        BY <3>1, <4>1, RunsKeptFacts, NothingInProgress DEF Sound
      <4>3. \A p \in approvals' : p.of # d
        BY <3>1, <4>1 DEF Sound, Judged, ApprovalsKept, Decided, Accepted
      <4> QED
        BY <4>1, <4>2, <4>3, InProgressStatuses
        DEF Sound, Unborn, OneRun, Tested, Judged, Named, AfterReplay, AfterShadow, Accepted
    <3> QED
      BY <3>2, <3>3
  <2> QED
    BY <2>2, <2>3 DEF IInv
<1> QED
  BY <1>1, <1>2 DEF ValidateProposal

\* An administrator looks at an experiment.
LEMMA ReadInv == ASSUME IInv, NEW a \in Actors, NEW e \in Ids, Read(a, e) PROVE IInv'
<1>1. experiment[e].version \in Nat
  BY DEF IInv, TypeOK
<1>2. TypeOK'
  BY <1>1 DEF IInv, TypeOK, Read
<1>3. ApprovalsAreInformed'
  BY DEF IInv, ApprovalsAreInformed, Read
<1>4. ASSUME NEW d \in Ids
      PROVE  Sound(d)'
  BY KeptSound DEF IInv, Read, RunsKept, ApprovalsKept
<1> QED
  BY <1>2, <1>3, <1>4 DEF IInv

\* A run that succeeded stays a run that succeeded.
LEMMA SuccessKept ==
    ASSUME NEW e, NEW type, Succeeded(e, type), DOMAIN runs \subseteq DOMAIN runs',
           \A n \in DOMAIN runs : runs[n].status = "succeeded" => runs'[n] = runs[n]
    PROVE  Succeeded(e, type)'
BY DEF Succeeded, Attempts

\* A run is queued or begun when no other one is in progress.
LEMMA QueueInv ==
    ASSUME IInv, NEW a \in Actors, NEW e \in Ids, NEW type \in RunTypes, QueueRun(a, e, type)
    PROVE  IInv'
<1> DEFINE from == IF type = "replay" THEN "schema_validated" ELSE "shadow_ready"
           to == IF type = "replay" THEN "replay_queued" ELSE "shadow_running"
           begun == IF type = "replay" THEN "queued" ELSE "running"
<1>0. TypeOK /\ ApprovalsAreInformed /\ \A d \in Ids : Sound(d)
  BY DEF IInv
<1>1. experiment[e].status = from /\ Move(e, to) /\ UNCHANGED <<proposal, approvals, view>>
  BY DEF QueueRun, Check
<1>2. PICK last \in {runs[n].attempt : n \in Attempts(e, type)} \cup {0} :
         runs' = Append(runs, [of |-> e, type |-> type, attempt |-> last + 1, status |-> begun])
  BY DEF QueueRun
<1> DEFINE run == [of |-> e, type |-> type, attempt |-> last + 1, status |-> begun]
           k == Len(runs) + 1
<1>3. runs \in Seq(Runs)
  BY <1>0 DEF TypeOK
<1>4. last \in Nat
  <2>1. ASSUME NEW n \in Attempts(e, type)
        PROVE  runs[n].attempt \in Nat
    <3>1. runs[n] \in Runs
      BY <1>3 DEF Attempts
    <3> QED
      BY <3>1 DEF Runs
  <2> QED
    BY <2>1
<1>5. run \in Runs
  BY <1>4 DEF Runs
<1>6. /\ runs' \in Seq(Runs) /\ DOMAIN runs' = DOMAIN runs \cup {k} /\ k \notin DOMAIN runs
      /\ runs'[k] = run /\ \A m \in DOMAIN runs : runs'[m] = runs[m]
  <2> HIDE DEF run
  <2> QED
    BY <1>2, <1>3, <1>5, RunAdded DEF run
<1>7. run.of = e /\ run.type = type /\ run.status = begun
  OBVIOUS
<1> HIDE DEF run, k
<1>8. /\ experiment' \in [Ids -> [status: Statuses, version: Nat, activated: BOOLEAN]]
      /\ experiment'[e].status = to /\ experiment'[e].activated = FALSE
      /\ \A d \in Ids \ {e} : experiment'[d] = experiment[d]
  <2>1. /\ experiment' \in [Ids -> [status: Statuses, version: Nat, activated: BOOLEAN]]
        /\ experiment'[e].status = to /\ (experiment'[e].activated <=> to = "activated")
        /\ \A d \in Ids \ {e} : experiment'[d] = experiment[d]
    BY <1>0, <1>1, MoveFacts
  <2>2. experiment'[e].activated \in BOOLEAN
    BY <2>1
  <2> QED
    BY <2>1, <2>2
<1>9. TypeOK' /\ ApprovalsAreInformed'
  BY <1>0, <1>1, <1>6, <1>8 DEF TypeOK, ApprovalsAreInformed
<1>10. ASSUME NEW d \in Ids, d # e
       PROVE  Sound(d)'
  <2>1. RunsKept(d) /\ ApprovalsKept(d)
    BY <1>1, <1>6, <1>7, <1>10 DEF RunsKept, ApprovalsKept
  <2> QED
    BY <1>0, <1>1, <1>8, <1>10, <2>1, KeptSound
<1>11. Sound(e)'
  <2>0. Sound(e)
    BY <1>0
  <2>1. Unfinished(e) = {}
    BY <1>1, <2>0, NothingInProgress DEF Sound
  <2>2. Unfinished(e)' = {k}
    BY <1>6, <1>7, <2>1 DEF Unfinished
  <2>3. <<type, begun, to>> \in InProgress
    BY DEF InProgress, RunTypes
  <2>4. OneRun(e)'
    BY <1>6, <1>7, <1>8, <2>2, <2>3 DEF OneRun
  <2>5. Tested(e)'
    <3>1. to \notin AfterShadow /\ (to \in AfterReplay => from \in AfterReplay)
      BY DEF AfterShadow, AfterReplay
    <3>2. from \in AfterReplay => Succeeded(e, "replay")
      BY <1>1, <2>0 DEF Sound, Tested
    <3>3. Succeeded(e, "replay") => Succeeded(e, "replay")'
      BY <1>6, SuccessKept
    <3> QED
      BY <1>8, <3>1, <3>2, <3>3 DEF Tested
  <2>6. Judged(e)'
    BY <1>1, <1>8, <2>0 DEF Sound, Judged, Accepted, Decided
  <2>7. Unborn(e)' /\ Named(e)'
    BY <1>1, <1>8, <2>0 DEF Sound, Unborn, Named
  <2> QED
    BY <2>4, <2>5, <2>6, <2>7 DEF Sound
<1> QED
  BY <1>9, <1>10, <1>11 DEF IInv

\* A replay starts.
LEMMA StartInv ==
    ASSUME IInv, NEW a \in Actors, NEW n \in DOMAIN runs, StartRun(a, n)
    PROVE  IInv'
<1>0. TypeOK /\ ApprovalsAreInformed /\ \A d \in Ids : Sound(d)
  BY DEF IInv
<1>2. runs \in Seq(Runs)
  BY <1>0 DEF TypeOK
<1>e. PICK e \in Ids : runs[n].of = e
  <2>1. runs[n] \in Runs
    BY <1>2
  <2> QED
    BY <2>1 DEF Runs
<1>1. /\ runs[n].type = "replay" /\ runs[n].status = "queued"
      /\ experiment[e].status = "replay_queued" /\ Move(e, "replay_running")
      /\ UNCHANGED <<proposal, approvals, view>>
  BY <1>e DEF StartRun, Check
<1>3. /\ runs' \in Seq(Runs) /\ DOMAIN runs' = DOMAIN runs
      /\ runs'[n].of = e /\ runs'[n].type = "replay" /\ runs'[n].status = "running"
      /\ \A m \in DOMAIN runs \ {n} : runs'[m] = runs[m]
  BY <1>e, <1>1, <1>2, RunChanged DEF StartRun
<1>4. /\ experiment' \in [Ids -> [status: Statuses, version: Nat, activated: BOOLEAN]]
      /\ experiment'[e].status = "replay_running" /\ ~ experiment'[e].activated
      /\ \A d \in Ids \ {e} : experiment'[d] = experiment[d]
  BY <1>0, <1>1, MoveFacts
<1>5. TypeOK' /\ ApprovalsAreInformed'
  BY <1>0, <1>1, <1>3, <1>4 DEF TypeOK, ApprovalsAreInformed
<1>6. ASSUME NEW d \in Ids, d # e
      PROVE  Sound(d)'
  <2>1. RunsKept(d) /\ ApprovalsKept(d)
    BY <1>e, <1>1, <1>3, <1>6 DEF RunsKept, ApprovalsKept
  <2> QED
    BY <1>0, <1>1, <1>4, <1>6, <2>1, KeptSound
<1>7. Sound(e)'
  <2>0. Sound(e)
    BY <1>0
  <2>1. Unfinished(e) = {n}
    BY <1>e, <1>1, <2>0 DEF Sound, OneRun, Unfinished
  <2>2. Unfinished(e)' = {n}
    <3>1. \A m \in DOMAIN runs \ {n} : m \notin Unfinished(e)
      BY <2>1
    <3> QED
      BY <1>3, <3>1 DEF Unfinished
  <2>3. OneRun(e)'
    BY <1>3, <1>4, <2>2 DEF OneRun, InProgress
  <2>4. Tested(e)' /\ Judged(e)'
    <3>1. experiment'[e].status \notin AfterReplay \cup Accepted
      BY <1>4 DEF AfterReplay, AfterShadow, Accepted
    <3>2. \A p \in approvals' : p.of # e
      BY <1>1, <2>0 DEF Sound, Judged, Accepted, Decided
    <3> QED
      BY <3>1, <3>2 DEF Tested, Judged, AfterReplay
  <2>5. Unborn(e)' /\ Named(e)'
    BY <1>1, <1>4, <2>0 DEF Sound, Unborn, Named
  <2> QED
    BY <2>3, <2>4, <2>5 DEF Sound
<1> QED
  BY <1>5, <1>6, <1>7 DEF IInv

\* A run is completed: it is the one in progress, and its outcome decides whether
\* its experiment goes on.
LEMMA CompleteInv ==
    ASSUME IInv, NEW a \in Actors, NEW n \in DOMAIN runs,
           NEW outcome \in {"passed", "rejected", "failed"}, CompleteRun(a, n, outcome)
    PROVE  IInv'
<1>0. TypeOK /\ ApprovalsAreInformed /\ \A d \in Ids : Sound(d)
  BY DEF IInv
<1>2. runs \in Seq(Runs)
  BY <1>0 DEF TypeOK
<1>e. PICK e \in Ids, type \in RunTypes : runs[n].of = e /\ runs[n].type = type
  <2>1. runs[n] \in Runs
    BY <1>2
  <2> QED
    BY <2>1 DEF Runs
<1> DEFINE target == CompletionTarget(type, outcome)
           closed == IF outcome = "passed" THEN "succeeded" ELSE outcome
<1>1. /\ runs[n].status = "running" /\ experiment[e].status = RunningStatus(type)
      /\ Move(e, target) /\ UNCHANGED <<proposal, approvals, view>>
      /\ runs' = [runs EXCEPT ![n].status = closed]
  BY <1>e DEF CompleteRun, Check
<1>3. closed \in {"succeeded", "rejected", "failed"}
  OBVIOUS
<1>4. /\ runs' \in Seq(Runs) /\ DOMAIN runs' = DOMAIN runs
      /\ runs'[n].of = e /\ runs'[n].type = type /\ runs'[n].status = closed
      /\ \A m \in DOMAIN runs \ {n} : runs'[m] = runs[m]
  <2> HIDE DEF closed
  <2> QED
    BY <1>e, <1>1, <1>2, <1>3, RunChanged
<1>5. \/ type = "replay" /\ target = "replay_passed" /\ closed = "succeeded"
      \/ type = "shadow" /\ target = "awaiting_approval" /\ closed = "succeeded"
      \/ target \in {"replay_rejected", "replay_failed", "shadow_failed"}
  BY DEF CompletionTarget, ReplayTarget, RunTypes
<1> HIDE DEF target, closed
<1>6. /\ experiment' \in [Ids -> [status: Statuses, version: Nat, activated: BOOLEAN]]
      /\ experiment'[e].status = target
      /\ experiment'[e].activated <=> target = "activated"
      /\ \A d \in Ids \ {e} : experiment'[d] = experiment[d]
  BY <1>0, <1>1, MoveFacts
<1>7. TypeOK' /\ ApprovalsAreInformed'
  BY <1>0, <1>1, <1>4, <1>6 DEF TypeOK, ApprovalsAreInformed
<1>8. ASSUME NEW d \in Ids, d # e
      PROVE  Sound(d)'
  <2>1. RunsKept(d) /\ ApprovalsKept(d)
    BY <1>e, <1>1, <1>4, <1>8 DEF RunsKept, ApprovalsKept
  <2> QED
    BY <1>0, <1>1, <1>6, <1>8, <2>1, KeptSound
<1>9. Sound(e)'
  <2>0. Sound(e) /\ experiment[e].status \in {"replay_running", "shadow_running"}
    BY <1>0, <1>1 DEF RunningStatus
  <2>1. Unfinished(e) = {n}
    BY <1>e, <1>1, <2>0 DEF Sound, OneRun, Unfinished
  <2>2. Unfinished(e)' = {}
    <3>1. \A m \in DOMAIN runs \ {n} : m \notin Unfinished(e)
      BY <2>1
    <3> QED
      BY <1>3, <1>4, <3>1 DEF Unfinished
  <2>3. OneRun(e)'
    BY <1>5, <1>6, <2>2, InProgressStatuses DEF OneRun
  <2>4. Tested(e)'
    <3>1. Succeeded(e, "replay") => Succeeded(e, "replay")'
      BY <1>1, <1>4, SuccessKept
    <3>2. closed = "succeeded" => Succeeded(e, type)'
      BY <1>4 DEF Succeeded, Attempts
    <3>3. type = "shadow" => Succeeded(e, "replay")
      BY <1>1, <2>0 DEF RunningStatus, Sound, Tested, AfterReplay
    <3> QED
      BY <1>5, <1>6, <3>1, <3>2, <3>3 DEF Tested, AfterReplay, AfterShadow
  <2>5. Judged(e)'
    <3>1. target \notin Accepted
      BY <1>5 DEF Accepted
    <3>2. \A p \in approvals : p.of # e
      BY <2>0 DEF Sound, Judged, Decided, Accepted
    <3> QED
      BY <1>1, <1>6, <3>1, <3>2 DEF Judged
  <2>6. Unborn(e)' /\ Named(e)'
    BY <1>1, <1>5, <1>6, <2>0 DEF Sound, Unborn, Named
  <2> QED
    BY <2>3, <2>4, <2>5, <2>6 DEF Sound
<1> QED
  BY <1>7, <1>8, <1>9 DEF IInv

\* An administrator decides: nobody did before, and the version that the decision
\* speaks of is the one that the administrator had seen.
LEMMA ApproveInv ==
    ASSUME IInv, NEW a \in Actors, NEW e \in Ids, NEW action \in {"approve", "reject"},
           Approve(a, e, action)
    PROVE  IInv'
<1> DEFINE target == IF action = "approve" THEN "approved" ELSE "replay_rejected"
           new == [of |-> e, version |-> experiment[e].version, seen |-> view[a].version,
                   action |-> action]
<1>0. TypeOK /\ ApprovalsAreInformed /\ \A d \in Ids : Sound(d)
  BY DEF IInv
<1>1. /\ experiment[e].status = "awaiting_approval" /\ view[a].version = experiment[e].version
      /\ Move(e, target) /\ approvals' = approvals \cup {new}
      /\ UNCHANGED <<proposal, runs, view>>
  BY DEF Approve, Check
<1>2. experiment[e].version \in Nat
  BY <1>0 DEF TypeOK
<1>3. new \in [of: Ids, version: Nat, seen: Nat, action: {"approve", "reject"}]
  BY <1>1, <1>2
<1>4. new.of = e /\ new.seen = new.version /\ new.action = action
  BY <1>1
<1> HIDE DEF new
<1>5. /\ experiment' \in [Ids -> [status: Statuses, version: Nat, activated: BOOLEAN]]
      /\ experiment'[e].status = target /\ (experiment'[e].activated <=> target = "activated")
      /\ \A d \in Ids \ {e} : experiment'[d] = experiment[d]
  BY <1>0, <1>1, MoveFacts
<1>6. Sound(e) /\ \A p \in approvals : p.of # e
  BY <1>0, <1>1 DEF Sound, Judged, Decided, Accepted
<1>7. TypeOK'
  BY <1>0, <1>1, <1>3, <1>5 DEF TypeOK
<1>8. ApprovalsAreInformed'
  BY <1>0, <1>1, <1>4, <1>6 DEF ApprovalsAreInformed
<1>9. ASSUME NEW d \in Ids
      PROVE  RunsKept(d)
  BY <1>1 DEF RunsKept
<1>10. ASSUME NEW d \in Ids, d # e
       PROVE  Sound(d)'
  <2>1. ApprovalsKept(d)
    BY <1>1, <1>4, <1>10 DEF ApprovalsKept
  <2> QED
    BY <1>0, <1>1, <1>5, <1>9, <1>10, <2>1, KeptSound
<1>11. Sound(e)'
  <2>1. Unfinished(e)' = {}
    BY <1>1, <1>6, <1>9, NothingInProgress, RunsKeptFacts DEF Sound
  <2>2. OneRun(e)'
    BY <1>5, <2>1, InProgressStatuses DEF OneRun
  <2>3. Tested(e)'
    BY <1>1, <1>6, <1>9, RunsKeptFacts DEF Sound, Tested, AfterReplay, AfterShadow
  <2>4. Judged(e)'
    <3>1. target \in Decided /\ (target \in Accepted => action = "approve")
      BY DEF Decided, Accepted
    <3> QED
      BY <1>1, <1>4, <1>5, <3>1 DEF Judged
  <2>5. Unborn(e)' /\ Named(e)'
    BY <1>1, <1>5, <1>6 DEF Sound, Unborn, Named
  <2> QED
    BY <2>2, <2>3, <2>4, <2>5 DEF Sound
<1> QED
  BY <1>7, <1>8, <1>10, <1>11 DEF IInv

\* Every other step goes on from a status to the next, on the same evidence.
LEMMA FinalInv ==
    ASSUME IInv, NEW a \in Actors, NEW e \in Ids, NEW from, NEW to,
           <<from, to>> \in {<<"replay_passed", "shadow_ready">>, <<"approved", "activated">>,
                             <<"activated", "rolled_back">>},
           FinalTransition(a, e, from, to)
    PROVE  IInv'
<1>0. TypeOK /\ ApprovalsAreInformed /\ \A d \in Ids : Sound(d)
  BY DEF IInv
<1>1. /\ experiment[e].status = from /\ Move(e, to)
      /\ UNCHANGED <<proposal, runs, approvals, view>>
  BY DEF FinalTransition, Check
<1>2. \/ from = "replay_passed" /\ to = "shadow_ready"
      \/ from = "approved" /\ to = "activated"
      \/ from = "activated" /\ to = "rolled_back"
  OBVIOUS
<1>3. /\ experiment' \in [Ids -> [status: Statuses, version: Nat, activated: BOOLEAN]]
      /\ experiment'[e].status = to /\ (experiment'[e].activated <=> to = "activated")
      /\ \A d \in Ids \ {e} : experiment'[d] = experiment[d]
  BY <1>0, <1>1, MoveFacts
<1>4. TypeOK' /\ ApprovalsAreInformed'
  BY <1>0, <1>1, <1>3 DEF TypeOK, ApprovalsAreInformed
<1>5. ASSUME NEW d \in Ids
      PROVE  RunsKept(d) /\ ApprovalsKept(d)
  BY <1>1 DEF RunsKept, ApprovalsKept
<1>6. ASSUME NEW d \in Ids, d # e
      PROVE  Sound(d)'
  BY <1>0, <1>1, <1>3, <1>5, <1>6, KeptSound
<1>7. Sound(e)'
  <2>0. Sound(e)
    BY <1>0
  <2>1. Unfinished(e)' = {}
    BY <1>1, <1>2, <1>5, <2>0, NothingInProgress, RunsKeptFacts DEF Sound
  <2>2. OneRun(e)'
    BY <1>2, <1>3, <2>1, InProgressStatuses DEF OneRun
  <2>3. Tested(e)'
    <3>1. from \in AfterReplay /\ (to \in AfterShadow => from \in AfterShadow)
      BY <1>2 DEF AfterReplay, AfterShadow
    <3> QED
      BY <1>1, <1>3, <1>5, <2>0, <3>1, RunsKeptFacts DEF Sound, Tested
  <2>4. Judged(e)'
    <3>1. (to \in Accepted => from \in Accepted) /\ (from \in Decided => to \in Decided)
      BY <1>2 DEF Accepted, Decided
    <3> QED
      BY <1>1, <1>3, <2>0, <3>1 DEF Sound, Judged
  <2>5. Unborn(e)' /\ Named(e)'
    BY <1>1, <1>2, <1>3, <2>0 DEF Sound, Unborn, Named
  <2> QED
    BY <2>2, <2>3, <2>4, <2>5 DEF Sound
<1> QED
  BY <1>4, <1>6, <1>7 DEF IInv

\* Every step preserves the invariant.
LEMMA NextInv == ASSUME IInv, [Next]_vars PROVE IInv'
<1>1. CASE UNCHANGED vars
  <2>1. TypeOK' /\ ApprovalsAreInformed'
    BY <1>1 DEF IInv, vars, TypeOK, ApprovalsAreInformed
  <2>2. ASSUME NEW d \in Ids
        PROVE  Sound(d)'
    BY <1>1, KeptSound DEF IInv, vars, RunsKept, ApprovalsKept
  <2> QED
    BY <2>1, <2>2 DEF IInv
<1>2. ASSUME NEW e \in Ids, CreateProposal(e) \/ ValidateProposal(e)
      PROVE  IInv'
  BY <1>2, CreateInv, ValidateInv
<1>3. ASSUME NEW a \in Actors, NEW e \in Ids,
             \/ Read(a, e)
             \/ \E type \in RunTypes : QueueRun(a, e, type)
             \/ \E action \in {"approve", "reject"} : Approve(a, e, action)
      PROVE  IInv'
  BY <1>3, ReadInv, QueueInv, ApproveInv
<1>4. ASSUME NEW a \in Actors, NEW e \in Ids,
             \/ FinalTransition(a, e, "replay_passed", "shadow_ready")
             \/ FinalTransition(a, e, "approved", "activated")
             \/ FinalTransition(a, e, "activated", "rolled_back")
      PROVE  IInv'
  BY <1>4, FinalInv
<1>5. ASSUME NEW a \in Actors, NEW n \in DOMAIN runs,
             \/ StartRun(a, n)
             \/ \E outcome \in {"passed", "rejected", "failed"} : CompleteRun(a, n, outcome)
      PROVE  IInv'
  BY <1>5, StartInv, CompleteInv
<1> QED
  BY <1>1, <1>2, <1>3, <1>4, <1>5 DEF Next

\* The inductive invariant holds of every behaviour of the governance.
THEOREM Invariant == Spec => []IInv
BY InitInv, NextInv, PTL DEF Spec

-----------------------------------------------------------------------------
(* The results                                                             *)

\* In every reachable state each variable has its type.
THEOREM TypeCorrect == Spec => []TypeOK
<1>1. IInv => TypeOK
  BY DEF IInv
<1> QED
  BY Invariant, <1>1, PTL

\* Nothing waits for approval without a replay and a shadow run that succeeded,
\* nothing is activated without an approval, and only an activated experiment names
\* a formal version (governance.py, TRANSITIONS), for any number of experiments.
THEOREM EvidenceComesFirst == Spec => []EvidenceFirst
<1>1. IInv => EvidenceFirst
  BY DEF IInv, Sound, Tested, Judged, Named, EvidenceFirst, AfterReplay, AfterShadow, Accepted
<1> QED
  BY Invariant, <1>1, PTL

\* A status stands for exactly one run in progress, or for none, however requests
\* of any number of administrators interleave.
THEOREM OneRunInProgress == Spec => []RunsMatchStatus
<1>1. IInv => RunsMatchStatus
  BY DEF IInv, Sound, OneRun, RunsMatchStatus
<1> QED
  BY Invariant, <1>1, PTL

\* An experiment is decided once, by somebody who had seen the version decided on.
THEOREM InformedApprovals == Spec => []ApprovalsAreInformed
<1>1. IInv => ApprovalsAreInformed
  BY DEF IInv
<1> QED
  BY Invariant, <1>1, PTL
=============================================================================
