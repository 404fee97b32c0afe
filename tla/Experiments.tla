----------------------------- MODULE Experiments -----------------------------
(***************************************************************************)
(* The governance of rule experiments: a proposal is validated, replayed   *)
(* on history, run as a shadow, approved, activated and rolled back, every *)
(* step a request of an administrator who says which version of the        *)
(* experiment it was decided on.  A request locks the experiment's row     *)
(* (and, to start or complete a run, first the run's) before it checks     *)
(* anything, so that each one is an atomic step.                           *)
(***************************************************************************)
EXTENDS Naturals, Sequences

CONSTANTS Ids,     \* the proposals that are made; each has at most one experiment
          Actors   \* administrators who act at the same time

ASSUME IdsAssumption == Ids # {}

VARIABLES proposal,    \* status of each proposal
          experiment,  \* status, version and activated_rule_version of its experiment
          runs,        \* the replay and shadow runs
          approvals,   \* the approvals, with the version their actor had seen
          view         \* the experiment and version each actor has read

vars == <<proposal, experiment, runs, approvals, view>>

Terminal == {"replay_rejected", "replay_failed", "shadow_failed", "superseded", "rolled_back"}

\* TRANSITIONS of experiments/state.py.
Transitions ==
    {<<"schema_validated", "replay_queued">>, <<"replay_queued", "replay_running">>,
     <<"replay_queued", "replay_failed">>, <<"replay_running", "replay_passed">>,
     <<"replay_running", "replay_rejected">>, <<"replay_running", "replay_failed">>,
     <<"replay_passed", "shadow_ready">>, <<"shadow_ready", "shadow_running">>,
     <<"shadow_running", "awaiting_approval">>, <<"shadow_running", "shadow_failed">>,
     <<"awaiting_approval", "approved">>, <<"awaiting_approval", "replay_rejected">>,
     <<"approved", "activated">>, <<"activated", "superseded">>, <<"activated", "rolled_back">>}

Statuses == {"absent"} \cup {t[1] : t \in Transitions} \cup {t[2] : t \in Transitions}
RunTypes == {"replay", "shadow"}
Runs == [of: Ids, type: RunTypes, attempt: Nat,
         status: {"queued", "running", "succeeded", "rejected", "failed"}]

\* Type of every variable.
TypeOK ==
    /\ proposal \in [Ids -> {"absent", "proposed", "schema_validated", "invalid"}]
    /\ experiment \in [Ids -> [status: Statuses, version: Nat, activated: BOOLEAN]]
    /\ runs \in Seq(Runs)
    /\ approvals \subseteq [of: Ids, version: Nat, seen: Nat, action: {"approve", "reject"}]
    /\ view \in [Actors -> [of: Ids, version: Nat]]

NothingSeen == [of |-> CHOOSE e \in Ids : TRUE, version |-> 0]

Init ==
    /\ proposal = [e \in Ids |-> "absent"]
    /\ experiment = [e \in Ids |-> [status |-> "absent", version |-> 0, activated |-> FALSE]]
    /\ runs = <<>>
    /\ approvals = {}
    /\ view = [a \in Actors |-> NothingSeen]

-----------------------------------------------------------------------------
(* Proposals                                                               *)

CreateProposal(e) ==
    /\ proposal[e] = "absent"
    /\ proposal' = [proposal EXCEPT ![e] = "proposed"]
    /\ UNCHANGED <<experiment, runs, approvals, view>>

\* The static checks of the DSL pass, and the experiment begins, or they do not.
ValidateProposal(e) ==
    /\ proposal[e] = "proposed"
    /\ \/ /\ proposal' = [proposal EXCEPT ![e] = "schema_validated"]
          /\ experiment' = [experiment EXCEPT ![e] =
                              [status |-> "schema_validated", version |-> 1, activated |-> FALSE]]
       \/ /\ proposal' = [proposal EXCEPT ![e] = "invalid"]
          /\ UNCHANGED experiment
    /\ UNCHANGED <<runs, approvals, view>>

\* list_experiments, or the answer of an earlier request.
Read(a, e) ==
    /\ experiment[e].status # "absent"
    /\ view' = [view EXCEPT ![a] = [of |-> e, version |-> experiment[e].version]]
    /\ UNCHANGED <<proposal, experiment, runs, approvals>>

-----------------------------------------------------------------------------
(* Steps of an experiment                                                  *)

\* Mutant: the version the actor has seen is not compared.
CheckStatus(a, e, status) ==
    /\ view[a].of = e /\ view[a].version > 0
    /\ experiment[e].status = status

\* _check_version_and_state
Check(a, e, status) ==
    /\ view[a].of = e /\ view[a].version = experiment[e].version
    /\ experiment[e].status = status

\* require_transition, and what every step writes; activated_rule_version is only
\* ever set by the step to "activated".
Move(e, target) ==
    /\ experiment[e].status \notin Terminal
    /\ <<experiment[e].status, target>> \in Transitions
    /\ experiment' = [experiment EXCEPT ![e] = [status |-> target, version |-> @.version + 1,
                                                activated |-> target = "activated"]]

Attempts(e, type) == {n \in DOMAIN runs : runs[n].of = e /\ runs[n].type = type}

\* A replay waits to be started; a shadow run begins at once.
QueueRun(a, e, type) ==
    LET from == IF type = "replay" THEN "schema_validated" ELSE "shadow_ready"
        to == IF type = "replay" THEN "replay_queued" ELSE "shadow_running"
        before == {runs[n].attempt : n \in Attempts(e, type)} \cup {0}
    IN  /\ Check(a, e, from)
        /\ Move(e, to)
        /\ \E last \in before :
              /\ \A m \in before : m <= last
              /\ runs' = Append(runs, [of |-> e, type |-> type, attempt |-> last + 1,
                                       status |-> IF type = "replay" THEN "queued"
                                                                     ELSE "running"])
        /\ UNCHANGED <<proposal, approvals, view>>

StartRun(a, n) ==
    /\ runs[n].type = "replay" /\ runs[n].status = "queued"
    /\ Check(a, runs[n].of, "replay_queued")
    /\ Move(runs[n].of, "replay_running")
    /\ runs' = [runs EXCEPT ![n].status = "running"]
    /\ UNCHANGED <<proposal, approvals, view>>

RunningStatus(type) == IF type = "replay" THEN "replay_running" ELSE "shadow_running"

ReplayTarget == [passed |-> "replay_passed", rejected |-> "replay_rejected",
                 failed |-> "replay_failed"]

\* Mutant: a rejected shadow run, too, waits for approval.
LenientTarget(type, outcome) ==
    CASE type = "replay" -> ReplayTarget[outcome]
      [] type = "shadow" /\ outcome # "failed" -> "awaiting_approval"
      [] OTHER -> "shadow_failed"

\* _completion_target
CompletionTarget(type, outcome) ==
    CASE type = "replay" -> ReplayTarget[outcome]
      [] type = "shadow" /\ outcome = "passed" -> "awaiting_approval"
      [] OTHER -> "shadow_failed"

\* Mutant: the run stays open.
CompleteExperiment(a, n, outcome) ==
    /\ runs[n].status = "running"
    /\ Check(a, runs[n].of, RunningStatus(runs[n].type))
    /\ Move(runs[n].of, CompletionTarget(runs[n].type, outcome))
    /\ UNCHANGED <<proposal, runs, approvals, view>>

\* Mutant: the run gets the outcome as it was reported.
CompleteVerbatim(a, n, outcome) ==
    /\ runs[n].status = "running"
    /\ Check(a, runs[n].of, RunningStatus(runs[n].type))
    /\ Move(runs[n].of, CompletionTarget(runs[n].type, outcome))
    /\ runs' = [runs EXCEPT ![n].status = outcome]
    /\ UNCHANGED <<proposal, approvals, view>>

\* The outcome closes the run and moves its experiment on.
CompleteRun(a, n, outcome) ==
    /\ runs[n].status = "running"
    /\ Check(a, runs[n].of, RunningStatus(runs[n].type))
    /\ Move(runs[n].of, CompletionTarget(runs[n].type, outcome))
    /\ runs' = [runs EXCEPT ![n].status = IF outcome = "passed" THEN "succeeded" ELSE outcome]
    /\ UNCHANGED <<proposal, approvals, view>>

Approve(a, e, action) ==
    /\ Check(a, e, "awaiting_approval")
    /\ Move(e, IF action = "approve" THEN "approved" ELSE "replay_rejected")
    /\ approvals' = approvals \cup {[of |-> e, version |-> experiment[e].version,
                                     seen |-> view[a].version, action |-> action]}
    /\ UNCHANGED <<proposal, runs, view>>

\* prepare_shadow, activate (where the installation enables it) and rollback.
FinalTransition(a, e, from, to) ==
    /\ Check(a, e, from)
    /\ Move(e, to)
    /\ UNCHANGED <<proposal, runs, approvals, view>>

Next ==
    \/ \E e \in Ids : CreateProposal(e) \/ ValidateProposal(e)
    \/ \E a \in Actors, e \in Ids :
          \/ Read(a, e)
          \/ \E type \in RunTypes : QueueRun(a, e, type)
          \/ \E action \in {"approve", "reject"} : Approve(a, e, action)
          \/ FinalTransition(a, e, "replay_passed", "shadow_ready")
          \/ FinalTransition(a, e, "approved", "activated")
          \/ FinalTransition(a, e, "activated", "rolled_back")
    \/ \E a \in Actors, n \in DOMAIN runs :
          \/ StartRun(a, n)
          \/ \E outcome \in {"passed", "rejected", "failed"} : CompleteRun(a, n, outcome)

Spec == Init /\ [][Next]_vars

-----------------------------------------------------------------------------
(* Properties                                                              *)

Succeeded(e, type) == \E n \in Attempts(e, type) : runs[n].status = "succeeded"
Unfinished(e) == {n \in DOMAIN runs : runs[n].of = e /\ runs[n].status \in {"queued", "running"}}

\* An experiment waits for approval only on a replay and a shadow run that both
\* succeeded, and nothing is approved, activated or rolled back without an
\* administrator's approval; only an activated experiment names a formal version.
EvidenceFirst ==
    \A e \in Ids :
        LET status == experiment[e].status
        IN  /\ status \in {"awaiting_approval", "approved", "activated", "rolled_back"} =>
                  Succeeded(e, "replay") /\ Succeeded(e, "shadow")
            /\ status \in {"approved", "activated", "rolled_back"} =>
                  \E p \in approvals : p.of = e /\ p.action = "approve"
            /\ experiment[e].activated <=> status = "activated"

\* The run in progress that a status stands for.
InProgress == {<<"replay", "queued", "replay_queued">>, <<"replay", "running", "replay_running">>,
               <<"shadow", "running", "shadow_running">>}

\* An experiment has a run in progress exactly while its status says so, and
\* never two, however many administrators queue, start and complete runs.
RunsMatchStatus ==
    \A e \in Ids :
        /\ \A m, n \in Unfinished(e) : m = n
        /\ \A n \in Unfinished(e) :
              <<runs[n].type, runs[n].status, experiment[e].status>> \in InProgress
        /\ experiment[e].status \in {t[3] : t \in InProgress} => Unfinished(e) # {}

\* An approval speaks of the version its administrator had seen, and each
\* experiment is decided once.
ApprovalsAreInformed ==
    \A p \in approvals :
        /\ p.seen = p.version
        /\ \A q \in approvals : p.of = q.of => p = q
=============================================================================
