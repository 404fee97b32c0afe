---------------------------- MODULE JobLifecycle ----------------------------
(***************************************************************************)
(* What the job queues of PAWE promise about one job, whoever runs it: it  *)
(* is queued, or recorded as already finished; it is finished at most      *)
(* once; a cancellation stops a queued job at once, a running one at the   *)
(* next boundary, and then nothing but "cancelled" can be its outcome.     *)
(***************************************************************************)
CONSTANT JobIds

VARIABLES status, cancel

lifecycleVars == <<status, cancel>>

Outcomes == {"succeeded", "failed"}

Init ==
    /\ status = [j \in JobIds |-> "absent"]
    /\ cancel = [j \in JobIds |-> FALSE]

Become(j, s) == status' = [status EXCEPT ![j] = s]

Enqueue(j) ==
    /\ status[j] = "absent"
    /\ Become(j, "queued")
    /\ UNCHANGED cancel

\* Recorded after the fact: run without the queue, or its output existed already.
Record(j) ==
    /\ status[j] = "absent"
    /\ \E outcome \in Outcomes : Become(j, outcome)
    /\ UNCHANGED cancel

Start(j) ==
    /\ status[j] = "queued"
    /\ Become(j, "running")
    /\ UNCHANGED cancel

RequestCancel(j) ==
    /\ status[j] \in {"queued", "running"}
    /\ ~ cancel[j]
    /\ cancel' = [cancel EXCEPT ![j] = TRUE]
    /\ Become(j, IF status[j] = "queued" THEN "cancelled" ELSE "running")

\* A job may fail while it is still queued.
Conclude(j) ==
    /\ status[j] \in {"queued", "running"}
    /\ IF cancel[j] THEN Become(j, "cancelled")
                    ELSE \E outcome \in Outcomes : Become(j, outcome)
    /\ UNCHANGED cancel

Next ==
    \E j \in JobIds : Enqueue(j) \/ Record(j) \/ Start(j) \/ RequestCancel(j) \/ Conclude(j)

Spec == Init /\ [][Next]_lifecycleVars
=============================================================================
