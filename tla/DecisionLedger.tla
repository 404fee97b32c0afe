--------------------------- MODULE DecisionLedger ---------------------------
(***************************************************************************)
(* DecisionLedger of decisions/ledger.py for one week: the in-memory       *)
(* reference of what approving and publishing a list mean, with every call *)
(* one atomic step.  A source (the rule's or the AI's baseline) waits for  *)
(* approval; approving it creates the next version of the published list.  *)
(***************************************************************************)
EXTENDS Naturals, Sequences

CONSTANTS SourceTypes,  \* "rule", "ai"
          Lists,        \* the lists of stocks a caller may send
          Eligible,     \* those of the source's capacity with eligible stocks only
          Baseline,     \* the list each source proposes
          Numbers,      \* version numbers a caller may send; a source's is 1
          Keys,         \* idempotency keys
          None          \* no list, no command

VARIABLES sources,      \* status of each source, "absent" before it exists
          versions,     \* the published-type decisions; the index is the version
          approvalKeys, \* the command each approval key was used with
          publishKeys   \* the version each publication key was used with

ledgerVars == <<sources, versions, approvalKeys, publishKeys>>

Actions == {"accept_rule", "accept_ai", "modify", "reject"}
Commands == [source: {"rule", "ai"}, action: Actions, list: Lists \cup {None}, version: Numbers]

Accepting(t) == IF t = "rule" THEN "accept_rule" ELSE "accept_ai"

\* _validated_selection
Valid(c) ==
    \/ c.action = "reject" /\ c.list = None
    \/ c.action = Accepting(c.source) /\ c.list = Baseline[c.source]
    \/ c.action = "modify" /\ c.list \in Eligible

Init ==
    /\ sources = [t \in SourceTypes |-> "absent"]
    /\ versions = <<>>
    /\ approvalKeys = [k \in Keys |-> None]
    /\ publishKeys = [k \in Keys |-> 0]

AddSource(t) ==
    /\ sources[t] = "absent"
    /\ sources' = [sources EXCEPT ![t] = "awaiting_approval"]
    /\ UNCHANGED <<versions, approvalKeys, publishKeys>>

\* _create_approved_decision: a list published before keeps that status.
Replaced(v) ==
    [v EXCEPT !.active = FALSE,
              !.status = IF v.active /\ v.status # "published" THEN "superseded" ELSE @]

NextVersion(c) ==
    Append([n \in DOMAIN versions |-> Replaced(versions[n])],
           [status |-> "approved", active |-> TRUE, source |-> c.source, list |-> c.list])

\* A key that was used before changes nothing, whether it is a retry or a reuse.
Approve(k, c) ==
    /\ approvalKeys[k] = None
    /\ c.source \in SourceTypes
    /\ sources[c.source] = "awaiting_approval" /\ c.version = 1
    /\ Valid(c)
    /\ approvalKeys' = [approvalKeys EXCEPT ![k] = c]
    /\ IF c.action = "reject"
       THEN UNCHANGED <<sources, versions>>
       ELSE /\ sources' = [sources EXCEPT ![c.source] = "approved"]
            /\ versions' = NextVersion(c)
    /\ UNCHANGED publishKeys

Publish(k, n) ==
    /\ publishKeys[k] = 0
    /\ n \in DOMAIN versions
    /\ versions[n].status = "approved"
    /\ versions' = [versions EXCEPT ![n].status = "published"]
    /\ publishKeys' = [publishKeys EXCEPT ![k] = n]
    /\ UNCHANGED <<sources, approvalKeys>>

Next ==
    \/ \E t \in SourceTypes : AddSource(t)
    \/ \E k \in Keys : \/ \E c \in Commands : Approve(k, c)
                       \/ \E n \in Numbers : Publish(k, n)

Spec == Init /\ [][Next]_ledgerVars
=============================================================================
