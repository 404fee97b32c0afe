----------------------------- MODULE Decisions -----------------------------
(***************************************************************************)
(* The decisions of one week in the database: the worker's threads run the *)
(* rules, again on every morning of the week, and administrators approve   *)
(* and publish the list concurrently.  A request looks its idempotency key *)
(* up first and takes its row lock (SELECT ... FOR UPDATE) only then; from *)
(* the lock to the commit it is one step.                                  *)
(*                                                                         *)
(* The rules are the only source the program stores: a request to approve  *)
(* an AI list finds no source.                                             *)
(***************************************************************************)
EXTENDS Naturals, Sequences, FiniteSets

CONSTANTS Lists, Eligible, Baseline, Numbers, Keys, None,  \* as in DecisionLedger
          Asked,    \* bound: the approval commands that callers send
          Admins,   \* concurrent requests of administrators
          Runners   \* threads that run the rules: the poller's and the pre-open task's

\* Each source proposes a list of its own; a source's version number is 1.
ASSUME DecisionsAssumption ==
    /\ Baseline \in [{"rule", "ai"} -> Lists]
    /\ Eligible \subseteq Lists
    /\ 1 \in Numbers /\ Numbers \subseteq Nat

VARIABLES rule,       \* status of the week's rule decision
          versions,   \* the published-type decisions; the index is the version
          week,       \* the week's own status
          approvals,  \* the approval stored under each idempotency key
          events,     \* the publication event stored under each idempotency key
          request,    \* each administrator's request
          run         \* each runner's transaction: the week's status it read

vars == <<rule, versions, week, approvals, events, request, run>>

Actions == {"accept_rule", "accept_ai", "modify", "reject"}

\* What ApprovalRequest lets through: a list unless the action is a rejection.
Commands == {c \in [source: {"rule", "ai"}, action: Actions, list: Lists \cup {None},
                    version: Numbers] : c.action = "reject" <=> c.list = None}

\* Callers send commands only.
ASSUME AskedAssumption == Asked \subseteq Commands

VersionRecords == [status: {"approved", "published", "superseded"}, active: BOOLEAN,
                   source: {"rule", "ai"}, list: Lists]
WeekStates == {"absent", "awaiting_approval", "approved", "published"}

\* `first` is published_at = created_at: the event that changed the status.
Events == [version: Numbers, first: BOOLEAN]

\* "Nothing stored" is none of the things that can be stored.
ASSUME NoneAssumption == None \notin Lists \cup Commands \cup Events

\* Type of every variable.
TypeOK ==
    /\ rule \in {"absent", "awaiting_approval", "approved"}
    /\ versions \in Seq(VersionRecords)
    /\ week \in WeekStates
    /\ approvals \in [Keys -> Commands \cup {None}]
    /\ events \in [Keys -> Events \cup {None}]
    /\ request \in [Admins -> {None} \cup [of: {"approve"}, key: Keys, command: Commands]
                                     \cup [of: {"publish"}, key: Keys, version: Numbers]]
    /\ run \in [Runners -> {"idle"} \cup WeekStates]

Init ==
    /\ rule = "absent"
    /\ versions = <<>>
    /\ week = "absent"
    /\ approvals = [k \in Keys |-> None]
    /\ events = [k \in Keys |-> None]
    /\ request = [a \in Admins |-> None]
    /\ run = [r \in Runners |-> "idle"]

-----------------------------------------------------------------------------
(* Approval                                                                *)

ApproveLookup(a, k, c) ==
    /\ request[a] = None
    /\ approvals[k] = None
    /\ request' = [request EXCEPT ![a] = [of |-> "approve", key |-> k, command |-> c]]
    /\ UNCHANGED <<rule, versions, week, approvals, events, run>>

\* Mutant: only the action is checked, and not the list.
ValidAction(c) == c.action \in {"reject", "accept_rule", "modify"}

\* _validate_action and _validate_manual_selection.
Valid(c) ==
    \/ c.action = "reject"
    \/ c.action = "accept_rule" /\ c.list = Baseline["rule"]
    \/ c.action = "modify" /\ c.list \in Eligible

\* Mutant: an accepted list is only referred to, and not copied.
NextVersionByReference(c) ==
    Append(versions, [status |-> "approved", active |-> TRUE, source |-> c.source,
                      list |-> IF c.action = "modify" THEN c.list ELSE None])

\* _create_approved_decision: every earlier active list is superseded.
NextVersion(c) ==
    Append([n \in DOMAIN versions |->
                IF versions[n].active
                THEN [versions[n] EXCEPT !.active = FALSE, !.status = "superseded"]
                ELSE versions[n]],
           [status |-> "approved", active |-> TRUE, source |-> c.source, list |-> c.list])

\* Mutant: the source's status is not looked at under the lock.
AcceptableUnlocked(k, c) ==
    /\ c.source = "rule" /\ rule # "absent" /\ c.version = 1
    /\ Valid(c)
    /\ approvals[k] = None

\* The source's row is locked and is still waiting; the key is still free.
Acceptable(k, c) ==
    /\ c.source = "rule" /\ rule = "awaiting_approval" /\ c.version = 1
    /\ Valid(c)
    /\ approvals[k] = None

\* Mutant: the week's status is set on rejection, too.
ApproveAlways(a) ==
    /\ request[a] # None /\ request[a].of = "approve"
    /\ request' = [request EXCEPT ![a] = None]
    /\ LET k == request[a].key
           c == request[a].command
       IN  /\ Acceptable(k, c)
           /\ approvals' = [approvals EXCEPT ![k] = c]
           /\ week' = "approved"
           /\ IF c.action = "reject"
              THEN UNCHANGED <<rule, versions>>
              ELSE rule' = "approved" /\ versions' = NextVersion(c)
    /\ UNCHANGED <<events, run>>

ApproveCommit(a) ==
    /\ request[a] # None /\ request[a].of = "approve"
    /\ request' = [request EXCEPT ![a] = None]
    /\ LET k == request[a].key
           c == request[a].command
       IN  /\ Acceptable(k, c)
           /\ approvals' = [approvals EXCEPT ![k] = c]
           /\ IF c.action = "reject"
              THEN UNCHANGED <<rule, versions, week>>
              ELSE /\ rule' = "approved"
                   /\ versions' = NextVersion(c)
                   /\ week' = "approved"
    /\ UNCHANGED <<events, run>>

-----------------------------------------------------------------------------
(* Publication                                                             *)

PublishLookup(a, k, n) ==
    /\ request[a] = None
    /\ events[k] = None
    /\ request' = [request EXCEPT ![a] = [of |-> "publish", key |-> k, version |-> n]]
    /\ UNCHANGED <<rule, versions, week, approvals, events, run>>

Publishable(k, n) ==
    /\ n \in DOMAIN versions /\ versions[n].active
    /\ versions[n].status \in {"approved", "published"}
    /\ events[k] = None

\* Mutant: every publication counts as the first one.
PublishAgain(a) ==
    /\ request[a] # None /\ request[a].of = "publish"
    /\ request' = [request EXCEPT ![a] = None]
    /\ LET k == request[a].key
           n == request[a].version
       IN  /\ Publishable(k, n)
           /\ versions' = [versions EXCEPT ![n].status = "published"]
           /\ events' = [events EXCEPT ![k] = [version |-> n, first |-> TRUE]]
           /\ week' = "published"
    /\ UNCHANGED <<rule, approvals, run>>

\* Publishing a published list again only records another event.
PublishCommit(a) ==
    /\ request[a] # None /\ request[a].of = "publish"
    /\ request' = [request EXCEPT ![a] = None]
    /\ LET k == request[a].key
           n == request[a].version
       IN  /\ Publishable(k, n)
           /\ versions' = [versions EXCEPT ![n].status = "published"]
           /\ events' = [events EXCEPT ![k] =
                           [version |-> n, first |-> versions[n].status = "approved"]]
           /\ week' = "published"
    /\ UNCHANGED <<rule, approvals, run>>

\* A check refuses the request, a constraint or a lost connection rolls it back.
Refuse(a) ==
    /\ request[a] # None
    /\ request' = [request EXCEPT ![a] = None]
    /\ UNCHANGED <<rule, versions, week, approvals, events, run>>

-----------------------------------------------------------------------------
(* Running the rules: _execute_rule and what it writes                     *)

RulesRead(r) ==
    /\ run[r] = "idle"
    /\ run' = [run EXCEPT ![r] = week]
    /\ UNCHANGED <<rule, versions, week, approvals, events, request>>

\* Mutant: the rules always store a new decision.
RulesRenew(r) ==
    /\ run[r] # "idle"
    /\ run' = [run EXCEPT ![r] = "idle"]
    /\ week' = "awaiting_approval"
    /\ rule' = "awaiting_approval"
    /\ UNCHANGED <<versions, approvals, events, request>>

\* The week waits for approval again, whatever its status was, unless the status
\* read was that already: then nothing is written.  The rule decision is stored
\* once, if there are candidates, and reused from then on.
RulesCommit(r) ==
    /\ run[r] # "idle"
    /\ run' = [run EXCEPT ![r] = "idle"]
    /\ run[r] = "absent" => week = "absent"
    /\ week' = IF run[r] = "awaiting_approval" THEN week ELSE "awaiting_approval"
    /\ \/ UNCHANGED rule
       \/ rule = "absent" /\ rule' = "awaiting_approval"
    /\ UNCHANGED <<versions, approvals, events, request>>

\* A gate, an error or a violated constraint.
RulesRollback(r) ==
    /\ run[r] # "idle"
    /\ run' = [run EXCEPT ![r] = "idle"]
    /\ UNCHANGED <<rule, versions, week, approvals, events, request>>

Next ==
    \/ \E a \in Admins :
          \/ \E k \in Keys, c \in Asked : ApproveLookup(a, k, c)
          \/ ApproveCommit(a)
          \/ \E k \in Keys, n \in Numbers : PublishLookup(a, k, n)
          \/ PublishCommit(a)
          \/ Refuse(a)
    \/ \E r \in Runners : RulesRead(r) \/ RulesCommit(r) \/ RulesRollback(r)

Spec == Init /\ [][Next]_vars

-----------------------------------------------------------------------------
(* Properties                                                              *)

Accepted == {k \in Keys : approvals[k] # None /\ approvals[k].action # "reject"}

\* However many approvals race, the week has at most one list, it is the one
\* active decision, and it exists exactly when the rule decision is approved.
OneList ==
    /\ Len(versions) = IF rule = "approved" THEN 1 ELSE 0
    /\ \A n \in DOMAIN versions : versions[n].active

\* A list is the content of one accepting approval, and is the rule's own
\* baseline or made of eligible stocks only.
ListsAreApproved ==
    /\ \A k, l \in Accepted : k = l
    /\ \A n \in DOMAIN versions :
          /\ \E k \in Accepted : approvals[k].list = versions[n].list
          /\ versions[n].list \in Eligible \cup {Baseline["rule"]}

\* The week's status never claims an approval or a publication that did not happen.
WeekNotAhead ==
    /\ week = "approved" => versions # <<>>
    /\ week = "published" => \E n \in DOMAIN versions :
                                versions[n].active /\ versions[n].status = "published"

\* A published list is never changed, replaced or withdrawn: the week's daily
\* briefs and its review all speak of the same stocks.
PublishedListIsFinal ==
    [][\A n \in DOMAIN versions : versions[n].status = "published" =>
            n \in DOMAIN versions' /\ versions'[n] = versions[n]]_vars

\* The transactions implement the atomic ledger, retries of a publication being
\* steps the ledger does not see.
Ledger == INSTANCE DecisionLedger WITH
    SourceTypes <- {"rule"},
    sources <- [t \in {"rule"} |-> rule],
    approvalKeys <- approvals,
    publishKeys <- [k \in Keys |-> IF events[k] # None /\ events[k].first
                                   THEN events[k].version ELSE 0]
LedgerSpec == Ledger!Spec
=============================================================================
