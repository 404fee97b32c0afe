-------------------------- MODULE Decisions_proofs --------------------------
(***************************************************************************)
(* Proofs about Decisions: its type, that a week has one list, that the    *)
(* list is an approved one, that a published list is final, and that the   *)
(* transactions implement the atomic ledger.                               *)
(***************************************************************************)
EXTENDS Decisions, TLAPS

\* A request in flight is one that a caller may send.
RequestsAsked ==
    \A a \in Admins : request[a] # None /\ request[a].of = "approve" =>
        request[a].command \in Commands

\* The rule decision is approved when, and only when, a list was accepted, and
\* that list is all there is.
OneAcceptance ==
    /\ rule = "approved" => \E k \in Accepted : versions[1].list = approvals[k].list
    /\ rule # "approved" => Accepted = {}
    /\ \A k, l \in Accepted : k = l

\* The list comes from the rules or from the eligible stocks.
ListsAreValid ==
    \A n \in DOMAIN versions : /\ versions[n].list \in Eligible \cup {Baseline["rule"]}
                               /\ versions[n].source = "rule"
                               /\ versions[n].status \in {"approved", "published"}

\* The inductive invariant.
IInv == TypeOK /\ OneList /\ OneAcceptance /\ ListsAreValid /\ WeekNotAhead

-----------------------------------------------------------------------------
(* The operators                                                           *)

New(c) == [status |-> "approved", active |-> TRUE, source |-> c.source, list |-> c.list]

\* The first version supersedes nothing.
LEMMA FirstVersion ==
    ASSUME NEW c, versions = <<>> PROVE NextVersion(c) = <<New(c)>>
<1> DEFINE old == [n \in DOMAIN versions |->
                     IF versions[n].active
                     THEN [versions[n] EXCEPT !.active = FALSE, !.status = "superseded"]
                     ELSE versions[n]]
<1>1. old = <<>>
  <2>1. DOMAIN versions = {}
    OBVIOUS
  <2>2. old \in Seq({}) /\ Len(old) = 0
    BY <2>1
  <2>3. QED
    BY <2>2
<1>2. NextVersion(c) = Append(old, New(c))
  BY DEF NextVersion, New
<1> HIDE DEF old
<1>3. QED
  BY <1>1, <1>2

\* A list that a valid command accepts is one of the lists.
LEMMA AcceptedLists ==
    ASSUME NEW c \in Commands, Valid(c), c.action # "reject"
    PROVE  c.list \in Lists /\ c.list \in Eligible \cup {Baseline["rule"]}
  BY DecisionsAssumption DEF Commands, Valid

\* Without a list the sequence is empty, and with one it is a single record.
LEMMA VersionsShape ==
    ASSUME TypeOK, OneList
    PROVE  /\ rule # "approved" => versions = <<>>
           /\ rule = "approved" => DOMAIN versions = {1} /\ versions[1] \in VersionRecords
<1>1. versions \in Seq(VersionRecords) /\ Len(versions) = IF rule = "approved" THEN 1 ELSE 0
  BY DEF TypeOK, OneList
<1>2. QED
  BY <1>1

-----------------------------------------------------------------------------
(* The invariant                                                           *)

\* A week with nothing decided satisfies the invariant.
LEMMA InitInv == Init => IInv
<1> SUFFICES ASSUME Init PROVE IInv
  OBVIOUS
<1>1. versions = <<>> /\ rule = "absent"
  BY DEF Init
<1>2. TypeOK
  BY <1>1 DEF Init, TypeOK, WeekStates
<1>3. Accepted = {}
  BY DEF Init, Accepted
<1>4. OneList /\ ListsAreValid
  BY <1>1 DEF OneList, ListsAreValid
<1>5. OneAcceptance
  BY <1>1, <1>3 DEF OneAcceptance
<1>6. WeekNotAhead
  BY DEF Init, WeekNotAhead
<1>7. QED
  BY <1>2, <1>4, <1>5, <1>6 DEF IInv

\* An approval that is carried out: either a rejection, or the one list.
LEMMA ApproveInv == ASSUME IInv, NEW a \in Admins, ApproveCommit(a) PROVE IInv'
<1> DEFINE k == request[a].key
           c == request[a].command
<1> USE DEF IInv
<1>1. request[a] \in [of: {"approve"}, key: Keys, command: Commands]
  BY DEF TypeOK, ApproveCommit
<1>2. k \in Keys /\ c \in Commands /\ Acceptable(k, c)
  BY <1>1 DEF ApproveCommit
<1>3. rule = "awaiting_approval" /\ approvals[k] = None /\ Valid(c) /\ c.source = "rule"
  BY <1>2 DEF Acceptable
<1>4. versions = <<>> /\ Accepted = {}
  BY <1>3, VersionsShape DEF OneAcceptance
<1>5. /\ approvals' = [approvals EXCEPT ![k] = c]
      /\ request' = [request EXCEPT ![a] = None]
      /\ UNCHANGED <<events, run>>
  BY DEF ApproveCommit
<1>6. approvals \in [Keys -> Commands \cup {None}] /\ approvals'[k] = c
  BY <1>2, <1>5 DEF TypeOK
<1>7. approvals' \in [Keys -> Commands \cup {None}]
      /\ request' \in [Admins -> {None} \cup [of: {"approve"}, key: Keys, command: Commands]
                                       \cup [of: {"publish"}, key: Keys, version: Numbers]]
  BY <1>2, <1>5, <1>6 DEF TypeOK
<1>8. CASE c.action = "reject"
  <2>1. UNCHANGED <<rule, versions, week>>
    BY <1>8 DEF ApproveCommit
  <2>2. Accepted' = {}
    BY <1>2, <1>4, <1>5, <1>6, <1>8 DEF Accepted
  <2>3. TypeOK'
    BY <1>5, <1>7, <2>1 DEF TypeOK
  <2>4. OneAcceptance'
    BY <1>3, <2>1, <2>2 DEF OneAcceptance
  <2>5. OneList' /\ ListsAreValid' /\ WeekNotAhead'
    BY <2>1 DEF OneList, ListsAreValid, WeekNotAhead
  <2>6. QED
    BY <2>3, <2>4, <2>5
<1>9. CASE c.action # "reject"
  <2>1. rule' = "approved" /\ week' = "approved" /\ versions' = <<New(c)>>
    BY <1>4, <1>9, FirstVersion DEF ApproveCommit
  <2>2. c.list \in Lists /\ c.list \in Eligible \cup {Baseline["rule"]}
    BY <1>2, <1>3, <1>9, AcceptedLists
  <2>3. New(c) \in VersionRecords
    BY <1>3, <2>2 DEF New, VersionRecords
  <2>4. Len(versions') = 1 /\ DOMAIN versions' = {1} /\ versions'[1] = New(c)
        /\ versions' \in Seq(VersionRecords)
    BY <2>1, <2>3
  <2>5. TypeOK'
    BY <1>5, <1>7, <2>1, <2>4 DEF TypeOK, WeekStates
  <2>6. OneList'
    BY <2>1, <2>4 DEF OneList, New
  <2>7. Accepted' = {k}
    BY <1>2, <1>4, <1>5, <1>6, <1>9, NoneAssumption DEF Accepted
  <2>8. OneAcceptance'
    BY <1>6, <2>1, <2>4, <2>7 DEF OneAcceptance, New
  <2>9. ListsAreValid'
    BY <1>3, <2>2, <2>4 DEF ListsAreValid, New
  <2>10. WeekNotAhead'
    BY <2>1, <2>4 DEF WeekNotAhead
  <2>11. QED
    BY <2>5, <2>6, <2>8, <2>9, <2>10
<1>10. QED
  BY <1>8, <1>9

\* A publication that is carried out changes the list's status only.
LEMMA PublishInv == ASSUME IInv, NEW a \in Admins, PublishCommit(a) PROVE IInv'
<1> DEFINE k == request[a].key
           n == request[a].version
<1> USE DEF IInv
<1>1. request[a] \in [of: {"publish"}, key: Keys, version: Numbers]
  BY DEF TypeOK, PublishCommit
<1>2. k \in Keys /\ n \in Numbers /\ Publishable(k, n)
  BY <1>1 DEF PublishCommit
<1>3. /\ versions' = [versions EXCEPT ![n].status = "published"]
      /\ events' = [events EXCEPT ![k] = [version |-> n, first |-> versions[n].status = "approved"]]
      /\ week' = "published"
      /\ request' = [request EXCEPT ![a] = None]
      /\ UNCHANGED <<rule, approvals, run>>
  BY DEF PublishCommit
<1>4. rule = "approved" /\ n = 1 /\ DOMAIN versions = {1} /\ versions[1] \in VersionRecords
  BY <1>2, VersionsShape DEF Publishable
<1>5. /\ DOMAIN versions' = {1} /\ Len(versions') = 1
      /\ versions'[1] = [versions[1] EXCEPT !.status = "published"]
      /\ versions' \in Seq(VersionRecords)
  <2>1. versions \in Seq(VersionRecords) /\ Len(versions) = 1
    BY <1>4 DEF TypeOK, OneList
  <2>2. [versions[1] EXCEPT !.status = "published"] \in VersionRecords
    BY <1>4 DEF VersionRecords
  <2>3. QED
    BY <1>3, <1>4, <2>1, <2>2
<1>6. events' \in [Keys -> Events \cup {None}]
  BY <1>2, <1>3 DEF TypeOK, Events
<1>7. request' \in [Admins -> {None} \cup [of: {"approve"}, key: Keys, command: Commands]
                                   \cup [of: {"publish"}, key: Keys, version: Numbers]]
  BY <1>3 DEF TypeOK
<1>8. TypeOK'
  BY <1>3, <1>5, <1>6, <1>7 DEF TypeOK, WeekStates
<1>9. /\ versions'[1].active = versions[1].active /\ versions'[1].list = versions[1].list
      /\ versions'[1].source = versions[1].source /\ versions'[1].status = "published"
  BY <1>4, <1>5 DEF VersionRecords
<1>10. OneList' /\ ListsAreValid' /\ WeekNotAhead'
  BY <1>3, <1>4, <1>5, <1>9 DEF OneList, ListsAreValid, WeekNotAhead
<1>11. OneAcceptance'
  BY <1>3, <1>4, <1>9 DEF OneAcceptance, Accepted
<1>12. QED
  BY <1>8, <1>10, <1>11

\* Every step preserves the invariant.
LEMMA NextInv == ASSUME IInv, [Next]_vars PROVE IInv'
<1> USE DEF IInv
<1>1. CASE UNCHANGED vars
  BY <1>1 DEF vars, TypeOK, OneList, OneAcceptance, Accepted, ListsAreValid, WeekNotAhead
<1>2. ASSUME NEW a \in Admins, NEW k \in Keys, NEW c \in Asked, ApproveLookup(a, k, c)
      PROVE IInv'
  <2>1. c \in Commands
    BY AskedAssumption
  <2>2. TypeOK'
    BY <1>2, <2>1 DEF ApproveLookup, TypeOK
  <2>3. QED
    BY <1>2, <2>2 DEF ApproveLookup, OneList, OneAcceptance, Accepted, ListsAreValid, WeekNotAhead
<1>3. ASSUME NEW a \in Admins, NEW k \in Keys, NEW n \in Numbers, PublishLookup(a, k, n)
      PROVE IInv'
  <2>1. TypeOK'
    BY <1>3 DEF PublishLookup, TypeOK
  <2>2. QED
    BY <1>3, <2>1 DEF PublishLookup, OneList, OneAcceptance, Accepted, ListsAreValid, WeekNotAhead
<1>4. ASSUME NEW a \in Admins, Refuse(a) PROVE IInv'
  <2>1. TypeOK'
    BY <1>4 DEF Refuse, TypeOK
  <2>2. QED
    BY <1>4, <2>1 DEF Refuse, OneList, OneAcceptance, Accepted, ListsAreValid, WeekNotAhead
<1>5. ASSUME NEW r \in Runners, RulesRead(r) \/ RulesRollback(r) PROVE IInv'
  <2>1. TypeOK'
    BY <1>5 DEF RulesRead, RulesRollback, TypeOK
  <2>2. QED
    BY <1>5, <2>1
    DEF RulesRead, RulesRollback, OneList, OneAcceptance, Accepted, ListsAreValid, WeekNotAhead
<1>6. ASSUME NEW r \in Runners, RulesCommit(r) PROVE IInv'
  <2>1. TypeOK'
    BY <1>6 DEF RulesCommit, TypeOK, WeekStates
  <2>2. (rule' = "approved") <=> (rule = "approved")
    BY <1>6 DEF RulesCommit
  <2>3. OneList' /\ OneAcceptance' /\ ListsAreValid'
    BY <1>6, <2>2 DEF RulesCommit, OneList, OneAcceptance, Accepted, ListsAreValid
  <2>4. WeekNotAhead'
    BY <1>6 DEF RulesCommit, WeekNotAhead
  <2>5. QED
    BY <2>1, <2>3, <2>4
<1>7. QED
  BY <1>1, <1>2, <1>3, <1>4, <1>5, <1>6, ApproveInv, PublishInv DEF Next

-----------------------------------------------------------------------------
(* The theorems                                                            *)

\* In every behaviour the invariant holds throughout.
THEOREM Invariance == Spec => []IInv
<1>1. QED
  BY InitInv, NextInv, PTL DEF Spec

\* Every variable keeps its type.
THEOREM TypeCorrect == Spec => []TypeOK
<1>1. IInv => TypeOK
  BY DEF IInv
<1>2. QED
  BY <1>1, Invariance, PTL

\* However many administrators approve at once, the week gets one list.
THEOREM SingleList == Spec => []OneList
<1>1. IInv => OneList
  BY DEF IInv
<1>2. QED
  BY <1>1, Invariance, PTL

\* The list of the week is the content of the one accepting approval.
THEOREM ApprovedContent == Spec => []ListsAreApproved
<1>1. ASSUME IInv PROVE ListsAreApproved
  <2>1. \A n \in DOMAIN versions : n = 1 /\ rule = "approved"
    BY <1>1, VersionsShape DEF IInv
  <2>2. QED
    BY <1>1, <2>1 DEF IInv, OneAcceptance, ListsAreValid, ListsAreApproved
<1>2. QED
  BY <1>1, Invariance, PTL

\* The week's status never runs ahead of its decisions.
THEOREM HonestWeek == Spec => []WeekNotAhead
<1>1. IInv => WeekNotAhead
  BY DEF IInv
<1>2. QED
  BY <1>1, Invariance, PTL

\* A published list stays as it was published.
THEOREM PublicationStability == Spec => PublishedListIsFinal
<1> DEFINE Kept == \A n \in DOMAIN versions : versions[n].status = "published" =>
                      n \in DOMAIN versions' /\ versions'[n] = versions[n]
<1>1. ASSUME IInv, [Next]_vars PROVE Kept
  <2>1. CASE UNCHANGED versions
    BY <2>1
  <2>2. ASSUME NEW a \in Admins, ApproveCommit(a) PROVE Kept
    <3>1. Acceptable(request[a].key, request[a].command)
      BY <2>2 DEF ApproveCommit
    <3>2. versions = <<>>
      BY <1>1, <3>1, VersionsShape DEF Acceptable, IInv
    <3>3. QED
      BY <3>2
  <2>3. ASSUME NEW a \in Admins, PublishCommit(a) PROVE Kept
    <3>1. Publishable(request[a].key, request[a].version)
          /\ versions' = [versions EXCEPT ![request[a].version].status = "published"]
      BY <2>3 DEF PublishCommit
    <3>2. DOMAIN versions = {1} /\ versions[1] \in VersionRecords /\ request[a].version = 1
      BY <1>1, <3>1, VersionsShape DEF Publishable, IInv
    <3>3. versions \in Seq(VersionRecords)
      BY <1>1 DEF IInv, TypeOK
    <3>4. DOMAIN versions' = {1} /\ versions'[1] = [versions[1] EXCEPT !.status = "published"]
      BY <3>1, <3>2, <3>3
    <3>5. versions[1].status = "published" =>
            [versions[1] EXCEPT !.status = "published"] = versions[1]
      BY <3>2 DEF VersionRecords
    <3>6. QED
      BY <3>2, <3>4, <3>5
  <2>4. QED
    BY <1>1, <2>1, <2>2, <2>3
    DEF Next, vars, ApproveLookup, PublishLookup, Refuse, RulesRead, RulesCommit, RulesRollback
<1>2. QED
  BY <1>1, Invariance, PTL DEF Spec, PublishedListIsFinal

-----------------------------------------------------------------------------
(* The atomic ledger                                                       *)

\* What the ledger sees: the version that an event made the published one.
FirstEvent(ev, k) == IF ev[k] # None /\ ev[k].first THEN ev[k].version ELSE 0

\* A week with nothing decided is an empty ledger.
LEMMA LedgerInit == Init => Ledger!Init
  BY DEF Init, Ledger!Init

\* Storing the rule decision adds a source; running the rules again is a stutter.
LEMMA LedgerRules ==
    ASSUME NEW r \in Runners, RulesCommit(r) PROVE [Ledger!Next]_(Ledger!ledgerVars)
<1>1. UNCHANGED <<versions, approvals, events>>
  BY DEF RulesCommit
<1>2. CASE UNCHANGED rule
  BY <1>1, <1>2 DEF Ledger!ledgerVars
<1>3. CASE rule = "absent" /\ rule' = "awaiting_approval"
  <2>1. Ledger!AddSource("rule")
    BY <1>1, <1>3 DEF Ledger!AddSource
  <2>2. QED
    BY <2>1 DEF Ledger!Next
<1>4. QED
  BY <1>2, <1>3 DEF RulesCommit

\* An approval that is carried out is an atomic one.
LEMMA LedgerApprove ==
    ASSUME IInv, NEW a \in Admins, ApproveCommit(a) PROVE Ledger!Next
<1> DEFINE k == request[a].key
           c == request[a].command
<1>1. request[a] \in [of: {"approve"}, key: Keys, command: Commands]
  BY DEF IInv, TypeOK, ApproveCommit
<1>2. k \in Keys /\ c \in Commands /\ Acceptable(k, c)
  BY <1>1 DEF ApproveCommit
<1>3. rule = "awaiting_approval" /\ approvals[k] = None /\ Valid(c)
      /\ c.source = "rule" /\ c.version = 1
  BY <1>2 DEF Acceptable
<1>4. versions = <<>>
  BY <1>3, VersionsShape DEF IInv
<1>5. c \in Ledger!Commands /\ Ledger!Valid(c)
  BY <1>2, <1>3 DEF Commands, Ledger!Commands, Actions, Ledger!Actions, Valid, Ledger!Valid,
                    Ledger!Accepting
<1>6. c.action # "reject" => versions' = Ledger!NextVersion(c)
  <2> SUFFICES ASSUME c.action # "reject" PROVE versions' = Ledger!NextVersion(c)
    OBVIOUS
  <2>1. versions' = <<New(c)>>
    BY <1>4, FirstVersion DEF ApproveCommit
  <2> DEFINE old == [n \in DOMAIN versions |-> Ledger!Replaced(versions[n])]
  <2>2. old = <<>>
    <3>1. DOMAIN versions = {}
      BY <1>4
    <3>2. old \in Seq({}) /\ Len(old) = 0
      BY <3>1
    <3>3. QED
      BY <3>2
  <2>3. Ledger!NextVersion(c) = Append(old, New(c))
    BY DEF Ledger!NextVersion, New
  <2> HIDE DEF old
  <2>4. QED
    BY <2>1, <2>2, <2>3
<1>7. Ledger!Approve(k, c)
  <2>1. approvals' = [approvals EXCEPT ![k] = c] /\ UNCHANGED events
    BY DEF ApproveCommit
  <2>2. CASE c.action = "reject"
    BY <1>3, <1>5, <2>1, <2>2 DEF ApproveCommit, Ledger!Approve
  <2>3. CASE c.action # "reject"
    <3>1. rule' = "approved"
      BY <2>3 DEF ApproveCommit
    <3>2. QED
      BY <1>3, <1>5, <1>6, <2>1, <2>3, <3>1 DEF Ledger!Approve
  <2>4. QED
    BY <2>2, <2>3
<1>8. QED
  BY <1>2, <1>5, <1>7 DEF Ledger!Next

\* The first publication of a list is an atomic one, a later one is invisible.
LEMMA LedgerPublish ==
    ASSUME IInv, NEW a \in Admins, PublishCommit(a)
    PROVE  [Ledger!Next]_(Ledger!ledgerVars)
<1> DEFINE k == request[a].key
           n == request[a].version
           seen == [l \in Keys |-> FirstEvent(events, l)]
<1>1. request[a] \in [of: {"publish"}, key: Keys, version: Numbers]
  BY DEF IInv, TypeOK, PublishCommit
<1>2. k \in Keys /\ n \in Numbers /\ Publishable(k, n)
  BY <1>1 DEF PublishCommit
<1>3. /\ versions' = [versions EXCEPT ![n].status = "published"]
      /\ events' = [events EXCEPT ![k] = [version |-> n, first |-> versions[n].status = "approved"]]
      /\ UNCHANGED <<rule, approvals>>
  BY DEF PublishCommit
<1>4. events \in [Keys -> Events \cup {None}] /\ events[k] = None
      /\ versions[n].status \in {"approved", "published"} /\ n \in DOMAIN versions
  BY <1>2 DEF IInv, TypeOK, Publishable
<1>5. [version |-> n, first |-> versions[n].status = "approved"] \in Events
  BY <1>2 DEF Events
<1>6. \A l \in Keys : l # k => FirstEvent(events', l) = FirstEvent(events, l)
  BY <1>2, <1>3, <1>4 DEF FirstEvent
<1>7. FirstEvent(events, k) = 0
      /\ FirstEvent(events', k) = IF versions[n].status = "approved" THEN n ELSE 0
  BY <1>2, <1>3, <1>4, <1>5, NoneAssumption DEF FirstEvent
<1>8. CASE versions[n].status = "approved"
  <2>1. [l \in Keys |-> FirstEvent(events', l)] = [seen EXCEPT ![k] = n]
    BY <1>2, <1>6, <1>7, <1>8
  <2>2. ASSUME NEW l \in Keys, NEW m \in Numbers, l = k, m = n PROVE Ledger!Publish(l, m)
    BY <1>2, <1>3, <1>4, <1>7, <1>8, <2>1, <2>2 DEF Ledger!Publish, FirstEvent
  <2>3. \E l \in Keys, m \in Numbers : Ledger!Publish(l, m)
    BY <1>2, <2>2
  <2>4. Ledger!Next
    BY <2>3 DEF Ledger!Next
  <2>5. QED
    BY <2>4
<1>9. CASE versions[n].status = "published"
  <2>1. [l \in Keys |-> FirstEvent(events', l)] = seen
    BY <1>2, <1>6, <1>7, <1>9
  <2>2. versions' = versions
    <3>1. n = 1 /\ DOMAIN versions = {1} /\ versions[1] \in VersionRecords
          /\ versions \in Seq(VersionRecords)
      BY <1>4, VersionsShape DEF IInv, TypeOK
    <3>2. [versions[1] EXCEPT !.status = "published"] = versions[1]
      BY <1>9, <3>1 DEF VersionRecords
    <3>3. QED
      BY <1>3, <3>1, <3>2
  <2>3. QED
    BY <1>3, <2>1, <2>2 DEF Ledger!ledgerVars, FirstEvent
<1>10. QED
  BY <1>4, <1>8, <1>9

\* Every step is a step of the ledger, or one it does not see.
LEMMA LedgerStep ==
    ASSUME IInv, [Next]_vars PROVE [Ledger!Next]_(Ledger!ledgerVars)
<1>1. CASE UNCHANGED <<rule, versions, approvals, events>>
  BY <1>1 DEF Ledger!ledgerVars
<1>2. QED
  BY <1>1, LedgerRules, LedgerApprove, LedgerPublish
  DEF Next, vars, ApproveLookup, PublishLookup, Refuse, RulesRead, RulesRollback

\* The concurrent transactions implement the atomic ledger.
THEOREM Refinement == Spec => LedgerSpec
<1>1. QED
  BY LedgerInit, LedgerStep, Invariance, PTL DEF Spec, LedgerSpec, Ledger!Spec
=============================================================================
