---------------------------- MODULE MCDecisions ----------------------------
(***************************************************************************)
(* Small instances of Decisions.                                           *)
(***************************************************************************)
EXTENDS Decisions, TLC

CONSTANTS own, other, bad, k1, k2, a1, a2, poller, preopen

ThreeLists == {own, other, bad}
EligibleLists == {own, other}
BaselineLists == [t \in {"rule", "ai"} |-> own]
Command(source, action, list, version) ==
    [source |-> source, action |-> action, list |-> list, version |-> version]
\* Each valid command, and a stale, a mismatched and an ineligible one.
SomeCommands == {Command("rule", "accept_rule", own, 1), Command("rule", "modify", other, 1),
                 Command("rule", "reject", None, 1), Command("rule", "accept_rule", own, 2),
                 Command("rule", "accept_rule", other, 1), Command("rule", "modify", bad, 1),
                 Command("ai", "accept_ai", own, 1)}
TwoKeys == {k1, k2}
TwoAdmins == {a1, a2}
BothThreads == {poller, preopen}

Symmetry == Permutations(TwoKeys) \cup Permutations(TwoAdmins) \cup Permutations(BothThreads)
=============================================================================
