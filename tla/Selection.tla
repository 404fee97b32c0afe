----------------------------- MODULE Selection ------------------------------
(***************************************************************************)
(* The rules that select a week's list: hard gates, the peers and scores   *)
(* of a sector, the market state and the greedy portfolio.  A week's       *)
(* stocks are observed one by one, then run_v9_rules ranks them and builds *)
(* the list.  A stock is its position, in the order of codes.              *)
(*                                                                         *)
(* Data are abstracted to what the rules tell apart: the eight hard gates  *)
(* to one Boolean, the score components that no other stock influences to  *)
(* a number of points.  The feature builder of today sets no flag of a     *)
(* stock and answers every week with degraded metrics; the rules take both *)
(* as inputs, and so does this module.                                     *)
(***************************************************************************)
EXTENDS Naturals, Sequences, FiniteSets

CONSTANTS Kinds,       \* the features a stock may have
          TargetSize,  \* target_size of the portfolio (5 by default)
          PerSector,   \* maximum_per_sector (2)
          MaxPool      \* bound: stocks of a week

Flags == {"promotion", "exploration", "elastic", "hot", "unexhausted"}
Domains == {"main", "supplementary", "external"}
MarketStates == {"normal", "systemic_retreat", "breadth_recovery", "recovery_confirmed",
                 "recovery_failed", "anchor_distorted"}

ASSUME SelectionAssumption ==
    /\ \A k \in Kinds :
          /\ k.gate \in BOOLEAN /\ k.star \in BOOLEAN /\ k.up \in BOOLEAN /\ k.evidence \in BOOLEAN
          /\ k.heat \in {"no", "repaired", "over"}
          /\ k.domain \in Domains /\ k.points \in Nat /\ k.flags \subseteq Flags
    /\ TargetSize \in Nat \ {0} /\ PerSector \in Nat \ {0} /\ MaxPool \in Nat

VARIABLES pool,   \* the features of the week's stocks, in code order
          market, \* the market state of the week
          ranked, \* the eligible stocks with their scores, best first
          list    \* the stocks of the list

vars == <<pool, market, ranked, list>>

Stocks == 1 .. Len(pool)

Init ==
    /\ pool = <<>> /\ ranked = <<>> /\ list = {}
    /\ market = "normal"

-----------------------------------------------------------------------------
(* Gates and scores                                                        *)

\* evaluate_eligibility.
Bucket(f) ==
    IF ~ f.gate THEN "excluded"
    ELSE IF f.star THEN "star_reference"
    ELSE IF f.heat = "repaired" THEN "high_volatility_reserve"
    ELSE IF f.heat = "over" \/ (f.domain = "external" /\ ~ f.evidence) THEN "excluded"
    ELSE "eligible"

Eligible == {c \in Stocks : Bucket(pool[c]) = "eligible"}

\* Stocks of c's sector among S.
InSector(S, c) == {d \in S : pool[d].sector = pool[c].sector}

\* Eligible stocks of c's sector that rose are its peers and contributors, and
\* below two of them the sector counts as crowded around one anchor: three points
\* for peers, two for diffusion, one for not being crowded.
FirstScore(c) ==
    pool[c].points +
    (IF Cardinality({d \in InSector(Eligible, c) : pool[d].up}) >= 2 THEN 6 ELSE 0)

\* Mutant: the score does not count.
PrecedesByCode(x, y) == x.code < y.code

\* A higher score comes first, else the smaller code.  The keys between the two
\* are data of the stocks and are left to the order of codes.
Precedes(x, y) == x.score > y.score \/ (x.score = y.score /\ x.code < y.code)

\* The rows that precede x.
Before(rows, x) == {y \in rows : Precedes(y, x)}

\* Eligible stocks with their scores, best first: in the i-th place is the one
\* that i - 1 others precede.
RankBy(score) ==
    LET rows == {[code |-> c, score |-> score[c]] : c \in Eligible}
    IN  [i \in 1 .. Cardinality(rows) |->
            CHOOSE x \in rows : Cardinality(Before(rows, x)) = i - 1]

\* The best fifth of the eligible stocks, rounded up.
TopFifth == LET first == RankBy([c \in Stocks |-> FirstScore(c)])
            IN  {first[i].code : i \in {j \in 1 .. Len(first) : 5 * (j - 1) < Len(first)}}

\* Two more points for a sector with two stocks in the top fifth.
Ranked ==
    LET top == TopFifth
    IN  RankBy([c \in Stocks |->
                FirstScore(c) + (IF Cardinality(InSector(top, c)) >= 2 THEN 2 ELSE 0)])

\* More than half of the observed stocks rose too far (return_20d above 40%).
Overheated == 2 * Cardinality({c \in Stocks : pool[c].heat # "no"}) > Len(pool)

-----------------------------------------------------------------------------
(* The portfolio                                                           *)

BreadthRecovery == market = "breadth_recovery"
Retreat == market \in {"systemic_retreat", "recovery_failed"}

\* How many of the chosen stocks are flagged, or outside the main domain.
Flagged(chosen, flag) == Cardinality({c \in chosen : flag \in pool[c].flags})
Outside(chosen) == Cardinality({c \in chosen : pool[c].domain # "main"})
External(chosen) == Cardinality({c \in chosen : pool[c].domain = "external"})

Lesser(m, n) == IF m < n THEN m ELSE n
Missing(n, m) == IF m < n THEN n - m ELSE 0

RequiredMain(size) == IF size >= 3 THEN 3 ELSE size
RequiredUnexhausted(size) == IF Overheated THEN Lesser(2, size) ELSE 0

\* Mutant: the limit of external stocks is left to that of all outside stocks.
CapsByDomain(chosen, c, size) ==
    /\ Cardinality(InSector(chosen, c)) < PerSector
    /\ pool[c].domain # "main" => Outside(chosen) < Lesser(2, Missing(size, RequiredMain(size)))
    /\ BreadthRecovery /\ "promotion" \in pool[c].flags => Flagged(chosen, "promotion") < 2
    /\ Retreat /\ "elastic" \in pool[c].flags => Flagged(chosen, "elastic") < 1
    /\ Retreat /\ "hot" \in pool[c].flags => Flagged(chosen, "hot") < 2

\* The caps of _select_size.
FitsCaps(chosen, c, size) ==
    /\ Cardinality(InSector(chosen, c)) < PerSector
    /\ pool[c].domain # "main" => Outside(chosen) < Lesser(2, Missing(size, RequiredMain(size)))
    /\ pool[c].domain = "external" => External(chosen) < 1
    /\ BreadthRecovery /\ "promotion" \in pool[c].flags => Flagged(chosen, "promotion") < 2
    /\ Retreat /\ "elastic" \in pool[c].flags => Flagged(chosen, "elastic") < 1
    /\ Retreat /\ "hot" \in pool[c].flags => Flagged(chosen, "hot") < 2

\* Enough slots stay for the categories still required.
LeavesSlots(chosen, c, size) ==
    LET after == chosen \cup {c}
        slots == size - Cardinality(after)
    IN  /\ BreadthRecovery =>
             Missing(2, Flagged(after, "promotion")) + Missing(1, Flagged(after, "exploration"))
               <= slots
        /\ Missing(RequiredUnexhausted(size), Flagged(after, "unexhausted")) <= slots

\* Mutant: one stock of a sector is enough.
TakesOnePerSector(chosen, c, size) ==
    /\ Cardinality(chosen) < size /\ FitsCaps(chosen, c, size) /\ LeavesSlots(chosen, c, size)
    /\ Cardinality(InSector(chosen, c)) < 1

Takes(chosen, c, size) ==
    Cardinality(chosen) < size /\ FitsCaps(chosen, c, size) /\ LeavesSlots(chosen, c, size)

\* The loop of _select_size, without going back: what is chosen after each of
\* the ranking's places.
Chosen(ranking, size) ==
    LET chosen[i \in 0 .. Len(ranking)] ==
            IF i = 0 THEN {}
            ELSE LET before == chosen[i - 1]
                     c == ranking[i].code
                 IN  IF Takes(before, c, size) THEN before \cup {c} ELSE before
    IN  chosen

Pass(ranking, size) == Chosen(ranking, size)[Len(ranking)]

\* What _select_size looks at after the pass.
Accepted(chosen, size) ==
    /\ Cardinality(chosen) = size
    /\ Cardinality(chosen) - Outside(chosen) >= RequiredMain(size)
    /\ BreadthRecovery => Flagged(chosen, "promotion") = 2 /\ Flagged(chosen, "exploration") >= 1
    /\ Flagged(chosen, "unexhausted") >= RequiredUnexhausted(size)

\* build_portfolio: the first size, from the target down, that is accepted.
Portfolio(ranking) ==
    LET accepted == {Pass(ranking, n) : n \in {m \in 1 .. TargetSize : Accepted(Pass(ranking, m), m)}}
    IN  IF accepted = {} THEN {}
        ELSE CHOOSE p \in accepted : \A q \in accepted : Cardinality(q) <= Cardinality(p)

-----------------------------------------------------------------------------
(* Weeks                                                                   *)

\* What the metrics of the past week say; each is a conjunction of thresholds.
Metrics == [degraded: BOOLEAN, retreat: BOOLEAN, confirmed: BOOLEAN, breadth: BOOLEAN,
            distorted: BOOLEAN]

\* determine_market_state.
NextState(previous, m) ==
    IF m.degraded THEN previous
    ELSE IF m.retreat THEN "systemic_retreat"
    ELSE IF previous = "breadth_recovery" /\ m.confirmed THEN "recovery_confirmed"
    ELSE IF previous \in {"breadth_recovery", "recovery_confirmed"} /\ ~ m.confirmed
         THEN "recovery_failed"
    ELSE IF previous \in {"systemic_retreat", "recovery_failed"} /\ m.breadth
         THEN "breadth_recovery"
    ELSE IF m.distorted THEN "anchor_distorted"
    ELSE "normal"

\* build_rule_features: one more stock of the week's snapshot.
Observe(kind) ==
    /\ Len(pool) < MaxPool /\ ranked = <<>>
    /\ pool' = Append(pool, kind)
    /\ UNCHANGED <<market, ranked, list>>

\* run_v9_rules.
Run ==
    /\ ranked = <<>>
    /\ ranked' = Ranked
    /\ list' = Portfolio(ranked')
    /\ UNCHANGED <<pool, market>>

\* The next week begins: its state follows from the last week's, its stocks are new.
NextWeek(m) ==
    /\ market' = NextState(market, m)
    /\ pool' = <<>> /\ ranked' = <<>> /\ list' = {}

Next == \/ \E k \in Kinds : Observe(k)
        \/ Run
        \/ \E m \in Metrics : NextWeek(m)

Spec == Init /\ [][Next]_vars

-----------------------------------------------------------------------------
(* Properties                                                              *)

\* The constraints of docs/01-rule-spec-v9.md, section 6, on a list of its size.
Lawful(names) ==
    LET size == Cardinality(names)
    IN  /\ \A c \in names :
              /\ pool[c].gate /\ ~ pool[c].star /\ pool[c].heat = "no"
              /\ pool[c].domain = "external" => pool[c].evidence
              /\ Cardinality(InSector(names, c)) <= PerSector
        /\ size <= TargetSize
        /\ size - Outside(names) >= RequiredMain(size)
        /\ Outside(names) <= 2 /\ External(names) <= 1
        /\ BreadthRecovery => Flagged(names, "promotion") = 2 /\ Flagged(names, "exploration") >= 1
        /\ Retreat => Flagged(names, "elastic") <= 1 /\ Flagged(names, "hot") <= 2
        /\ Overheated => Flagged(names, "unexhausted") >= Lesser(2, size)

\* Whatever the pool and the market state, the selected list keeps every limit
\* and fills every quota of its own size, or is empty (build_portfolio).
PortfolioIsLawful == list = {} \/ Lawful(list)

\* Outside a breadth recovery, no stock that was left out could take the place of
\* one with a lower score: the single pass gives no rank away (_select_size).
BetterRanksPrevail ==
    ~ BreadthRecovery =>
        \A x, y \in {ranked[i] : i \in DOMAIN ranked} :
           x.score > y.score /\ x.code \notin list /\ y.code \in list
           => ~ Lawful((list \ {y.code}) \cup {x.code})

\* When only the limit per sector is at work (all eligible stocks are of the main
\* domain, in a market without quotas), no lawful list is longer: the shortage it
\* reports is real.
MainShortageIsReal ==
    /\ ranked # <<>>
    /\ ~ BreadthRecovery /\ ~ Retreat /\ ~ Overheated
    /\ \A c \in Eligible : pool[c].domain = "main"
    => \A other \in SUBSET Eligible : Lawful(other) => Cardinality(other) <= Cardinality(list)
=============================================================================
