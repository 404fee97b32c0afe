------------------------------ MODULE Watchlist ------------------------------
(***************************************************************************)
(* The users' watchlists: concurrent requests that add and remove stocks,  *)
(* and the worker's tasks that store, after the close, each user's items   *)
(* of a trading day and of the week.  A day's items may be made days later *)
(* by a catch-up, from memberships that have changed since.                *)
(*                                                                         *)
(* Time is a clock that passes, for each date d, its morning before 9:30   *)
(* (3d - 2), its trading until 15:30 (3d - 1) and its evening (3d).        *)
(***************************************************************************)
EXTENDS Naturals, Sequences, FiniteSets

CONSTANTS Users, Stocks,
          Clients,      \* concurrent API requests
          Limit,        \* how many stocks a user may follow (5 in the code)
          LastDate,     \* the calendar's last date
          OpenDates,    \* its trading days
          Week,         \* the dates of the week that is reviewed
          MinOpenDates, \* a week with fewer trading days is not reviewed (3 in the code)
          MaxMembers    \* bound: the memberships a behaviour may create

\* The calendar is finite, and the reviewed week has a trading day in it.
ASSUME WatchlistAssumption ==
    /\ LastDate \in Nat /\ Limit \in Nat /\ MinOpenDates \in Nat /\ MaxMembers \in Nat
    /\ OpenDates \subseteq 1 .. LastDate
    /\ Week \cap OpenDates # {}

VARIABLES members,  \* the memberships, in the order of their creation
          request,  \* each API request
          task,     \* the transaction of the outputs thread
          daily,    \* the users' daily items
          weekly,   \* the users' weekly items
          done,     \* dates whose daily items were committed
          clock

vars == <<members, request, task, daily, weekly, done, clock>>

Day(t) == (t + 2) \div 3
Morning(t) == t = 3 * Day(t) - 2
Cutoff(d) == 3 * d - 1
Instants == 1 .. 3 * LastDate

Never == 0          \* removed_at IS NULL
Members == [user: Users, stock: Stocks, effective: OpenDates, removed: {Never} \cup Instants]
Pairs == Users \X Stocks
DailyItems == [user: Users, stock: Stocks, date: OpenDates]
WeeklyItems == [user: Users, stock: Stocks, dates: SUBSET OpenDates]
Idle == [pc |-> "idle"]

\* Type of every variable.
TypeOK ==
    /\ members \in Seq(Members) /\ Len(members) <= MaxMembers
    /\ request \in [Clients -> {Idle} \cup [pc: {"add", "insert", "remove"}, user: Users,
                                            stock: Stocks, now: Instants]]
    /\ task \in {Idle} \cup [pc: {"daily"}, date: OpenDates, items: SUBSET DailyItems]
                       \cup [pc: {"weekly"}, items: SUBSET WeeklyItems]
    /\ daily \subseteq DailyItems
    /\ weekly \subseteq WeeklyItems
    /\ done \subseteq OpenDates
    /\ clock \in Instants

Init ==
    /\ members = <<>>
    /\ request = [c \in Clients |-> Idle]
    /\ task = Idle
    /\ daily = {} /\ weekly = {} /\ done = {}
    /\ clock = 1

-----------------------------------------------------------------------------
(* SqlWatchlistApplication                                                 *)

Active(u) == {n \in DOMAIN members : members[n].user = u /\ members[n].removed = Never}
Following(u, s) == {n \in Active(u) : members[n].stock = s}

\* Mutant: the next date, whether the exchange is open or not.
NextDate(t) == {IF Morning(t) THEN Day(t) ELSE Day(t) + 1}

\* Mutant: an addition after the open still counts for the day.
SameDay(t) == {d \in OpenDates : d >= Day(t) /\ \A e \in OpenDates : e >= Day(t) => d <= e}

\* _effective_from: today before the open, else the next trading day, if the
\* calendar has one.
EffectiveFrom(t) ==
    LET later == {d \in OpenDates : d > Day(t) \/ (d = Day(t) /\ Morning(t))}
    IN  {d \in later : \A e \in later : d <= e}

Begin(c, pc, u, s) ==
    /\ request[c] = Idle
    /\ request' = [request EXCEPT ![c] = [pc |-> pc, user |-> u, stock |-> s, now |-> clock]]
    /\ UNCHANGED <<members, task, daily, weekly, done, clock>>

\* Mutant: the count is taken without the lock on the user's row.
AddUnlocked(c) ==
    LET u == request[c].user
    IN  /\ request[c].pc = "add"
        /\ IF Following(u, request[c].stock) # {} \/ Cardinality(Active(u)) >= Limit
              \/ EffectiveFrom(request[c].now) = {}
           THEN request' = [request EXCEPT ![c] = Idle]
           ELSE request' = [request EXCEPT ![c].pc = "insert"]
        /\ UNCHANGED <<members, task, daily, weekly, done, clock>>

\* The request holds the lock on its user's row from here to its insert; it ends
\* here if the stock is followed, the list is full or the calendar ends.
Add(c) ==
    LET u == request[c].user
    IN  /\ request[c].pc = "add"
        /\ \A b \in Clients : request[b].pc = "insert" => request[b].user # u
        /\ IF Following(u, request[c].stock) # {} \/ Cardinality(Active(u)) >= Limit
              \/ EffectiveFrom(request[c].now) = {}
           THEN request' = [request EXCEPT ![c] = Idle]
           ELSE request' = [request EXCEPT ![c].pc = "insert"]
        /\ UNCHANGED <<members, task, daily, weekly, done, clock>>

\* uq_user_watchlist_active_stock holds for the new row.
AddInsert(c) ==
    /\ request[c].pc = "insert"
    /\ Following(request[c].user, request[c].stock) = {}
    /\ Len(members) < MaxMembers
    /\ \E d \in EffectiveFrom(request[c].now) :
          members' = Append(members, [user |-> request[c].user, stock |-> request[c].stock,
                                      effective |-> d, removed |-> Never])
    /\ request' = [request EXCEPT ![c] = Idle]
    /\ UNCHANGED <<task, daily, weekly, done, clock>>

\* The membership keeps its row and gets the time the request began.
Remove(c) ==
    /\ request[c].pc = "remove"
    /\ LET n == Following(request[c].user, request[c].stock)
       IN  members' = [m \in DOMAIN members |->
                          IF m \in n THEN [members[m] EXCEPT !.removed = request[c].now]
                                     ELSE members[m]]
    /\ request' = [request EXCEPT ![c] = Idle]
    /\ UNCHANGED <<task, daily, weekly, done, clock>>

\* A request's transaction is rolled back.
Rollback(c) ==
    /\ request[c] # Idle
    /\ request' = [request EXCEPT ![c] = Idle]
    /\ UNCHANGED <<members, task, daily, weekly, done, clock>>

-----------------------------------------------------------------------------
(* generate_watchlist_daily_items, generate_watchlist_weekly_items         *)

\* ASSUMED: the market data refresh before a task's read outlasts the requests
\* that began before the close.
Settled(d) == \A c \in Clients : request[c] # Idle => request[c].now > Cutoff(d)

\* Mutant: a membership that has ended is forgotten.
StillFollows(m, d) == m.effective <= d /\ m.removed = Never

Follows(m, d) == m.effective <= d /\ (m.removed # Never => m.removed > Cutoff(d))

DailyRead(d) ==
    /\ task = Idle
    /\ clock > Cutoff(d) /\ Settled(d)
    /\ task' = [pc |-> "daily", date |-> d,
                items |-> {[user |-> members[n].user, stock |-> members[n].stock, date |-> d] :
                              n \in {k \in DOMAIN members : Follows(members[k], d)}}]
    /\ UNCHANGED <<members, request, daily, weekly, done, clock>>

DailyWrite ==
    /\ task.pc = "daily"
    /\ daily' = daily \cup task.items
    /\ done' = done \cup {task.date}
    /\ task' = Idle
    /\ UNCHANGED <<members, request, weekly, clock>>

WeekDates == Week \cap OpenDates
LastOpen == CHOOSE d \in WeekDates : \A e \in WeekDates : e <= d

\* Mutant: the whole week is evaluated.
WholeWeek(m) == IF m.effective <= LastOpen THEN WeekDates ELSE {}

\* The days of the week that a membership is evaluated on.
FinalDates(m) == {d \in WeekDates : Follows(m, d)}

\* One item for each user and stock, of one of their memberships (the query has no
\* order); a membership without prices is left out.
WeeklyRead ==
    LET items == {[user |-> members[n].user, stock |-> members[n].stock,
                   dates |-> FinalDates(members[n])] :
                     n \in {k \in DOMAIN members : FinalDates(members[k]) # {}}}
    IN  /\ task = Idle
        /\ clock > Cutoff(LastOpen) /\ Settled(LastOpen)
        /\ Cardinality(WeekDates) >= MinOpenDates
        /\ \E chosen \in SUBSET items :
              /\ \A i, j \in chosen : i.user = j.user /\ i.stock = j.stock => i = j
              /\ task' = [pc |-> "weekly", items |-> chosen]
        /\ UNCHANGED <<members, request, daily, weekly, done, clock>>

\* What an earlier review stored stays.
WeeklyWrite ==
    /\ task.pc = "weekly"
    /\ weekly' = weekly \cup {i \in task.items :
                                 \A j \in weekly : i.user = j.user => i.stock # j.stock}
    /\ task' = Idle
    /\ UNCHANGED <<members, request, daily, done, clock>>

\* An observation cannot be built, or the worker dies: nothing is stored.
TaskFails ==
    /\ task # Idle
    /\ task' = Idle
    /\ UNCHANGED <<members, request, daily, weekly, done, clock>>

\* ASSUMED: no request lasts from one part of a day through all of the next.
Tick ==
    /\ clock < 3 * LastDate
    /\ \A c \in Clients : request[c] # Idle => request[c].now = clock
    /\ clock' = clock + 1
    /\ UNCHANGED <<members, request, task, daily, weekly, done>>

Next ==
    \/ \E c \in Clients :
          \/ \E u \in Users, s \in Stocks : Begin(c, "add", u, s) \/ Begin(c, "remove", u, s)
          \/ Add(c) \/ AddInsert(c) \/ Remove(c) \/ Rollback(c)
    \/ \E d \in OpenDates : DailyRead(d)
    \/ DailyWrite \/ WeeklyRead \/ WeeklyWrite \/ TaskFails \/ Tick

Spec == Init /\ [][Next]_vars

-----------------------------------------------------------------------------
(* Properties                                                              *)

\* No user follows more stocks than the limit, or one stock twice, however many
\* additions and removals race.
FollowLimit ==
    \A u \in Users :
        /\ Cardinality(Active(u)) <= Limit
        /\ \A s \in Stocks : Cardinality(Following(u, s)) <= 1

\* The user followed the stock when date d closed: one of the memberships had
\* taken effect and had not ended by 15:30.
FollowedAtClose(u, s, d) ==
    \E n \in DOMAIN members :
        /\ members[n].user = u /\ members[n].stock = s
        /\ members[n].effective <= d
        /\ ~ (members[n].removed \in 1 .. Cutoff(d))

\* A day's items, whenever they are made, are and stay those of the stocks
\* followed at that day's close: later changes of the list neither add nor hide one.
DailyItemsExact ==
    \A d \in done, u \in Users, s \in Stocks :
        [user |-> u, stock |-> s, date |-> d] \in daily <=> FollowedAtClose(u, s, d)

\* Replacing stocks around the close gives no user more items than the limit.
DailyWithinLimit ==
    \A u \in Users, d \in OpenDates :
        Cardinality({i \in daily : i.user = u /\ i.date = d}) <= Limit

\* A user's weekly item of a stock is unique and speaks of days on which that
\* user followed that stock only.
WeeklyWithinMembership ==
    \A i \in weekly :
        /\ \A d \in i.dates : FollowedAtClose(i.user, i.stock, d)
        /\ \A j \in weekly : i.user = j.user /\ i.stock = j.stock => i = j
=============================================================================
