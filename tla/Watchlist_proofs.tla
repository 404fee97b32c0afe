-------------------------- MODULE Watchlist_proofs --------------------------
(***************************************************************************)
(* Proofs about Watchlist: types, the limit on what a user follows, and    *)
(* that what is stored of a day or a week is what the user followed at the *)
(* close, however late it is made.  They hold for any number of users,     *)
(* stocks, requests and dates.                                             *)
(***************************************************************************)
EXTENDS Watchlist, FiniteSetTheorems, WellFoundedInduction, TLAPS

\* A user's memberships at the close of a day.
AtClose(u, d) == {n \in DOMAIN members : /\ members[n].user = u
                                         /\ members[n].effective <= d
                                         /\ ~ (members[n].removed \in 1 .. Cutoff(d))}

\* An addition that is about to be inserted has the user's list for itself, and the
\* count it made still holds: removals only make room.
InsertReady ==
    \A c \in Clients : request[c].pc = "insert" =>
        /\ \A b \in Clients : request[b].pc = "insert" /\ request[b].user = request[c].user => b = c
        /\ Following(request[c].user, request[c].stock) = {}
        /\ Cardinality(Active(request[c].user)) < Limit

\* Times: nothing was removed in the future, and no request is older than the part
\* of the day before this one.
Timely ==
    /\ \A n \in DOMAIN members : members[n].removed <= clock
    /\ \A c \in Clients : request[c] # Idle => request[c].now <= clock /\ clock <= request[c].now + 1

\* The close of a day is behind every request.
Past(d) == clock > Cutoff(d) /\ Settled(d)

\* At the close of any day gone by no user had more memberships than the limit.
CloseLimit == \A u \in Users, d \in OpenDates :
    clock > Cutoff(d) => Cardinality(AtClose(u, d)) <= Limit

\* The items of a day, in the transaction that makes them and when they are stored.
ItemsOf(items, d) ==
    /\ \A u \in Users, s \in Stocks :
          [user |-> u, stock |-> s, date |-> d] \in items <=> FollowedAtClose(u, s, d)
Daily ==
    /\ \A i \in daily : i.date \in done
    /\ \A d \in done : Past(d) /\ ItemsOf(daily, d)
    /\ task.pc = "daily" => /\ Past(task.date) /\ ItemsOf(task.items, task.date)
                            /\ \A i \in task.items : i.date = task.date

\* The items of the week.
WeekItems(items) ==
    /\ \A i \in items : i.dates \subseteq WeekDates
                        /\ \A d \in i.dates : FollowedAtClose(i.user, i.stock, d)
    /\ \A i, j \in items : i.user = j.user /\ i.stock = j.stock => i = j
Weekly ==
    /\ weekly # {} => Past(LastOpen)
    /\ WeekItems(weekly)
    /\ task.pc = "weekly" => Past(LastOpen) /\ WeekItems(task.items)

\* The inductive invariant.
IInv == TypeOK /\ FollowLimit /\ InsertReady /\ Timely /\ CloseLimit /\ Daily /\ Weekly

-----------------------------------------------------------------------------
(* Operators                                                               *)

\* A finite set of dates that is not empty has a last one.
LEMMA LastOpenFacts == LastOpen \in WeekDates /\ \A d \in WeekDates : d <= LastOpen
<1>1. WeekDates \subseteq Nat /\ WeekDates # {} /\ IsFiniteSet(WeekDates)
  <2>1. WeekDates \in SUBSET (1 .. LastDate) /\ WeekDates # {} /\ LastDate \in Nat
    BY WatchlistAssumption DEF WeekDates
  <2>2. IsFiniteSet(1 .. LastDate)
    BY <2>1, FS_Interval
  <2>3. IsFiniteSet(WeekDates)
    BY <2>1, <2>2, FS_Subset
  <2> QED
    BY <2>1, <2>3
<1> DEFINE Later(d) == {e \in WeekDates : e > d}
           T == {Later(d) : d \in WeekDates}
<1>2. IsWellFoundedOn(StrictSubsetOrdering(WeekDates), SUBSET WeekDates)
  BY <1>1, FS_StrictSubsetOrderingWellFounded, FS_FiniteSubsetsOfFinite
<1>3. PICK x \in T : \A y \in T : <<y, x>> \notin StrictSubsetOrdering(WeekDates)
  <2>1. T \subseteq SUBSET WeekDates /\ T # {}
    BY <1>1
  <2> HIDE DEF T
  <2> QED
    BY <1>2, <2>1, WFMin
<1>4. PICK d \in WeekDates : x = Later(d)
  OBVIOUS
<1>5. ASSUME NEW e \in WeekDates, e > d
      PROVE  FALSE
  <2>1. Later(e) \subseteq Later(d) /\ Later(e) # Later(d)
    <3>1. d \in Nat /\ e \in Nat /\ \A y \in WeekDates : y \in Nat
      BY <1>1
    <3>2. \A y \in WeekDates : y > e => y > d
      BY <1>5, <3>1
    <3>3. e \in Later(d) /\ e \notin Later(e)
      BY <1>5, <3>1
    <3> QED
      BY <3>2, <3>3
  <2>2. <<Later(e), Later(d)>> \in StrictSubsetOrdering(WeekDates)
    BY <2>1 DEF StrictSubsetOrdering
  <2> QED
    BY <1>3, <1>4, <2>2
<1>6. \A e \in WeekDates : e <= d
  BY <1>1, <1>5
<1> QED
  BY <1>6 DEF LastOpen

\* Trading days are numbers, and no instant is "never".
LEMMA DatesAreNumbers == OpenDates \subseteq Nat /\ Instants \subseteq Nat \ {Never}
BY WatchlistAssumption DEF Instants, Never

\* A stock that is added at or after the close takes effect on a later day.
LEMMA AddedLater ==
    ASSUME NEW t \in Nat, NEW d \in Nat, t >= Cutoff(d), NEW e \in EffectiveFrom(t)
    PROVE  e \in OpenDates /\ e > d
<1>1. e \in OpenDates /\ e \in Nat /\ (e > Day(t) \/ (e = Day(t) /\ Morning(t)))
  BY WatchlistAssumption DEF EffectiveFrom
<1>2. Day(t) >= d /\ (Morning(t) => Day(t) > d)
  BY DEF Cutoff, Day, Morning
<1>3. Day(t) \in Nat
  BY DEF Day
<1> QED
  BY <1>1, <1>2, <1>3

\* The memberships and their parts.
LEMMA MemberFacts ==
    ASSUME TypeOK
    PROVE  /\ DOMAIN members = 1 .. Len(members) /\ Len(members) \in Nat
           /\ IsFiniteSet(DOMAIN members)
           /\ \A n \in DOMAIN members : members[n] \in Members
           /\ \A n \in DOMAIN members :
                 /\ members[n].user \in Users /\ members[n].stock \in Stocks
                 /\ members[n].effective \in OpenDates /\ members[n].effective \in Nat
                 /\ members[n].removed \in {Never} \cup Instants /\ members[n].removed \in Nat
<1>1. members \in Seq(Members)
  BY DEF TypeOK
<1>2. DOMAIN members = 1 .. Len(members) /\ Len(members) \in Nat
      /\ \A n \in DOMAIN members : members[n] \in Members
  BY <1>1
<1>3. IsFiniteSet(1 .. Len(members))
  BY <1>2, FS_Interval
<1>4. OpenDates \subseteq Nat /\ Instants \subseteq Nat /\ Never \in Nat
  BY WatchlistAssumption DEF Instants, Never
<1>5. ASSUME NEW n \in DOMAIN members
      PROVE  /\ members[n].user \in Users /\ members[n].stock \in Stocks
             /\ members[n].effective \in OpenDates
             /\ members[n].removed \in {Never} \cup Instants
  <2>1. members[n] \in Members
    BY <1>2
  <2> QED
    BY <2>1 DEF Members
<1> QED
  BY <1>2, <1>3, <1>4, <1>5

\* Every selection of memberships is a finite set.
LEMMA FiniteParts ==
    ASSUME TypeOK
    PROVE  /\ \A u : IsFiniteSet(Active(u)) /\ Cardinality(Active(u)) \in Nat
           /\ \A u, s : IsFiniteSet(Following(u, s)) /\ Following(u, s) \subseteq Active(u)
           /\ \A u, d : IsFiniteSet(AtClose(u, d)) /\ Cardinality(AtClose(u, d)) \in Nat
<1>1. IsFiniteSet(DOMAIN members)
  BY MemberFacts
<1>2. ASSUME NEW u
      PROVE  Active(u) \in SUBSET DOMAIN members
  BY DEF Active
<1>3. ASSUME NEW u, NEW s
      PROVE  Following(u, s) \in SUBSET DOMAIN members /\ Following(u, s) \subseteq Active(u)
  BY DEF Active, Following
<1>4. ASSUME NEW u, NEW d
      PROVE  AtClose(u, d) \in SUBSET DOMAIN members
  BY DEF AtClose
<1> QED
  BY <1>1, <1>2, <1>3, <1>4, FS_Subset, FS_CardinalityType

\* A user followed a stock at the close by one of the memberships of that time.
LEMMA FollowedBy ==
    ASSUME NEW u, NEW s, NEW d
    PROVE  FollowedAtClose(u, s, d) <=> \E n \in AtClose(u, d) : members[n].stock = s
BY DEF FollowedAtClose, AtClose

\* The query's condition is that of the close.
LEMMA FollowsAtClose ==
    ASSUME TypeOK, NEW n \in DOMAIN members, NEW d \in OpenDates
    PROVE  Follows(members[n], d) <=> n \in AtClose(members[n].user, d)
<1>1. members[n].removed \in Nat /\ members[n].effective \in Nat /\ d \in Nat /\ Cutoff(d) \in Nat
  BY MemberFacts, WatchlistAssumption DEF Cutoff
<1> QED
  BY <1>1 DEF Follows, AtClose, Never

-----------------------------------------------------------------------------
(* What an addition and a removal change                                   *)

\* A membership is added that takes effect later than some days.
LEMMA Added ==
    ASSUME TypeOK, NEW new \in Members, new.removed = Never, members' = Append(members, new)
    PROVE  LET k == Len(members) + 1
           IN  /\ members' \in Seq(Members) /\ Len(members') = k
               /\ k \notin DOMAIN members /\ DOMAIN members' = DOMAIN members \cup {k}
               /\ members'[k] = new
               /\ \A n \in DOMAIN members : members'[n] = members[n]
               /\ Active(new.user)' = Active(new.user) \cup {k}
               /\ \A u : u # new.user => Active(u)' = Active(u)
               /\ \A u, s : <<u, s>> # <<new.user, new.stock>> => Following(u, s)' = Following(u, s)
               /\ Following(new.user, new.stock)' = Following(new.user, new.stock) \cup {k}
               /\ \A u, d : d \in Nat /\ new.effective > d => AtClose(u, d)' = AtClose(u, d)
<1> DEFINE k == Len(members) + 1
<1>0. new.effective \in Nat
  <2>1. new.effective \in OpenDates
    BY DEF Members
  <2> QED
    BY <2>1, DatesAreNumbers
<1>1. members \in Seq(Members)
  BY DEF TypeOK
<1>2. /\ members' \in Seq(Members) /\ Len(members') = k
      /\ k \notin DOMAIN members /\ DOMAIN members' = DOMAIN members \cup {k}
      /\ members'[k] = new /\ \A n \in DOMAIN members : members'[n] = members[n]
  BY <1>1
<1> HIDE DEF k
<1>3. \A u : Active(u)' = IF u = new.user THEN Active(u) \cup {k} ELSE Active(u)
  BY <1>2 DEF Active
<1>4. \A u, s : Following(u, s)' = IF u = new.user /\ s = new.stock THEN Following(u, s) \cup {k}
                                                                    ELSE Following(u, s)
  BY <1>2, <1>3 DEF Following, Active
<1>5. ASSUME NEW u, NEW d \in Nat, new.effective > d
      PROVE  AtClose(u, d)' = AtClose(u, d)
  <2>1. ~ (new.effective <= d)
    BY <1>0, <1>5
  <2> QED
    BY <1>2, <2>1 DEF AtClose
<1> QED
  BY <1>2, <1>3, <1>4, <1>5 DEF k

\* The active memberships of a stock are ended.
Ended(u, s, t) ==
    members' = [m \in DOMAIN members |->
                   IF m \in Following(u, s) THEN [members[m] EXCEPT !.removed = t]
                                            ELSE members[m]]

\* A removal ends memberships, and adds none to what anybody follows or followed.
LEMMA Removed ==
    ASSUME TypeOK, NEW u \in Users, NEW s \in Stocks, NEW t \in Instants, Ended(u, s, t)
    PROVE  /\ members' \in Seq(Members) /\ Len(members') = Len(members)
           /\ DOMAIN members' = DOMAIN members
           /\ \A n \in DOMAIN members : members'[n].stock = members[n].stock
           /\ \A n \in DOMAIN members : members'[n].removed \in {members[n].removed, t}
           /\ \A v : Active(v)' \subseteq Active(v)
           /\ \A v, r : Following(v, r)' \subseteq Following(v, r)
           /\ \A v, d : d \in OpenDates => AtClose(v, d)' \subseteq AtClose(v, d)
           /\ \A v, d : d \in OpenDates /\ t > Cutoff(d) => AtClose(v, d)' = AtClose(v, d)
<1> DEFINE f == Following(u, s)
<1>1. members \in Seq(Members)
  BY DEF TypeOK
<1>2. \A n \in DOMAIN members : members[n] \in Members
  BY <1>1
<1>3. ASSUME NEW n \in DOMAIN members
      PROVE  /\ members'[n] \in Members
             /\ members'[n].user = members[n].user /\ members'[n].stock = members[n].stock
             /\ members'[n].effective = members[n].effective
             /\ n \in f => members'[n].removed = t /\ members[n].removed = Never
             /\ n \notin f => members'[n].removed = members[n].removed
  <2>1. members[n] \in Members
    BY <1>2
  <2>2. CASE n \in f
    <3>1. members'[n] = [members[n] EXCEPT !.removed = t]
      BY <2>2 DEF Ended
    <3>2. members[n].removed = Never
      BY <2>2 DEF Following, Active
    <3> QED
      BY <2>1, <2>2, <3>1, <3>2 DEF Members
  <2>3. CASE n \notin f
    <3>1. members'[n] = members[n]
      BY <2>3 DEF Ended
    <3> QED
      BY <2>1, <2>3, <3>1
  <2> QED
    BY <2>2, <2>3
<1> HIDE DEF f
<1>4. members' \in Seq(Members) /\ Len(members') = Len(members) /\ DOMAIN members' = DOMAIN members
  <2>1. members' \in [1 .. Len(members) -> Members] /\ Len(members) \in Nat
    BY <1>1, <1>3 DEF Ended
  <2> QED
    BY <1>1, <2>1
<1>5. t \in Nat /\ t # Never
  BY WatchlistAssumption DEF Instants, Never
<1>6. \A v : Active(v)' \subseteq Active(v)
  BY <1>3, <1>4, <1>5 DEF Active
<1>7. \A v, r : Following(v, r)' \subseteq Following(v, r)
  <2>1. ASSUME NEW v, NEW r, NEW n \in Following(v, r)'
        PROVE  n \in Following(v, r)
    <3>1. n \in Active(v)' /\ members'[n].stock = r
      BY DEF Following
    <3>2. n \in Active(v) /\ n \in DOMAIN members
      BY <1>6, <3>1 DEF Active
    <3> QED
      BY <1>3, <3>1, <3>2 DEF Following
  <2> QED
    BY <2>1
<1>8. ASSUME NEW v, NEW d \in OpenDates
      PROVE  /\ AtClose(v, d)' \subseteq AtClose(v, d)
             /\ t > Cutoff(d) => AtClose(v, d)' = AtClose(v, d)
  <2>1. Cutoff(d) \in Nat /\ Never \notin 1 .. Cutoff(d) /\ (t > Cutoff(d) => t \notin 1 .. Cutoff(d))
    BY <1>5, WatchlistAssumption DEF Cutoff, Never
  <2>2. AtClose(v, d)' \subseteq AtClose(v, d)
    BY <1>3, <1>4, <2>1 DEF AtClose
  <2>3. ASSUME t > Cutoff(d), NEW n \in AtClose(v, d)
        PROVE  n \in AtClose(v, d)'
    BY <1>3, <1>4, <2>1, <2>3 DEF AtClose
  <2> QED
    BY <2>2, <2>3
<1> QED
  BY <1>3, <1>4, <1>6, <1>7, <1>8

-----------------------------------------------------------------------------
(* What later steps leave alone                                            *)

Open == [pc: {"add", "insert", "remove"}, user: Users, stock: Stocks, now: Instants]

\* A request under way has a user, a stock and a time.
LEMMA OpenFacts ==
    ASSUME TypeOK, NEW c \in Clients, request[c].pc # "idle"
    PROVE  /\ request[c] \in Open /\ request[c] # Idle
           /\ request[c].user \in Users /\ request[c].stock \in Stocks
           /\ request[c].now \in Instants /\ request[c].now \in Nat
<1>1. request[c] \in {Idle} \cup Open
  BY DEF TypeOK, Open
<1>2. request[c] \in Open /\ request[c] # Idle
  BY <1>1 DEF Idle
<1>3. request[c].now \in Instants /\ request[c].user \in Users /\ request[c].stock \in Stocks
  BY <1>2 DEF Open
<1> QED
  BY <1>2, <1>3, DatesAreNumbers

\* Whoever is not idle has begun.
LEMMA BegunFacts ==
    ASSUME TypeOK, NEW c \in Clients, request[c] # Idle
    PROVE  request[c].pc # "idle" /\ request[c].now \in Nat
<1>1. request[c] \in Open
  BY DEF TypeOK, Open
<1>2. request[c].pc # "idle" /\ request[c].now \in Instants
  BY <1>1 DEF Open
<1> QED
  BY <1>2, DatesAreNumbers

\* A request that is open after a step begins in it, or was open before.
RequestsAge ==
    \A c \in Clients : request'[c] # Idle =>
        \/ request'[c].now = clock
        \/ request[c] # Idle /\ request'[c].now = request[c].now

\* What is behind every request stays behind it.
LEMMA PastKept ==
    ASSUME TypeOK, RequestsAge, clock' \in {clock, clock + 1}, NEW d \in Nat, Past(d)
    PROVE  Past(d)'
<1>1. clock \in Nat /\ Cutoff(d) \in Int
  BY DatesAreNumbers DEF TypeOK, Cutoff
<1>2. clock' > Cutoff(d)
  BY <1>1 DEF Past
<1>3. ASSUME NEW c \in Clients, request'[c] # Idle
      PROVE  request'[c].now > Cutoff(d)
  BY <1>1, <1>3 DEF Past, Settled, RequestsAge
<1> QED
  BY <1>2, <1>3 DEF Past, Settled, Cutoff

\* The days of a week that is over are past.
LEMMA WeekIsPast ==
    ASSUME TypeOK, Past(LastOpen), NEW d \in WeekDates
    PROVE  d \in OpenDates /\ Past(d)
<1>1. d \in OpenDates /\ LastOpen \in OpenDates
  BY LastOpenFacts DEF WeekDates
<1>2. d \in Nat /\ LastOpen \in Nat /\ d <= LastOpen /\ clock \in Nat
  BY <1>1, LastOpenFacts, DatesAreNumbers DEF TypeOK
<1>3. Cutoff(d) <= Cutoff(LastOpen) /\ Cutoff(d) \in Int /\ Cutoff(LastOpen) \in Int
  BY <1>2 DEF Cutoff
<1>4. ASSUME NEW c \in Clients, request[c] # Idle
      PROVE  request[c].now > Cutoff(d)
  <2>1. request[c].now \in Nat
    BY <1>4, BegunFacts
  <2> QED
    BY <1>3, <1>4, <2>1 DEF Past, Settled
<1> QED
  BY <1>1, <1>2, <1>3, <1>4 DEF Past, Settled

\* A step that changes the memberships of no past day keeps what the outputs say.
LEMMA OutputsKept ==
    ASSUME TypeOK, Daily, Weekly, UNCHANGED <<task, daily, weekly, done>>,
           \A d \in OpenDates : Past(d) =>
              Past(d)' /\ \A u, s : FollowedAtClose(u, s, d)' <=> FollowedAtClose(u, s, d)
    PROVE  Daily' /\ Weekly'
<1>1. ASSUME NEW d \in OpenDates, Past(d), NEW items, ItemsOf(items, d)
      PROVE  \A u \in Users, s \in Stocks :
                [user |-> u, stock |-> s, date |-> d] \in items <=> FollowedAtClose(u, s, d)'
  BY <1>1 DEF ItemsOf
<1>2. ASSUME Past(LastOpen), NEW items, WeekItems(items)
      PROVE  /\ \A i \in items : i.dates \subseteq WeekDates
                                 /\ \A d \in i.dates : FollowedAtClose(i.user, i.stock, d)'
             /\ \A i, j \in items : i.user = j.user /\ i.stock = j.stock => i = j
  BY <1>2, WeekIsPast DEF WeekItems
<1>3. done \subseteq OpenDates /\ LastOpen \in OpenDates
  BY LastOpenFacts DEF TypeOK, WeekDates
<1>4. task.pc = "daily" => task.date \in OpenDates
  BY DEF TypeOK, Idle
<1>5. Daily'
  <2>1. \A d \in done' : Past(d)' /\ ItemsOf(daily, d)'
    BY <1>1, <1>3 DEF Daily, ItemsOf
  <2>2. task'.pc = "daily" => Past(task.date)' /\ ItemsOf(task.items, task.date)'
    BY <1>1, <1>4 DEF Daily, ItemsOf
  <2> QED
    BY <2>1, <2>2 DEF Daily
<1>6. Weekly'
  <2>1. weekly' # {} => Past(LastOpen)'
    BY <1>3 DEF Weekly
  <2>2. WeekItems(weekly)'
    BY <1>2 DEF Weekly, WeekItems
  <2>3. task'.pc = "weekly" => Past(LastOpen)' /\ WeekItems(task.items)'
    BY <1>2, <1>3 DEF Weekly, WeekItems
  <2> QED
    BY <2>1, <2>2, <2>3 DEF Weekly
<1> QED
  BY <1>5, <1>6

-----------------------------------------------------------------------------
(* The steps                                                               *)

\* At first there is nothing.
LEMMA InitInv == Init => IInv
<1> SUFFICES ASSUME Init PROVE IInv
  OBVIOUS
<1>1. members = <<>> /\ task = Idle /\ daily = {} /\ weekly = {} /\ done = {} /\ clock = 1
      /\ request = [c \in Clients |-> Idle]
  BY DEF Init
<1>2. TypeOK
  <2>1. LastDate \in Nat /\ MaxMembers \in Nat /\ LastOpen \in 1 .. LastDate
    BY WatchlistAssumption, LastOpenFacts DEF WeekDates
  <2>2. clock \in Instants
    BY <1>1, <2>1 DEF Instants
  <2>3. members \in Seq(Members) /\ Len(members) <= MaxMembers
    BY <1>1, <2>1
  <2> QED
    BY <1>1, <2>2, <2>3 DEF TypeOK
<1>3. \A u : Active(u) = {} /\ \A s : Following(u, s) = {}
  BY <1>1 DEF Active, Following
<1>4. \A u, d : AtClose(u, d) = {}
  BY <1>1 DEF AtClose
<1>5. Cardinality({}) <= Limit /\ Cardinality({}) <= 1
  BY WatchlistAssumption, FS_EmptySet
<1>6. FollowLimit /\ CloseLimit
  BY <1>3, <1>4, <1>5 DEF FollowLimit, CloseLimit
<1>7. InsertReady /\ Timely
  BY <1>1 DEF InsertReady, Timely, Idle
<1>8. Daily /\ Weekly
  BY <1>1 DEF Daily, Weekly, WeekItems, Idle
<1> QED
  BY <1>2, <1>6, <1>7, <1>8 DEF IInv

\* A step of a request that touches nothing else.
LEMMA RequestStep ==
    ASSUME IInv, UNCHANGED <<members, task, daily, weekly, done, clock>>,
           request' \in [Clients -> {Idle} \cup Open], RequestsAge, InsertReady'
    PROVE  IInv'
<1> USE DEF IInv
<1>1. TypeOK'
  BY DEF TypeOK, Open
<1>2. FollowLimit' /\ CloseLimit'
  BY DEF FollowLimit, CloseLimit, Following, Active, AtClose
<1>3. Timely'
  <2>1. clock \in Nat
    BY DatesAreNumbers DEF TypeOK
  <2> QED
    BY <2>1 DEF Timely, RequestsAge
<1>4. Daily' /\ Weekly'
  <2>1. \A d \in OpenDates : Past(d) => Past(d)'
    BY PastKept, DatesAreNumbers
  <2>2. \A u, s, d : FollowedAtClose(u, s, d)' <=> FollowedAtClose(u, s, d)
    BY DEF FollowedAtClose
  <2> QED
    BY <2>1, <2>2, OutputsKept
<1> QED
  BY <1>1, <1>2, <1>3, <1>4

\* The readiness of a request that a step does not touch, when it touches neither
\* the memberships nor lets another one of the user in.
LEMMA ReadyKept ==
    ASSUME IInv, UNCHANGED members,
           \A c \in Clients : request'[c].pc = "insert" => request'[c] = request[c]
    PROVE  InsertReady'
<1>1. \A v, r : Active(v)' = Active(v) /\ Following(v, r)' = Following(v, r)
  BY DEF Active, Following
<1>2. \A c \in Clients : request'[c].pc = "insert" => request'[c] = request[c]
  OBVIOUS
<1> QED
  BY <1>1, <1>2, Zenon DEF IInv, InsertReady

\* A request begins.
LEMMA BeginInv ==
    ASSUME IInv, NEW c \in Clients, NEW pc \in {"add", "remove"}, NEW u \in Users,
           NEW s \in Stocks, Begin(c, pc, u, s)
    PROVE  IInv'
<1> DEFINE new == [pc |-> pc, user |-> u, stock |-> s, now |-> clock]
<1>1. /\ request' = [request EXCEPT ![c] = new]
      /\ UNCHANGED <<members, task, daily, weekly, done, clock>>
  BY DEF Begin
<1>2. request \in [Clients -> {Idle} \cup Open] /\ clock \in Instants
  BY DEF IInv, TypeOK, Open
<1>3. new \in Open /\ new.pc # "insert" /\ new.now = clock
  BY <1>2 DEF Open
<1> HIDE DEF new
<1>4. request' \in [Clients -> {Idle} \cup Open] /\ request'[c] = new
      /\ \A b \in Clients \ {c} : request'[b] = request[b]
  BY <1>1, <1>2, <1>3
<1>5. RequestsAge
  BY <1>3, <1>4 DEF RequestsAge
<1>6. InsertReady'
  BY <1>1, <1>3, <1>4, ReadyKept
<1> QED
  BY <1>1, <1>4, <1>5, <1>6, RequestStep

\* A request ends and changes nothing.
LEMMA EndInv ==
    ASSUME IInv, NEW c \in Clients, request' = [request EXCEPT ![c] = Idle],
           UNCHANGED <<members, task, daily, weekly, done, clock>>
    PROVE  IInv'
<1>1. request \in [Clients -> {Idle} \cup Open]
  BY DEF IInv, TypeOK, Open
<1>2. request' \in [Clients -> {Idle} \cup Open] /\ request'[c] = Idle
      /\ \A b \in Clients \ {c} : request'[b] = request[b]
  BY <1>1
<1>3. RequestsAge
  BY <1>2 DEF RequestsAge
<1>4. InsertReady'
  BY <1>2, ReadyKept DEF Idle
<1> QED
  BY <1>2, <1>3, <1>4, RequestStep

\* An addition takes the user's lock and counts.
LEMMA AddInv == ASSUME IInv, NEW c \in Clients, Add(c) PROVE IInv'
<1> DEFINE u == request[c].user
           s == request[c].stock
           refused == \/ Following(u, s) # {} \/ Cardinality(Active(u)) >= Limit
                      \/ EffectiveFrom(request[c].now) = {}
<1>1. CASE refused
  <2>1. request' = [request EXCEPT ![c] = Idle]
        /\ UNCHANGED <<members, task, daily, weekly, done, clock>>
    BY <1>1 DEF Add
  <2> QED
    BY <2>1, EndInv
<1>2. CASE ~ refused
  <2> DEFINE new == [request[c] EXCEPT !.pc = "insert"]
  <2>1. /\ request[c].pc = "add" /\ request' = [request EXCEPT ![c] = new]
        /\ \A b \in Clients : request[b].pc = "insert" => request[b].user # request[c].user
        /\ UNCHANGED <<members, task, daily, weekly, done, clock>>
    BY <1>2 DEF Add
  <2>2. request[c] \in Open /\ request[c] # Idle
    BY <2>1, OpenFacts DEF IInv
  <2>3. new \in Open /\ new.now = request[c].now /\ new.pc = "insert"
        /\ new.user = request[c].user /\ new.stock = request[c].stock
    BY <2>2 DEF Open
  <2> HIDE DEF new
  <2>4. request \in [Clients -> {Idle} \cup Open]
    BY DEF IInv, TypeOK, Open
  <2>5. request' \in [Clients -> {Idle} \cup Open] /\ request'[c] = new
        /\ \A b \in Clients \ {c} : request'[b] = request[b]
    BY <2>1, <2>3, <2>4
  <2>6. RequestsAge
    BY <2>2, <2>3, <2>5 DEF RequestsAge
  <2>7. Following(request[c].user, request[c].stock) = {}
        /\ Cardinality(Active(request[c].user)) < Limit
    <3>1. Cardinality(Active(request[c].user)) \in Nat /\ Limit \in Nat
      BY FiniteParts, WatchlistAssumption DEF IInv
    <3> QED
      BY <1>2, <3>1
  <2>8. \A v, r : Active(v)' = Active(v) /\ Following(v, r)' = Following(v, r)
    BY <2>1 DEF Active, Following
  <2>9. InsertReady'
    BY <2>1, <2>3, <2>5, <2>7, <2>8 DEF IInv, InsertReady
  <2> QED
    BY <2>1, <2>5, <2>6, <2>9, RequestStep
<1> QED
  BY <1>1, <1>2

\* The membership is inserted: later than every day that is over, and within the
\* count that the request made under its lock.
LEMMA AddInsertInv == ASSUME IInv, NEW c \in Clients, AddInsert(c) PROVE IInv'
<1>0. TypeOK /\ FollowLimit /\ InsertReady /\ Timely /\ CloseLimit /\ Daily /\ Weekly
  BY DEF IInv
<1>1. PICK u \in Users, s \in Stocks, t \in Instants :
         request[c].user = u /\ request[c].stock = s /\ request[c].now = t
  BY <1>0, OpenFacts DEF AddInsert
<1>2. PICK d0 \in EffectiveFrom(t) :
         members' = Append(members, [user |-> u, stock |-> s, effective |-> d0, removed |-> Never])
  BY <1>1 DEF AddInsert
<1>3. /\ request[c].pc = "insert" /\ request' = [request EXCEPT ![c] = Idle]
      /\ Len(members) < MaxMembers /\ UNCHANGED <<task, daily, weekly, done, clock>>
  BY DEF AddInsert
<1> DEFINE new == [user |-> u, stock |-> s, effective |-> d0, removed |-> Never]
           k == Len(members) + 1
<1>4. new \in Members /\ new.user = u /\ new.stock = s /\ new.effective = d0 /\ new.removed = Never
  BY DEF Members, EffectiveFrom
<1> HIDE DEF new
<1>5. /\ members' \in Seq(Members) /\ Len(members') = k
      /\ k \notin DOMAIN members /\ DOMAIN members' = DOMAIN members \cup {k}
      /\ members'[k] = new /\ \A n \in DOMAIN members : members'[n] = members[n]
      /\ Active(u)' = Active(u) \cup {k}
      /\ \A v : v # u => Active(v)' = Active(v)
      /\ \A v, r : <<v, r>> # <<u, s>> => Following(v, r)' = Following(v, r)
      /\ Following(u, s)' = Following(u, s) \cup {k}
      /\ \A v, d : d \in Nat /\ d0 > d => AtClose(v, d)' = AtClose(v, d)
  <2>1. members' = Append(members, new)
    BY <1>2 DEF new
  <2> QED
    BY <1>0, <1>4, <2>1, Added
<1> HIDE DEF k
<1>6. request \in [Clients -> {Idle} \cup Open] /\ request' \in [Clients -> {Idle} \cup Open]
      /\ request'[c] = Idle /\ \A b \in Clients \ {c} : request'[b] = request[b]
  <2>1. request \in [Clients -> {Idle} \cup Open]
    BY <1>0 DEF TypeOK, Open
  <2> QED
    BY <1>3, <2>1
<1>7. TypeOK'
  <2>1. members' \in Seq(Members) /\ Len(members') <= MaxMembers
    <3>1. Len(members) \in Nat /\ MaxMembers \in Nat
      BY <1>0, MemberFacts, WatchlistAssumption
    <3> QED
      BY <1>3, <1>5, <3>1 DEF k
  <2> QED
    BY <1>0, <1>3, <1>6, <2>1 DEF TypeOK, Open
<1>8. /\ \A b \in Clients : request[b].pc = "insert" /\ request[b].user = u => b = c
      /\ Following(u, s) = {} /\ Cardinality(Active(u)) < Limit
  BY <1>0, <1>1, <1>3 DEF InsertReady
<1>9. FollowLimit'
  <2>1. Cardinality(Active(u)') <= Limit
    <3>1. IsFiniteSet(Active(u)) /\ Cardinality(Active(u)) \in Nat /\ Limit \in Nat
      BY <1>0, FiniteParts, WatchlistAssumption
    <3>0. k \notin Active(u)
      BY <1>5 DEF Active
    <3>2. Cardinality(Active(u) \cup {k}) = Cardinality(Active(u)) + 1
      BY <3>0, <3>1, FS_AddElement, Zenon
    <3>3. IsFiniteSet(Active(u) \cup {k}) /\ Cardinality(Active(u) \cup {k}) \in Nat
      BY <3>1, FS_AddElement, FS_CardinalityType
    <3> QED
      BY <1>5, <1>8, <3>1, <3>2, <3>3
  <2>2. Cardinality(Following(u, s)') <= 1
    <3>1. Following(u, s)' = {k}
      BY <1>5, <1>8
    <3>2. Cardinality({k}) = 1
      BY FS_Singleton
    <3> QED
      BY <3>1, <3>2
  <2>3. ASSUME NEW v \in Users
        PROVE  Cardinality(Active(v)') <= Limit
    BY <1>0, <1>5, <2>1 DEF FollowLimit
  <2>4. ASSUME NEW v \in Users, NEW r \in Stocks
        PROVE  Cardinality(Following(v, r)') <= 1
    BY <1>0, <1>5, <2>2 DEF FollowLimit
  <2> QED
    BY <2>3, <2>4 DEF FollowLimit
<1>10. InsertReady'
  <2>1. \A b \in Clients : request'[b].pc = "insert" =>
           request'[b] = request[b] /\ request[b].pc = "insert" /\ request[b].user # u
    BY <1>6, <1>8 DEF Idle
  <2>2. \A v, r : v # u => Active(v)' = Active(v) /\ Following(v, r)' = Following(v, r)
    BY <1>5
  <2> QED
    BY <1>0, <2>1, <2>2 DEF InsertReady
<1>11. t \in Nat /\ clock \in Nat /\ clock <= t + 1
  <2>1. request[c] # Idle
    BY <1>3 DEF Idle
  <2> QED
    BY <1>0, <1>1, <2>1, DatesAreNumbers DEF Timely, TypeOK
<1>12. Timely'
  <2>1. \A n \in DOMAIN members' : members'[n].removed <= clock
    BY <1>0, <1>4, <1>5, <1>11 DEF Timely, Never
  <2> QED
    BY <1>0, <1>3, <1>6, <2>1 DEF Timely
<1>13. ASSUME NEW d \in OpenDates, t >= Cutoff(d)
       PROVE  /\ \A v : AtClose(v, d)' = AtClose(v, d)
              /\ \A v, r : FollowedAtClose(v, r, d)' <=> FollowedAtClose(v, r, d)
  <2>1. d0 > d /\ d \in Nat
    BY <1>11, <1>13, AddedLater, DatesAreNumbers
  <2>2. \A v : AtClose(v, d)' = AtClose(v, d)
    BY <1>5, <2>1
  <2>3. \A v : \A n \in AtClose(v, d) : members'[n] = members[n]
    BY <1>5 DEF AtClose
  <2>4. ASSUME NEW v, NEW r
        PROVE  /\ FollowedAtClose(v, r, d) <=> \E n \in AtClose(v, d) : members[n].stock = r
               /\ FollowedAtClose(v, r, d)' <=> \E n \in AtClose(v, d)' : members'[n].stock = r
    BY DEF FollowedAtClose, AtClose
  <2> QED
    BY <2>2, <2>3, <2>4
<1>14. CloseLimit'
  <2>1. ASSUME NEW d \in OpenDates, clock > Cutoff(d)
        PROVE  t >= Cutoff(d)
    <3>1. Cutoff(d) \in Int
      BY DatesAreNumbers DEF Cutoff
    <3> QED
      BY <1>11, <2>1, <3>1
  <2> QED
    BY <1>0, <1>3, <1>13, <2>1 DEF CloseLimit
<1>15. Daily' /\ Weekly'
  <2>1. ASSUME NEW d \in OpenDates, Past(d)
        PROVE  Past(d)' /\ t >= Cutoff(d)
    <3>1. RequestsAge
      BY <1>6 DEF RequestsAge
    <3>2. Past(d)'
      BY <1>0, <1>3, <2>1, <3>1, PastKept, DatesAreNumbers
    <3>3. t > Cutoff(d) /\ Cutoff(d) \in Int
      BY <1>1, <1>3, <2>1, DatesAreNumbers DEF Past, Settled, Cutoff, Idle
    <3> QED
      BY <1>11, <3>2, <3>3
  <2> QED
    BY <1>0, <1>3, <1>13, <2>1, OutputsKept
<1> QED
  BY <1>7, <1>9, <1>10, <1>12, <1>14, <1>15 DEF IInv

\* A membership is ended, after the close of every day that is over.
LEMMA RemoveInv == ASSUME IInv, NEW c \in Clients, Remove(c) PROVE IInv'
<1>0. TypeOK /\ FollowLimit /\ InsertReady /\ Timely /\ CloseLimit /\ Daily /\ Weekly
  BY DEF IInv
<1>1. PICK u \in Users, s \in Stocks, t \in Instants :
         request[c].user = u /\ request[c].stock = s /\ request[c].now = t
  BY <1>0, OpenFacts DEF Remove
<1>2. Ended(u, s, t)
  BY <1>1 DEF Remove, Ended
<1>3. /\ request[c].pc = "remove" /\ request' = [request EXCEPT ![c] = Idle]
      /\ UNCHANGED <<task, daily, weekly, done, clock>>
  BY DEF Remove
<1>4. /\ members' \in Seq(Members) /\ Len(members') = Len(members)
      /\ DOMAIN members' = DOMAIN members
      /\ \A n \in DOMAIN members : members'[n].stock = members[n].stock
      /\ \A n \in DOMAIN members : members'[n].removed \in {members[n].removed, t}
      /\ \A v : Active(v)' \subseteq Active(v)
      /\ \A v, r : Following(v, r)' \subseteq Following(v, r)
      /\ \A v, d : d \in OpenDates => AtClose(v, d)' \subseteq AtClose(v, d)
      /\ \A v, d : d \in OpenDates /\ t > Cutoff(d) => AtClose(v, d)' = AtClose(v, d)
  BY <1>0, <1>2, Removed
<1>5. request \in [Clients -> {Idle} \cup Open] /\ request' \in [Clients -> {Idle} \cup Open]
      /\ request'[c] = Idle /\ \A b \in Clients \ {c} : request'[b] = request[b]
  <2>1. request \in [Clients -> {Idle} \cup Open]
    BY <1>0 DEF TypeOK, Open
  <2> QED
    BY <1>3, <2>1
<1>6. TypeOK'
  <2>1. Len(members') <= MaxMembers
    BY <1>0, <1>4 DEF TypeOK
  <2> QED
    BY <1>0, <1>3, <1>4, <1>5, <2>1 DEF TypeOK, Open
<1>7. /\ \A v : Cardinality(Active(v)') <= Cardinality(Active(v))
                /\ Cardinality(Active(v)') \in Nat /\ Cardinality(Active(v)) \in Nat
      /\ \A v, r : Cardinality(Following(v, r)') <= Cardinality(Following(v, r))
                   /\ Cardinality(Following(v, r)') \in Nat /\ Cardinality(Following(v, r)) \in Nat
      /\ \A v : \A d \in OpenDates :
            Cardinality(AtClose(v, d)') <= Cardinality(AtClose(v, d))
            /\ Cardinality(AtClose(v, d)') \in Nat /\ Cardinality(AtClose(v, d)) \in Nat
  <2>1. \A v : IsFiniteSet(Active(v)) /\ Active(v)' \in SUBSET Active(v)
    BY <1>0, <1>4, FiniteParts
  <2>2. \A v, r : IsFiniteSet(Following(v, r)) /\ Following(v, r)' \in SUBSET Following(v, r)
    BY <1>0, <1>4, FiniteParts
  <2>3. \A v : \A d \in OpenDates :
           IsFiniteSet(AtClose(v, d)) /\ AtClose(v, d)' \in SUBSET AtClose(v, d)
    BY <1>0, <1>4, FiniteParts
  <2> QED
    BY <2>1, <2>2, <2>3, FS_Subset, FS_CardinalityType
<1>8. Limit \in Nat
  BY WatchlistAssumption
<1>9. FollowLimit' /\ CloseLimit'
  <2>1. \A v \in Users : Cardinality(Active(v)') <= Limit
    BY <1>0, <1>7, <1>8 DEF FollowLimit
  <2>2. \A v \in Users, r \in Stocks : Cardinality(Following(v, r)') <= 1
    BY <1>0, <1>7 DEF FollowLimit
  <2>3. \A v \in Users, d \in OpenDates :
           clock > Cutoff(d) => Cardinality(AtClose(v, d)') <= Limit
    BY <1>0, <1>7, <1>8 DEF CloseLimit
  <2> QED
    BY <1>3, <2>1, <2>2, <2>3 DEF FollowLimit, CloseLimit
<1>10. InsertReady'
  <2>1. \A b \in Clients : request'[b].pc = "insert" =>
           request'[b] = request[b] /\ request[b].pc = "insert"
    BY <1>5 DEF Idle
  <2>2. \A v : Cardinality(Active(v)) < Limit => Cardinality(Active(v)') < Limit
    BY <1>7, <1>8
  <2>3. \A v, r : Following(v, r) = {} => Following(v, r)' = {}
    BY <1>4
  <2> QED
    BY <1>0, <2>1, <2>2, <2>3 DEF InsertReady
<1>11. t \in Nat /\ clock \in Nat /\ t <= clock
  <2>1. request[c] # Idle
    BY <1>3 DEF Idle
  <2> QED
    BY <1>0, <1>1, <2>1, DatesAreNumbers DEF Timely, TypeOK
<1>12. Timely'
  BY <1>0, <1>3, <1>4, <1>5, <1>11 DEF Timely
<1>13. ASSUME NEW d \in OpenDates, Past(d)
       PROVE  Past(d)' /\ \A v, r : FollowedAtClose(v, r, d)' <=> FollowedAtClose(v, r, d)
  <2>1. RequestsAge
    BY <1>5 DEF RequestsAge
  <2>2. Past(d)'
    BY <1>0, <1>3, <1>13, <2>1, PastKept, DatesAreNumbers
  <2>3. t > Cutoff(d)
    BY <1>1, <1>3, <1>13 DEF Past, Settled, Idle
  <2>4. \A v : AtClose(v, d)' = AtClose(v, d)
    BY <1>4, <2>3
  <2>5. \A v : \A n \in AtClose(v, d) : members'[n].stock = members[n].stock
    BY <1>4 DEF AtClose
  <2>6. ASSUME NEW v, NEW r
        PROVE  /\ FollowedAtClose(v, r, d) <=> \E n \in AtClose(v, d) : members[n].stock = r
               /\ FollowedAtClose(v, r, d)' <=> \E n \in AtClose(v, d)' : members'[n].stock = r
    BY DEF FollowedAtClose, AtClose
  <2> QED
    BY <2>2, <2>4, <2>5, <2>6
<1>14. Daily' /\ Weekly'
  BY <1>0, <1>3, <1>13, OutputsKept
<1> QED
  BY <1>6, <1>9, <1>10, <1>12, <1>14 DEF IInv

\* Time passes: a day that closes in this step has the memberships that are active.
LEMMA TickInv == ASSUME IInv, Tick PROVE IInv'
<1>0. TypeOK /\ FollowLimit /\ InsertReady /\ Timely /\ CloseLimit /\ Daily /\ Weekly
  BY DEF IInv
<1>1. /\ clock < 3 * LastDate /\ clock' = clock + 1
      /\ \A c \in Clients : request[c] # Idle => request[c].now = clock
      /\ UNCHANGED <<members, request, task, daily, weekly, done>>
  BY DEF Tick
<1>2. clock \in Nat /\ clock >= 1 /\ LastDate \in Nat
  BY <1>0, WatchlistAssumption DEF TypeOK, Instants
<1>3. TypeOK'
  <2>1. clock' \in Instants
    BY <1>1, <1>2 DEF Instants
  <2> QED
    BY <1>0, <1>1, <2>1 DEF TypeOK
<1>4. /\ \A v, r : Following(v, r)' = Following(v, r)
      /\ \A v : Active(v)' = Active(v)
      /\ \A v, d : AtClose(v, d)' = AtClose(v, d)
      /\ \A v, r, d : FollowedAtClose(v, r, d)' <=> FollowedAtClose(v, r, d)
  BY <1>1 DEF Following, Active, AtClose, FollowedAtClose
<1>5. FollowLimit' /\ InsertReady'
  BY <1>0, <1>1, <1>4 DEF FollowLimit, InsertReady
<1>6. Timely'
  <2>1. \A n \in DOMAIN members : members[n].removed \in Nat
    BY <1>0, MemberFacts
  <2> QED
    BY <1>0, <1>1, <1>2, <2>1 DEF Timely
<1>7. CloseLimit'
  <2>1. ASSUME NEW v \in Users, NEW d \in OpenDates, clock' > Cutoff(d)
        PROVE  Cardinality(AtClose(v, d)) <= Limit
    <3>1. Cutoff(d) \in Nat
      BY WatchlistAssumption DEF Cutoff
    <3>2. CASE clock > Cutoff(d)
      BY <1>0, <3>2 DEF CloseLimit
    <3>3. CASE clock = Cutoff(d)
      <4>1. AtClose(v, d) \in SUBSET Active(v)
        <5>1. ASSUME NEW n \in AtClose(v, d)
              PROVE  n \in Active(v)
          <6>1. members[n].removed \in Nat /\ members[n].removed <= clock
            BY <1>0, MemberFacts DEF Timely, AtClose
          <6>2. members[n].removed = Never
            BY <3>1, <3>3, <6>1 DEF AtClose, Never
          <6> QED
            BY <6>2 DEF AtClose, Active
        <5> QED
          BY <5>1
      <4>2. IsFiniteSet(Active(v)) /\ Cardinality(Active(v)) \in Nat /\ Cardinality(Active(v)) <= Limit
            /\ Cardinality(AtClose(v, d)) \in Nat /\ Limit \in Nat
        BY <1>0, FiniteParts, WatchlistAssumption DEF FollowLimit
      <4>3. Cardinality(AtClose(v, d)) <= Cardinality(Active(v))
        BY <4>1, <4>2, FS_Subset
      <4> QED
        BY <4>2, <4>3
    <3> QED
      BY <1>1, <1>2, <2>1, <3>1, <3>2, <3>3
  <2> QED
    BY <1>4, <2>1 DEF CloseLimit, Cutoff
<1>8. Daily' /\ Weekly'
  <2>1. RequestsAge
    BY <1>1 DEF RequestsAge
  <2>2. \A d \in OpenDates : Past(d) => Past(d)'
    BY <1>0, <1>1, <2>1, PastKept, DatesAreNumbers
  <2> QED
    BY <1>0, <1>1, <1>4, <2>2, OutputsKept
<1> QED
  BY <1>3, <1>5, <1>6, <1>7, <1>8 DEF IInv

\* A task of the outputs thread leaves the requests and the memberships alone.
LEMMA TaskStep ==
    ASSUME IInv, UNCHANGED <<members, request, clock>>
    PROVE  /\ FollowLimit' /\ InsertReady' /\ Timely' /\ CloseLimit'
           /\ \A d : Past(d)' <=> Past(d)
           /\ \A items, d : ItemsOf(items, d)' <=> ItemsOf(items, d)
           /\ \A items : WeekItems(items)' <=> WeekItems(items)
<1>1. /\ \A v, r : Following(v, r)' = Following(v, r)
      /\ \A v : Active(v)' = Active(v)
      /\ \A v, d : AtClose(v, d)' = AtClose(v, d)
      /\ \A v, r, d : FollowedAtClose(v, r, d)' <=> FollowedAtClose(v, r, d)
  BY DEF Following, Active, AtClose, FollowedAtClose
<1>2. FollowLimit' /\ InsertReady'
  BY <1>1 DEF IInv, FollowLimit, InsertReady
<1>3. Timely' /\ CloseLimit'
  BY <1>1 DEF IInv, Timely, CloseLimit
<1>4. \A d : Past(d)' <=> Past(d)
  BY DEF Past, Settled
<1>5. /\ \A items, d : ItemsOf(items, d)' <=> ItemsOf(items, d)
      /\ \A items : WeekItems(items)' <=> WeekItems(items)
  BY <1>1 DEF ItemsOf, WeekItems
<1> QED
  BY <1>2, <1>3, <1>4, <1>5

\* The daily items are read.
LEMMA DailyReadInv == ASSUME IInv, NEW d \in OpenDates, DailyRead(d) PROVE IInv'
<1> DEFINE K == {k \in DOMAIN members : Follows(members[k], d)}
           made == {[user |-> members[n].user, stock |-> members[n].stock, date |-> d] : n \in K}
<1>0. TypeOK /\ Daily /\ Weekly
  BY DEF IInv
<1>1. /\ Past(d) /\ task' = [pc |-> "daily", date |-> d, items |-> made]
      /\ UNCHANGED <<members, request, daily, weekly, done, clock>>
  BY DEF DailyRead, Past
<1>2. \A n \in K : n \in DOMAIN members /\ members[n].user \in Users /\ members[n].stock \in Stocks
  BY <1>0, MemberFacts
<1>3. made \in SUBSET DailyItems
  BY <1>2 DEF DailyItems
<1>4. ItemsOf(made, d)
  <2>1. ASSUME NEW u \in Users, NEW s \in Stocks
        PROVE  [user |-> u, stock |-> s, date |-> d] \in made <=>
                  \E n \in K : members[n].user = u /\ members[n].stock = s
    OBVIOUS
  <2>2. ASSUME NEW u \in Users, NEW s \in Stocks
        PROVE  FollowedAtClose(u, s, d) <=> \E n \in K : members[n].user = u /\ members[n].stock = s
    <3>1. \A n \in DOMAIN members : Follows(members[n], d) <=> n \in AtClose(members[n].user, d)
      BY <1>0, FollowsAtClose
    <3>2. \A n : n \in AtClose(u, d) <=>
                    n \in DOMAIN members /\ members[n].user = u /\ n \in AtClose(members[n].user, d)
      BY DEF AtClose
    <3> QED
      BY <3>1, <3>2, FollowedBy
  <2> HIDE DEF made
  <2> QED
    BY <2>1, <2>2 DEF ItemsOf
<1>5. \A i \in made : i.date = d
  OBVIOUS
<1> HIDE DEF made
<1>6. task'.pc = "daily" /\ task'.date = d /\ task'.items = made
      /\ task' \in [pc: {"daily"}, date: OpenDates, items: SUBSET DailyItems]
  BY <1>1, <1>3
<1>7. TypeOK'
  BY <1>0, <1>1, <1>6 DEF TypeOK
<1>8. Daily'
  BY <1>0, <1>1, <1>4, <1>5, <1>6, TaskStep DEF Daily
<1>9. Weekly'
  BY <1>0, <1>1, <1>6, TaskStep DEF Weekly
<1> QED
  BY <1>1, <1>7, <1>8, <1>9, TaskStep DEF IInv

\* The daily items are stored: again, for a day that has them.
LEMMA DailyWriteInv == ASSUME IInv, DailyWrite PROVE IInv'
<1>0. TypeOK /\ Daily /\ Weekly
  BY DEF IInv
<1>1. task \in [pc: {"daily"}, date: OpenDates, items: SUBSET DailyItems]
  BY <1>0 DEF DailyWrite, TypeOK, Idle
<1>2. PICK d \in OpenDates, items \in SUBSET DailyItems : task.date = d /\ task.items = items
  BY <1>1
<1>3. /\ daily' = daily \cup items /\ done' = done \cup {d} /\ task' = Idle
      /\ UNCHANGED <<members, request, weekly, clock>>
  BY <1>2 DEF DailyWrite
<1>4. Past(d) /\ ItemsOf(items, d) /\ \A i \in items : i.date = d
  BY <1>0, <1>2 DEF Daily, DailyWrite
<1>5. TypeOK'
  BY <1>0, <1>2, <1>3 DEF TypeOK
<1>6. Weekly'
  BY <1>0, <1>3, TaskStep DEF Weekly, Idle
<1>7. Daily'
  <2>1. \A i \in daily' : i.date \in done'
    BY <1>0, <1>3, <1>4 DEF Daily
  <2>2. ASSUME NEW e \in done'
        PROVE  Past(e) /\ ItemsOf(daily', e)
    <3>1. CASE e = d
      <4>1. ASSUME NEW u \in Users, NEW s \in Stocks,
                   [user |-> u, stock |-> s, date |-> e] \in daily
            PROVE  FollowedAtClose(u, s, e)
        <5>1. e \in done
          BY <1>0, <4>1 DEF Daily
        <5> QED
          BY <1>0, <4>1, <5>1 DEF Daily, ItemsOf
      <4> QED
        BY <1>3, <1>4, <3>1, <4>1 DEF ItemsOf
    <3>2. CASE e # d
      <4>1. e \in done /\ \A u, s : [user |-> u, stock |-> s, date |-> e] \notin items
        BY <1>3, <1>4, <3>2
      <4> QED
        BY <1>0, <1>3, <4>1 DEF Daily, ItemsOf
    <3> QED
      BY <3>1, <3>2
  <2>3. \A e \in done' : Past(e)' /\ ItemsOf(daily, e)'
    <3>1. \A u, s, e : FollowedAtClose(u, s, e)' <=> FollowedAtClose(u, s, e)
      BY <1>3 DEF FollowedAtClose
    <3> QED
      BY <1>3, <2>2, <3>1, TaskStep DEF ItemsOf
  <2> QED
    BY <1>3, <2>1, <2>3 DEF Daily, Idle
<1> QED
  BY <1>3, <1>5, <1>6, <1>7, TaskStep DEF IInv

\* The items of the week are read, one for each user and stock.
LEMMA WeeklyReadInv == ASSUME IInv, WeeklyRead PROVE IInv'
<1> DEFINE K == {k \in DOMAIN members : FinalDates(members[k]) # {}}
           Item(n) == [user |-> members[n].user, stock |-> members[n].stock,
                       dates |-> FinalDates(members[n])]
<1>0. TypeOK /\ Daily /\ Weekly
  BY DEF IInv
<1>1. Past(LastOpen) /\ UNCHANGED <<members, request, daily, weekly, done, clock>>
  BY DEF WeeklyRead, Past
<1>2. PICK chosen \in SUBSET {Item(n) : n \in K} :
         /\ \A i, j \in chosen : i.user = j.user /\ i.stock = j.stock => i = j
         /\ task' = [pc |-> "weekly", items |-> chosen]
  BY DEF WeeklyRead
<1>3. ASSUME NEW i \in chosen
      PROVE  /\ i \in WeeklyItems /\ i.dates \subseteq WeekDates
             /\ \A d \in i.dates : FollowedAtClose(i.user, i.stock, d)
  <2>1. PICK n \in DOMAIN members : i = Item(n)
    OBVIOUS
  <2>2. members[n].user \in Users /\ members[n].stock \in Stocks
    BY <1>0, MemberFacts
  <2>3. FinalDates(members[n]) \subseteq WeekDates /\ WeekDates \subseteq OpenDates
    BY DEF FinalDates, WeekDates
  <2>4. ASSUME NEW d \in FinalDates(members[n])
        PROVE  FollowedAtClose(members[n].user, members[n].stock, d)
    <3>1. n \in AtClose(members[n].user, d)
      BY <1>0, <2>3, FollowsAtClose DEF FinalDates
    <3> QED
      BY <3>1, FollowedBy
  <2> QED
    BY <2>1, <2>2, <2>3, <2>4 DEF WeeklyItems
<1>4. task'.pc = "weekly" /\ task'.items = chosen
      /\ task' \in [pc: {"weekly"}, items: SUBSET WeeklyItems]
  BY <1>2, <1>3
<1>5. WeekItems(chosen)
  BY <1>2, <1>3 DEF WeekItems
<1>6. TypeOK'
  BY <1>0, <1>1, <1>4 DEF TypeOK
<1>7. Daily'
  BY <1>0, <1>1, <1>4, TaskStep DEF Daily
<1>8. Weekly'
  BY <1>0, <1>1, <1>4, <1>5, TaskStep DEF Weekly
<1> QED
  BY <1>1, <1>6, <1>7, <1>8, TaskStep DEF IInv

\* They are stored, but for those that an earlier review stored.
LEMMA WeeklyWriteInv == ASSUME IInv, WeeklyWrite PROVE IInv'
<1>0. TypeOK /\ Daily /\ Weekly
  BY DEF IInv
<1>1. task \in [pc: {"weekly"}, items: SUBSET WeeklyItems]
  BY <1>0 DEF WeeklyWrite, TypeOK, Idle
<1>2. PICK items \in SUBSET WeeklyItems : task.items = items
  BY <1>1
<1> DEFINE new == {i \in items : \A j \in weekly : i.user = j.user => i.stock # j.stock}
<1>3. /\ weekly' = weekly \cup new /\ task' = Idle
      /\ UNCHANGED <<members, request, daily, done, clock>>
  BY <1>2 DEF WeeklyWrite
<1>4. Past(LastOpen) /\ WeekItems(items) /\ WeekItems(weekly)
  BY <1>0, <1>2 DEF Weekly, WeeklyWrite
<1>5. WeekItems(weekly')
  <2>1. WeekItems(weekly \cup new)
    BY <1>4 DEF WeekItems
  <2> QED
    BY <1>3, <2>1
<1>6. \A u, s, d : FollowedAtClose(u, s, d)' <=> FollowedAtClose(u, s, d)
  BY <1>3 DEF FollowedAtClose
<1>7. Weekly'
  <2>1. WeekItems(weekly)'
    BY <1>5, <1>6 DEF WeekItems
  <2> QED
    BY <1>3, <1>4, <2>1, TaskStep DEF Weekly, Idle
<1>8. TypeOK'
  BY <1>0, <1>2, <1>3 DEF TypeOK
<1>9. Daily'
  BY <1>0, <1>3, TaskStep DEF Daily, Idle
<1> QED
  BY <1>3, <1>7, <1>8, <1>9, TaskStep DEF IInv

\* A task fails.
LEMMA TaskFailsInv == ASSUME IInv, TaskFails PROVE IInv'
<1>1. task' = Idle /\ UNCHANGED <<members, request, daily, weekly, done, clock>>
  BY DEF TaskFails
<1>2. TypeOK'
  BY <1>1 DEF IInv, TypeOK
<1>3. Daily' /\ Weekly'
  BY <1>1, TaskStep DEF IInv, Daily, Weekly, Idle
<1> QED
  BY <1>1, <1>2, <1>3, TaskStep DEF IInv

\* Every step preserves the invariant.
LEMMA NextInv == ASSUME IInv, [Next]_vars PROVE IInv'
<1>1. CASE UNCHANGED vars
  <2>1. UNCHANGED <<members, request, clock>> /\ UNCHANGED <<task, daily, weekly, done>>
    BY <1>1 DEF vars
  <2>2. TypeOK'
    BY <2>1 DEF IInv, TypeOK
  <2>3. Daily' /\ Weekly'
    BY <2>1, TaskStep DEF IInv, Daily, Weekly
  <2> QED
    BY <2>1, <2>2, <2>3, TaskStep DEF IInv
<1>2. ASSUME NEW c \in Clients, NEW u \in Users, NEW s \in Stocks,
             Begin(c, "add", u, s) \/ Begin(c, "remove", u, s)
      PROVE  IInv'
  BY <1>2, BeginInv
<1>3. ASSUME NEW c \in Clients, Add(c) \/ AddInsert(c) \/ Remove(c) \/ Rollback(c)
      PROVE  IInv'
  BY <1>3, AddInv, AddInsertInv, RemoveInv, EndInv DEF Rollback
<1>4. ASSUME \/ \E d \in OpenDates : DailyRead(d)
             \/ DailyWrite \/ WeeklyRead \/ WeeklyWrite \/ TaskFails \/ Tick
      PROVE  IInv'
  BY <1>4, DailyReadInv, DailyWriteInv, WeeklyReadInv, WeeklyWriteInv, TaskFailsInv, TickInv
<1> QED
  BY <1>1, <1>2, <1>3, <1>4 DEF Next

\* The inductive invariant holds of every behaviour of the watchlists.
THEOREM Invariant == Spec => []IInv
BY InitInv, NextInv, PTL DEF Spec

-----------------------------------------------------------------------------
(* The results                                                             *)

\* In every reachable state each variable has its type.
THEOREM TypeCorrect == Spec => []TypeOK
<1>1. IInv => TypeOK
  BY DEF IInv
<1> QED
  BY Invariant, <1>1, PTL

\* No user follows more than Limit stocks, or one stock twice, however many
\* additions and removals of whatever users race (watchlist/repository.py, add).
THEOREM LimitHolds == Spec => []FollowLimit
<1>1. IInv => FollowLimit
  BY DEF IInv
<1> QED
  BY Invariant, <1>1, PTL

\* A day's items are, for ever, those of the stocks followed at its close.
THEOREM DailyItemsAreExact == Spec => []DailyItemsExact
<1>1. IInv => DailyItemsExact
  BY DEF IInv, Daily, ItemsOf, DailyItemsExact
<1> QED
  BY Invariant, <1>1, PTL

\* A user's daily items are no more than the memberships at the close, and these
\* were once followed at the same time.
LEMMA ItemsCounted == ASSUME IInv PROVE DailyWithinLimit
<1>0. TypeOK /\ CloseLimit /\ Daily
  BY DEF IInv
<1>1. SUFFICES ASSUME NEW u \in Users, NEW d \in OpenDates
               PROVE  Cardinality({i \in daily : i.user = u /\ i.date = d}) <= Limit
  BY DEF DailyWithinLimit
<1> DEFINE T == {i \in daily : i.user = u /\ i.date = d}
           S == AtClose(u, d)
           f == [n \in S |-> [user |-> u, stock |-> members[n].stock, date |-> d]]
<1>2. CASE d \notin done
  <2>1. T = {}
    BY <1>0, <1>2 DEF Daily
  <2> QED
    BY <2>1, FS_EmptySet, WatchlistAssumption
<1>3. CASE d \in done
  <2>1. Past(d) /\ ItemsOf(daily, d)
    BY <1>0, <1>3 DEF Daily
  <2>2. ASSUME NEW i \in T
        PROVE  \E n \in S : f[n] = i
    <3>1. i \in DailyItems /\ i.user = u /\ i.date = d
      BY <1>0 DEF TypeOK
    <3>2. i = [user |-> u, stock |-> i.stock, date |-> d] /\ i.stock \in Stocks
      BY <3>1 DEF DailyItems
    <3>3. FollowedAtClose(u, i.stock, d)
      BY <2>1, <3>2 DEF ItemsOf
    <3> QED
      BY <3>2, <3>3, FollowedBy
  <2>3. ASSUME NEW n \in S
        PROVE  f[n] \in T
    <3>1. members[n].stock \in Stocks /\ FollowedAtClose(u, members[n].stock, d)
      BY <1>0, MemberFacts, FollowedBy DEF AtClose
    <3> QED
      BY <2>1, <3>1 DEF ItemsOf
  <2>4. f \in Surjection(S, T)
    BY <2>2, <2>3 DEF Surjection
  <2>5. IsFiniteSet(S) /\ Cardinality(S) \in Nat /\ Cardinality(S) <= Limit
    BY <1>0, <2>1, FiniteParts DEF CloseLimit, Past
  <2> HIDE DEF T, S, f
  <2>6. IsFiniteSet(T) /\ Cardinality(T) <= Cardinality(S)
    BY <2>4, <2>5, FS_Surjection
  <2>7. Cardinality(T) \in Nat /\ Limit \in Nat
    BY <2>6, FS_CardinalityType, WatchlistAssumption
  <2> QED
    BY <2>5, <2>6, <2>7 DEF T
<1> QED
  BY <1>2, <1>3

\* Replacing stocks around the close gives no user more daily items than Limit.
THEOREM DailyItemsLimited == Spec => []DailyWithinLimit
BY Invariant, ItemsCounted, PTL

\* A weekly item is unique and speaks of days on which its user followed the stock.
THEOREM WeeklyItemsFollowed == Spec => []WeeklyWithinMembership
<1>1. IInv => WeeklyWithinMembership
  BY DEF IInv, Weekly, WeekItems, WeeklyWithinMembership
<1> QED
  BY Invariant, <1>1, PTL
=============================================================================
