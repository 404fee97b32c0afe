------------------------- MODULE Collection_proofs --------------------------
(***************************************************************************)
(* Proofs about Collection: types, the checkpoint that forgets no stock,   *)
(* and the snapshots.  They hold for any number of stocks, dates,          *)
(* operators and attempts.                                                 *)
(***************************************************************************)
EXTENDS Collection, FiniteSetTheorems, TLAPS

-----------------------------------------------------------------------------
(* One stock                                                               *)

\* A stock that does not fail is confirmed by a second source: its dates are all
\* covered, its volumes agree, and its prices agree too unless Sina alone backs it
\* (the verdict of `ingest` and the two reconciliations).
LEMMA UnfailedIsConfirmed ==
    ASSUME NEW o \in Outcomes, ~ o.failed
    PROVE  o.confirmed
<1>1. PICK t \in Replies, e \in Replies, s \in Replies, d \in {"none", "price", "volume"} :
         o = Outcome(t, e, s, d)
  BY DEF Outcomes
<1>0. /\ ~ StockFails(t, e, s, d)
      /\ (/\ e \cup s # {} /\ t \subseteq e \cup s
          /\ t # {} => (d = "none" \/ (d = "price" /\ e = {})))
           => o.confirmed
  BY <1>1, Zenon DEF Outcome
<1> DEFINE b == Backup(t, e, s)
<1>2. b \subseteq e \cup s
  BY DEF Backup
<1>3. t \subseteq b /\ b # {} /\ Reconciled(t, b, d, e = {}) \notin {"conflicted", "missing"}
  BY <1>0 DEF StockFails
<1>4. ASSUME t # {}, d # "none"
      PROVE  d = "price" /\ e = {}
  <2>1. Strict(t, b, d) = "conflicted"
    BY <1>3, <1>4 DEF Strict
  <2>2. CASE d # "volume" /\ e = {}
    BY <2>2, <1>4
  <2>3. CASE ~ (d # "volume" /\ e = {})
    BY <1>3, <2>1, <2>3 DEF Reconciled
  <2> QED
    BY <2>2, <2>3
<1> QED
  BY <1>0, <1>2, <1>3, <1>4

\* LIMIT takes the first codes: whoever precedes a chosen code is chosen too.
LEMMA FirstIsInitial ==
    ASSUME NEW n \in Nat, NEW S \in SUBSET Codes, NEW c \in First(n, S), NEW d \in S, d < c
    PROVE  d \in First(n, S)
<1>1. Codes \subseteq Nat /\ IsFiniteSet(Codes)
  BY FS_Interval, CollectionAssumption DEF Codes
<1> DEFINE Before(x) == {y \in S : y < x}
<1>2. IsFiniteSet(Before(c))
  BY <1>1, FS_Subset
<1>3. Before(d) \subseteq Before(c)
  <2>1. c \in S /\ S \subseteq Nat
    BY <1>1 DEF First
  <2>2. \A y \in S : y < d => y < c
    BY <2>1
  <2> QED
    BY <2>2
<1>4. IsFiniteSet(Before(d)) /\ Cardinality(Before(d)) <= Cardinality(Before(c))
  BY <1>2, <1>3, FS_Subset
<1>5. Cardinality(Before(d)) \in Nat /\ Cardinality(Before(c)) \in Nat
  BY <1>2, <1>4, FS_CardinalityType
<1>6. Cardinality(Before(c)) < n
  BY DEF First
<1> QED
  BY <1>4, <1>5, <1>6 DEF First

-----------------------------------------------------------------------------
(* Types                                                                   *)

\* A new checkpoint view is one.
LEMMA MarkedType ==
    ASSUME NEW view \in Checkpoints, NEW c \in Codes, NEW failed \in BOOLEAN
    PROVE  Marked(view, c, failed) \in Checkpoints
BY CollectionAssumption DEF Marked, Checkpoints, Codes

CliRows == [pc: {"off", "fetch", "mark", "write", "replace"}, todo: SUBSET Codes,
            marks: BOOLEAN, chosen: BOOLEAN, error: BOOLEAN, view: Checkpoints,
            fd: {"none", "tmp", "file", "gone"}]
PrepRows == [pc: {"idle", "check", "ingest", "materialize", "lookup", "inputs", "ready"},
             todo: SUBSET Codes, attempt: 0 .. MaxAttempts - 1, answer: 0 .. MaxLocks]
ScanRows == [pc: {"off", "read", "persist"}, todo: SUBSET Codes, base: Contents,
             seen: Contents, locked: 0 .. MaxLocks]

\* A content that waits to be stored was locked; with it the types are inductive.
Types == TypeOK /\ \A r \in Readers : scan[r].pc = "persist" => scan[r].locked # 0

LEMMA RestTypes ==
    /\ NewCheckpoint \in Checkpoints /\ Off \in CliRows /\ Idle \in PrepRows /\ Ingest \in PrepRows
    /\ Nothing \in Contents /\ Resting \in ScanRows
    /\ \A state \in {"absent", "empty", "whole", "torn"} : File(state) \in Files
<1>1. NewCheckpoint \in Checkpoints
  BY CollectionAssumption DEF NewCheckpoint, Checkpoints
<1>2. Off \in CliRows /\ \A state \in {"absent", "empty", "whole", "torn"} : File(state) \in Files
  BY <1>1 DEF Off, CliRows, File, Files
<1>3. 0 \in 0 .. MaxAttempts - 1 /\ 0 \in 0 .. MaxLocks /\ 0 \in 0 .. MaxVersion
  BY CollectionAssumption
<1>4. Idle \in PrepRows /\ Ingest \in PrepRows
  BY <1>3 DEF Idle, Ingest, PrepRows
<1>5. Nothing \in Contents
  BY <1>3 DEF Nothing, Contents
<1>6. Resting \in ScanRows
  BY <1>3, <1>5 DEF Resting, ScanRows
<1> QED
  BY <1>1, <1>2, <1>4, <1>5, <1>6

\* What a stock's transaction stores has the right type, and every version stays.
LEMMA FetchStockType ==
    ASSUME TypeOK, NEW c \in Codes, NEW failed \in BOOLEAN, FetchStock(c, failed)
    PROVE  /\ bars' \in [Codes -> Seq(BOOLEAN)] /\ \A d \in Codes : Len(bars'[d]) <= MaxVersion
           /\ done' \in SUBSET Codes
           /\ \A d \in Codes : /\ Len(bars[d]) <= Len(bars'[d])
                              /\ \A v \in 1 .. Len(bars[d]) : bars'[d][v] = bars[d][v]
<1>1. PICK o \in Outcomes : /\ failed = o.failed
                            /\ Stored(c, o.delivered, bars')
                            /\ done' = IF o.confirmed THEN done \cup {c} ELSE done
  BY DEF FetchStock
<1>2. /\ bars \in [Codes -> Seq(BOOLEAN)]
      /\ \A d \in Codes : Len(bars[d]) \in Nat /\ Len(bars[d]) <= MaxVersion
  BY DEF TypeOK
<1>3. done' \in SUBSET Codes
  BY <1>1 DEF TypeOK
<1>4. CASE bars' = bars
  BY <1>2, <1>3, <1>4
<1>5. ASSUME Len(bars[c]) < MaxVersion, NEW u \in BOOLEAN,
             bars' = [bars EXCEPT ![c] = Append(@, u)]
      PROVE  /\ bars' \in [Codes -> Seq(BOOLEAN)] /\ \A d \in Codes : Len(bars'[d]) <= MaxVersion
             /\ \A d \in Codes : /\ Len(bars[d]) <= Len(bars'[d])
                                /\ \A v \in 1 .. Len(bars[d]) : bars'[d][v] = bars[d][v]
  <2> DEFINE more == Append(bars[c], u)
  <2>1. bars[c] \in Seq(BOOLEAN)
    BY <1>2
  <2>2. /\ more \in Seq(BOOLEAN) /\ Len(more) = Len(bars[c]) + 1
        /\ \A v \in 1 .. Len(bars[c]) : more[v] = bars[c][v]
    BY <2>1
  <2>3. bars' = [bars EXCEPT ![c] = more]
    BY <1>5
  <2> HIDE DEF more
  <2>4. bars' \in [Codes -> Seq(BOOLEAN)]
    BY <1>2, <2>2, <2>3
  <2>5. bars'[c] = more /\ \A d \in Codes \ {c} : bars'[d] = bars[d]
    BY <1>2, <2>3
  <2>6. Len(more) <= MaxVersion /\ Len(bars[c]) <= Len(more)
    BY <1>2, <1>5, <2>2, CollectionAssumption
  <2>7. ASSUME NEW d \in Codes
        PROVE  /\ Len(bars'[d]) <= MaxVersion /\ Len(bars[d]) <= Len(bars'[d])
               /\ \A v \in 1 .. Len(bars[d]) : bars'[d][v] = bars[d][v]
    <3>1. CASE d = c
      BY <2>2, <2>5, <2>6, <3>1
    <3>2. CASE d # c
      BY <1>2, <2>5, <3>2
    <3> QED
      BY <3>1, <3>2
  <2> QED
    BY <2>4, <2>7
<1> QED
  BY <1>1, <1>3, <1>4, <1>5 DEF Stored

\* The stored inputs of a snapshot change nothing else of it.
LEMMA InputsType ==
    ASSUME TypeOK, NEW n, StoreInputs(n)
    PROVE  /\ snapshots' \subseteq Snapshots
           /\ \A t \in snapshots' : \E s \in snapshots : t.content = s.content
           /\ \A m : /\ IsStored(m) => IsStored(m)'
                     /\ HasInputs(m) => HasInputs(m)'
           /\ IsStored(n) => HasInputs(n)'
<1> DEFINE with(s) == IF s.locked = n THEN [s EXCEPT !.inputs = TRUE] ELSE s
<1>1. snapshots' = {with(s) : s \in snapshots}
  BY DEF StoreInputs
<1>2. \A s \in snapshots : /\ with(s) \in Snapshots /\ with(s).content = s.content
                           /\ with(s).locked = s.locked
                           /\ s.inputs => with(s).inputs
                           /\ s.locked = n => with(s).inputs
  BY DEF TypeOK, Snapshots
<1> HIDE DEF with
<1> QED
  BY <1>1, <1>2 DEF IsStored, HasInputs

\* The types are inductive: one lemma per actor.
LEMMA InitType == Init => Types
<1> SUFFICES ASSUME Init
             PROVE  Types
  OBVIOUS
<1>1. bars \in [Codes -> Seq(BOOLEAN)] /\ \A c \in Codes : Len(bars[c]) <= MaxVersion
  <2>1. <<>> \in Seq(BOOLEAN) /\ Len(<<>>) = 0 /\ 0 <= MaxVersion
    BY CollectionAssumption
  <2> QED
    BY <2>1 DEF Init
<1>2. cli \in [Operators -> CliRows] /\ prep \in PrepRows /\ scan \in [Readers -> ScanRows]
  BY RestTypes DEF Init
<1>3. \A r \in Readers : scan[r].pc = "off"
  BY DEF Init, Resting
<1>4. file \in Files /\ tmp \in Files
  BY RestTypes DEF Init
<1> QED
  BY <1>1, <1>2, <1>3, <1>4, CollectionAssumption DEF Init, Types, TypeOK, CliRows, PrepRows, ScanRows

LEMMA BegunType ==
    ASSUME Types, Begun
    PROVE  starts' \in 0 .. MaxStarts
BY CollectionAssumption DEF Types, TypeOK, Begun

LEMMA CliType ==
    ASSUME Types, NEW p \in Operators,
           Start(p) \/ Fetch(p) \/ Mark(p) \/ Write(p) \/ Replace(p)
    PROVE  Types'
<1>0. /\ cli \in [Operators -> CliRows] /\ cli[p] \in CliRows /\ file \in Files /\ tmp \in Files
      /\ cli[p].view \in Checkpoints /\ file.view \in Checkpoints /\ cli[p].error \in BOOLEAN
      /\ cli[p].todo \in SUBSET Codes
  BY DEF Types, TypeOK, CliRows, Files
<1>a. ASSUME UNCHANGED cliOnly, cli' \in [Operators -> CliRows], file' \in Files, tmp' \in Files,
             UNCHANGED <<bars, done>>, skipped' \in SUBSET Codes, starts' \in 0 .. MaxStarts
      PROVE  Types'
  BY <1>a DEF Types, TypeOK, CliRows, cliOnly
<1>1. CASE Start(p)
  <2>0. Begun /\ UNCHANGED <<bars, file, tmp, done, skipped, cliOnly>>
    BY <1>1, Zenon DEF Start
  <2>1. starts' \in 0 .. MaxStarts
    BY <2>0, BegunType
  <2>2. PICK S \in SUBSET Codes, n \in {BatchLimit, Stocks}, marks \in BOOLEAN,
             chosen \in BOOLEAN :
          cli' = [cli EXCEPT ![p] = Started(First(n, S), marks, chosen)]
    <3>1. Remaining(file.view) \in SUBSET Codes /\ file.view.failures \in SUBSET Codes
      BY <1>0 DEF Remaining, Checkpoints
    <3> QED
      BY <1>1, <3>1 DEF Start
  <2>3. First(n, S) \in SUBSET Codes
    BY DEF First
  <2>4. Started(First(n, S), marks, chosen) \in CliRows
    BY <1>0, <2>3, RestTypes DEF Started, CliRows
  <2>5. cli' \in [Operators -> CliRows]
    BY <1>0, <2>2, <2>4
  <2> QED
    BY <1>0, <1>a, <2>0, <2>1, <2>5 DEF Types, TypeOK
<1>2. CASE Fetch(p)
  <2>1. PICK c \in cli[p].todo, failed \in BOOLEAN :
          /\ FetchStock(c, failed)
          /\ cli' = [cli EXCEPT ![p].pc = "mark", ![p].error = failed]
    BY <1>2, Zenon DEF Fetch
  <2>2. /\ bars' \in [Codes -> Seq(BOOLEAN)] /\ \A d \in Codes : Len(bars'[d]) <= MaxVersion
        /\ done' \in SUBSET Codes
    BY <1>0, <2>1, FetchStockType DEF Types
  <2>3. cli' \in [Operators -> CliRows]
    BY <1>0, <2>1 DEF CliRows
  <2>4. UNCHANGED <<file, tmp, skipped, starts, cliOnly>>
    BY <1>2, Zenon DEF Fetch
  <2> QED
    BY <2>2, <2>3, <2>4 DEF Types, TypeOK, CliRows, cliOnly
<1>3. CASE Mark(p)
  <2>1. PICK c \in cli[p].todo :
          /\ cli' = [cli EXCEPT ![p] = IF cli[p].marks THEN Marking(cli[p], c)
                                       ELSE GoOn(Passed(cli[p], c))]
          /\ tmp' = IF cli[p].marks THEN File("empty") ELSE tmp
          /\ skipped' = IF cli[p].chosen /\ cli[p].marks
                        THEN skipped \cup {d \in Codes : cli[p].view.cursor < d /\ d < c}
                        ELSE skipped
    BY <1>3, Zenon DEF Mark
  <2>2. Passed(cli[p], c) \in CliRows
    BY <1>0 DEF Passed, CliRows
  <2>3. Marked(cli[p].view, c, cli[p].error) \in Checkpoints
    BY <1>0, MarkedType
  <2>4. Marking(cli[p], c) \in CliRows
    BY <2>2, <2>3 DEF Marking, CliRows
  <2>5. GoOn(Passed(cli[p], c)) \in CliRows
    BY <2>2, RestTypes DEF GoOn, CliRows
  <2>6. cli' \in [Operators -> CliRows]
    BY <1>0, <2>1, <2>4, <2>5
  <2>7. tmp' \in Files
    BY <1>0, <2>1, RestTypes
  <2>8. skipped' \in SUBSET Codes
    BY <2>1 DEF Types, TypeOK
  <2>9. UNCHANGED <<bars, file, done, starts, cliOnly>>
    BY <1>3, Zenon DEF Mark
  <2> QED
    BY <1>0, <1>a, <2>6, <2>7, <2>8, <2>9 DEF Types, TypeOK
<1>4. CASE Write(p)
  <2>1. \A old \in Files : Overwritten(old, cli[p].view) \subseteq Files
    BY <1>0, RestTypes DEF Overwritten, Files
  <2>2. file' \in Files /\ tmp' \in Files
    BY <1>0, <1>4, <2>1 DEF Write
  <2>3. cli' \in [Operators -> CliRows]
    BY <1>0, <1>4 DEF Write, CliRows
  <2>4. UNCHANGED <<bars, done, skipped, starts, cliOnly>>
    BY <1>4, Zenon DEF Write
  <2> QED
    BY <1>a, <2>2, <2>3, <2>4 DEF Types, TypeOK
<1>5. CASE Replace(p)
  <2>1. \A run \in CliRows : Moved(run) \in CliRows
    BY DEF Moved, CliRows
  <2>2. GoOn(cli[p]) \in CliRows
    BY <1>0, RestTypes DEF GoOn, CliRows
  <2>3. /\ \/ cli' = [cli EXCEPT ![p] = Off]
           \/ cli' = [q \in Operators |-> IF q = p THEN GoOn(cli[p]) ELSE Moved(cli[q])]
        /\ file' = file \/ file' = tmp
        /\ tmp' = tmp \/ tmp' = File("absent")
        /\ UNCHANGED <<bars, done, skipped, starts, cliOnly>>
    BY <1>5 DEF Replace
  <2>4. cli' \in [Operators -> CliRows]
    BY <1>0, <2>1, <2>2, <2>3, RestTypes
  <2>5. file' \in Files /\ tmp' \in Files
    BY <1>0, <2>3, RestTypes
  <2> QED
    BY <1>a, <2>3, <2>4, <2>5 DEF Types, TypeOK
<1> QED
  BY <1>1, <1>2, <1>3, <1>4, <1>5

LEMMA SnapshotType ==
    ASSUME Types,
           HandBegin \/ InputsByHand
           \/ (\E r \in Readers : ReadStock(r) \/ Lock(r) \/ Persist(r))
    PROVE  Types'
<1>0. /\ scan \in [Readers -> ScanRows] /\ prep \in PrepRows
      /\ \A r \in Readers : scan[r].pc = "persist" => scan[r].locked # 0
      /\ \A c \in Codes : Len(bars[c]) \in Nat /\ Len(bars[c]) <= MaxVersion
      /\ clock \in 0 .. MaxLocks /\ snapshots \subseteq Snapshots
  BY DEF Types, TypeOK, PrepRows, ScanRows
<1>a. ASSUME UNCHANGED <<bars, done, cliState>>, starts' \in 0 .. MaxStarts,
             prep' \in PrepRows, clock' \in 0 .. MaxLocks,
             snapshots' \subseteq Snapshots, NEW r \in Readers, NEW row \in ScanRows,
             scan' = scan \/ scan' = [scan EXCEPT ![r] = row],
             row.pc = "persist" => row.locked # 0
      PROVE  Types'
  <2>1. scan' \in [Readers -> ScanRows]
    BY <1>0, <1>a
  <2>2. \A q \in Readers : scan'[q].pc = "persist" => scan'[q].locked # 0
    BY <1>0, <1>a
  <2> QED
    BY <1>a, <2>1, <2>2 DEF Types, TypeOK, PrepRows, ScanRows, cliState
<1>b. ASSUME UNCHANGED market
      PROVE  UNCHANGED cliState /\ starts' \in 0 .. MaxStarts
  BY <1>b DEF Types, TypeOK, market
<1>1. CASE HandBegin
  <2> DEFINE row == [Resting EXCEPT !.pc = "read", !.todo = Codes, !.base = Nothing]
  <2>1. row \in ScanRows /\ row.pc # "persist"
    BY RestTypes DEF ScanRows, Resting
  <2>2. scan' = [scan EXCEPT !["hand"] = row] /\ "hand" \in Readers
    BY <1>1 DEF HandBegin, Begin, Readers
  <2> HIDE DEF row
  <2> QED
    BY <1>0, <1>1, <1>a, <2>1, <2>2, BegunType DEF HandBegin
<1>2. CASE InputsByHand
  <2>1. snapshots' \subseteq Snapshots
    BY <1>2, InputsType DEF InputsByHand, Types
  <2>2. "hand" \in Readers /\ Resting \in ScanRows /\ Resting.pc # "persist"
    BY RestTypes DEF Readers, Resting
  <2> QED
    BY <1>0, <1>2, <1>a, <1>b, <2>1, <2>2 DEF InputsByHand
<1>3. ASSUME NEW r \in Readers, ReadStock(r)
      PROVE  Types'
  <2>1. PICK c \in scan[r].todo : \E v \in scan[r].base[c] .. Len(bars[c]) :
          scan' = [scan EXCEPT ![r].todo = @ \ {c}, ![r].seen[c] = v]
    BY <1>3 DEF ReadStock
  <2>2. PICK v \in scan[r].base[c] .. Len(bars[c]) :
          scan' = [scan EXCEPT ![r].todo = @ \ {c}, ![r].seen[c] = v]
    BY <2>1
  <2>3. c \in Codes /\ scan[r].base[c] \in 0 .. MaxVersion
    BY <1>0 DEF ScanRows, Contents
  <2>4. v \in 0 .. MaxVersion
    BY <1>0, <2>3, CollectionAssumption
  <2> DEFINE row == [scan[r] EXCEPT !.todo = @ \ {c}, !.seen[c] = v]
  <2>5. row \in ScanRows /\ row.pc # "persist"
    BY <1>0, <1>3, <2>4 DEF ScanRows, Contents, ReadStock
  <2>6. scan' = [scan EXCEPT ![r] = row]
    BY <1>0, <2>2
  <2> HIDE DEF row
  <2> QED
    BY <1>0, <1>3, <1>a, <1>b, <2>5, <2>6 DEF ReadStock
<1>4. ASSUME NEW r \in Readers, Lock(r)
      PROVE  Types'
  <2>1. CASE Lacking(scan[r].seen) = {}
    <3> DEFINE row == [Resting EXCEPT !.pc = "persist", !.seen = scan[r].seen,
                                      !.locked = clock + 1]
    <3>1. clock < MaxLocks /\ clock' = clock + 1 /\ prep' = prep
          /\ scan' = [scan EXCEPT ![r] = row]
      BY <1>4, <2>1 DEF Lock
    <3>2. /\ clock + 1 \in 0 .. MaxLocks /\ clock + 1 # 0
          /\ scan[r].seen \in Contents /\ Resting.todo \in SUBSET Codes
      BY <1>0, <3>1, RestTypes, CollectionAssumption DEF ScanRows
    <3>3. row \in ScanRows /\ (row.pc = "persist" => row.locked # 0)
      BY <1>0, <3>2, RestTypes DEF ScanRows, Resting
    <3> HIDE DEF row
    <3>4. clock' \in 0 .. MaxLocks
      BY <3>1, <3>2
    <3> QED
      BY <1>0, <1>4, <1>a, <1>b, <3>1, <3>3, <3>4 DEF Lock
  <2>2. CASE Lacking(scan[r].seen) # {}
    <3>1. /\ scan' = [scan EXCEPT ![r] = Resting] /\ clock' = clock
          /\ prep' = IF r = "worker" THEN Retried(Lacking(scan[r].seen)) ELSE prep
      BY <1>4, <2>2 DEF Lock
    <3>2. Retried(Lacking(scan[r].seen)) \in PrepRows
      <4>1. Lacking(scan[r].seen) \in SUBSET Codes
        BY DEF Lacking
      <4>2. prep.attempt + 1 < MaxAttempts => prep.attempt + 1 \in 0 .. MaxAttempts - 1
        BY <1>0, CollectionAssumption DEF PrepRows
      <4>3. Idle \in PrepRows
        BY RestTypes
      <4> QED
        BY <1>0, <4>1, <4>2, <4>3 DEF Retried, PrepRows
    <3>3. Resting \in ScanRows /\ Resting.pc # "persist"
      BY RestTypes DEF Resting
    <3> QED
      BY <1>0, <1>4, <1>a, <1>b, <3>1, <3>2, <3>3 DEF Lock
  <2> QED
    BY <2>1, <2>2
<1>5. ASSUME NEW r \in Readers, Persist(r)
      PROVE  Types'
  <2> DEFINE new == [content |-> scan[r].seen, locked |-> scan[r].locked, inputs |-> FALSE]
  <2>1. scan[r].locked \in 1 .. MaxLocks
    BY <1>0, <1>5, CollectionAssumption DEF Persist, ScanRows
  <2>2. new \in Snapshots
    BY <1>0, <2>1 DEF ScanRows, Snapshots
  <2>3. snapshots' = snapshots \/ snapshots' = snapshots \cup {new}
    BY <1>5 DEF Persist
  <2> HIDE DEF new
  <2>4. snapshots' \subseteq Snapshots
    BY <1>0, <2>2, <2>3
  <2>5. prep' \in PrepRows
    BY <1>0, <1>5 DEF Persist, PrepRows
  <2>6. Resting \in ScanRows /\ Resting.pc # "persist"
    BY RestTypes DEF Resting
  <2> QED
    BY <1>0, <1>5, <1>a, <1>b, <2>4, <2>5, <2>6 DEF Persist
<1> QED
  BY <1>1, <1>2, <1>3, <1>4, <1>5

LEMMA PrepareType ==
    ASSUME Types, Prepare \/ Crash
    PROVE  Types'
<1>0. /\ prep \in PrepRows /\ scan \in [Readers -> ScanRows] /\ cli \in [Operators -> CliRows]
      /\ \A r \in Readers : scan[r].pc = "persist" => scan[r].locked # 0
  BY DEF Types, TypeOK, PrepRows, ScanRows, CliRows
<1>a. ASSUME UNCHANGED <<bars, scan, snapshots, clock, done, cliState>>, prep' \in PrepRows,
             starts' \in 0 .. MaxStarts
      PROVE  Types'
  BY <1>a DEF Types, TypeOK, PrepRows, cliState
<1>b. ASSUME UNCHANGED market
      PROVE  UNCHANGED cliState /\ starts' \in 0 .. MaxStarts
  BY <1>b DEF Types, TypeOK, market
<1>1. CASE PrepBegin
  <2>1. prep' \in PrepRows
    BY <1>1, RestTypes DEF PrepBegin, Idle, PrepRows
  <2> QED
    BY <1>1, <1>a, <2>1, BegunType DEF PrepBegin
<1>2. CASE PrepCheck
  <2>1. prep' \in PrepRows
    BY <1>0, <1>2, RestTypes DEF PrepCheck, PrepRows
  <2> QED
    BY <1>2, <1>a, <1>b, <2>1 DEF PrepCheck
<1>3. CASE PrepFetch
  <2>1. PICK c \in prep.todo, failed \in BOOLEAN :
          /\ FetchStock(c, failed)
          /\ prep' = [prep EXCEPT !.todo = @ \ {c}]
    BY <1>3 DEF PrepFetch
  <2>2. c \in Codes
    BY <1>0 DEF PrepRows
  <2>3. /\ bars' \in [Codes -> Seq(BOOLEAN)] /\ \A d \in Codes : Len(bars'[d]) <= MaxVersion
        /\ done' \in SUBSET Codes
    BY <2>1, <2>2, FetchStockType DEF Types
  <2>4. prep' \in PrepRows
    BY <1>0, <2>1 DEF PrepRows
  <2> QED
    BY <1>3, <2>3, <2>4 DEF Types, TypeOK, PrepRows, PrepFetch, market, cliState
<1>4. CASE PrepMaterialize
  <2> DEFINE row == [Resting EXCEPT !.pc = "read", !.todo = Codes, !.base = Collected]
  <2>1. Collected \in Contents
    <3>1. 0 \in 0 .. MaxVersion /\ 1 \in 0 .. MaxVersion
      BY CollectionAssumption
    <3> QED
      BY <3>1 DEF Collected, Contents
  <2>2. row \in ScanRows /\ row.pc = "read"
    BY <2>1, RestTypes DEF ScanRows, Resting
  <2>3. scan' = [scan EXCEPT !["worker"] = row]
    BY <1>4 DEF PrepMaterialize, Begin
  <2> HIDE DEF row
  <2>4. /\ scan' \in [Readers -> ScanRows]
        /\ \A r \in Readers : scan'[r].pc = "persist" => scan'[r].locked # 0
    BY <1>0, <2>2, <2>3
  <2>5. prep' \in PrepRows
    BY <1>0, <1>4 DEF PrepMaterialize, PrepRows
  <2> QED
    BY <1>4, <2>4, <2>5 DEF Types, TypeOK, PrepRows, ScanRows, PrepMaterialize, market, cliState
<1>5. CASE PrepLookup
  <2>1. PICK n \in 1 .. MaxLocks : prep' = [Idle EXCEPT !.pc = "inputs", !.answer = n]
    BY <1>5 DEF PrepLookup
  <2>2. n \in 0 .. MaxLocks
    BY CollectionAssumption
  <2>3. prep' \in PrepRows
    BY <2>1, <2>2, RestTypes DEF Idle, PrepRows
  <2> QED
    BY <1>5, <1>a, <1>b, <2>3 DEF PrepLookup
<1>6. CASE PrepInputs
  <2>1. snapshots' \subseteq Snapshots
    BY <1>6, InputsType DEF PrepInputs, Types
  <2>2. prep' \in PrepRows
    BY <1>0, <1>6 DEF PrepInputs, PrepRows
  <2> QED
    BY <1>6, <2>1, <2>2 DEF Types, TypeOK, PrepRows, PrepInputs, market, cliState
<1>7. CASE Crash
  <2>1. cli' \in [Operators -> CliRows] /\ prep' \in PrepRows
    BY <1>0, <1>7, RestTypes DEF Crash
  <2>2. /\ scan' \in [Readers -> ScanRows]
        /\ \A r \in Readers : scan'[r].pc = "persist" => scan'[r].locked # 0
    <3>1. Resting \in ScanRows /\ Resting.pc # "persist"
      BY RestTypes DEF Resting
    <3> QED
      BY <1>0, <1>7, <3>1 DEF Crash
  <2> QED
    BY <1>7, <2>1, <2>2 DEF Types, TypeOK, PrepRows, ScanRows, CliRows, Crash
<1> QED
  BY <1>1, <1>2, <1>3, <1>4, <1>5, <1>6, <1>7 DEF Prepare

\* One step of the system keeps the types.
LEMMA TypesStep == Types /\ [Next]_vars => Types'
<1> SUFFICES ASSUME Types, [Next]_vars
             PROVE  Types'
  OBVIOUS
<1>1. CASE \E p \in Operators : Start(p) \/ Fetch(p) \/ Mark(p) \/ Write(p) \/ Replace(p)
  BY <1>1, CliType
<1>2. CASE HandBegin \/ InputsByHand \/ (\E r \in Readers : ReadStock(r) \/ Lock(r) \/ Persist(r))
  BY <1>2, SnapshotType
<1>3. CASE Prepare \/ Crash
  BY <1>3, PrepareType
<1>4. CASE UNCHANGED vars
  BY <1>4 DEF vars, Types, TypeOK
<1> QED
  BY <1>1, <1>2, <1>3, <1>4 DEF Next

\* Every variable keeps its type, for any number of stocks, dates and operators.
THEOREM TypeCorrect == Spec => []TypeOK
<1>1. Spec => []Types
  BY InitType, TypesStep, PTL DEF Spec
<1>2. Types => TypeOK
  BY DEF Types
<1> QED
  BY <1>1, <1>2, PTL

-----------------------------------------------------------------------------
(* The checkpoint                                                          *)

\* What a checkpoint view promises, given the stocks that are known to be collected or
\* skipped, and that it lists no failure ahead of its cursor.
Covered(view, known) == \A c \in Codes : c <= view.cursor => c \in known \cup view.failures
Behind(view) == \A c \in view.failures : c <= view.cursor
Kept(view, known) == Covered(view, known) /\ Behind(view)

\* A run without chosen codes leaves out none between its cursor and its codes, and
\* one that is about to mark a success has just seen it confirmed.
Orderly(r) == ~ r.chosen => \A c \in r.todo, d \in Codes : r.view.cursor < d /\ d < c => d \in r.todo
Honest(r, known) ==
    r.pc = "mark" /\ ~ r.error => \A c \in r.todo : IsFirst(c, r.todo) => c \in known

\* Every run that writes carries a view that could be the file: this is why it does no
\* harm that concurrent runs write into, empty and replace each other's files.
Sound(r, known) ==
    /\ r.marks => Covered(r.view, known)
    /\ r.pc = "write" => r.marks
    /\ Behind(r.view) /\ Orderly(r) /\ Honest(r, known)
    /\ r.pc # "off" => r.marks \/ r.chosen

Known == done \cup skipped

CheckpointInv ==
    /\ Kept(file.view, Known) /\ Kept(tmp.view, Known)
    /\ \A p \in Operators : Sound(cli[p], Known)

\* A run that is off, and a file without a readable checkpoint, promise nothing.
LEMMA NothingPromised ==
    ASSUME NEW known
    PROVE  /\ Kept(NewCheckpoint, known) /\ Sound(Off, known)
           /\ \A state : File(state).view = NewCheckpoint
<1>1. \A c \in Codes : ~ c <= 0
  BY CollectionAssumption DEF Codes
<1>2. Kept(NewCheckpoint, known)
  BY <1>1 DEF Kept, Covered, Behind, NewCheckpoint
<1>3. Sound(Off, known)
  BY <1>2 DEF Kept, Sound, Off, Orderly, Honest
<1> QED
  BY <1>2, <1>3 DEF File

\* What is known only grows, and a run's promises are not about its open file.
LEMMA PromisesStay ==
    ASSUME NEW known, NEW more, known \subseteq more
    PROVE  /\ \A view : Kept(view, known) => Kept(view, more)
           /\ \A r, q : /\ Sound(r, known)
                        /\ q.view = r.view /\ q.todo = r.todo /\ q.pc = r.pc
                        /\ q.error = r.error /\ q.marks = r.marks /\ q.chosen = r.chosen
                        => Sound(q, more)
<1>1. \A view : Covered(view, known) => Covered(view, more)
  BY DEF Covered
<1>2. ASSUME NEW r, NEW q, Sound(r, known),
             q.view = r.view, q.todo = r.todo, q.pc = r.pc,
             q.error = r.error, q.marks = r.marks, q.chosen = r.chosen
      PROVE  Sound(q, more)
  <2>1. Orderly(q) /\ Honest(q, more) /\ Behind(q.view)
    BY <1>2, Zenon DEF Sound, Orderly, Honest, Behind
  <2>2. q.marks => Covered(q.view, more)
    BY <1>1, <1>2, Zenon DEF Sound
  <2> QED
    BY <1>2, <2>1, <2>2, Zenon DEF Sound
<1> QED
  BY <1>1, <1>2, Zenon DEF Kept

\* A mark of the next code in order, or behind stocks that are known, keeps a view true.
LEMMA MarkedKept ==
    ASSUME NEW view \in Checkpoints, NEW c \in Codes, NEW failed \in BOOLEAN,
           NEW known, ~ failed => c \in known, Kept(view, known),
           \A d \in Codes : view.cursor < d /\ d < c => d \in known
    PROVE  Kept(Marked(view, c, failed), known)
<1>1. view.cursor \in Nat /\ Codes \subseteq Nat /\ view.failures \subseteq Codes
  BY CollectionAssumption DEF Checkpoints, Codes
<1> DEFINE next == Marked(view, c, failed)
<1>2. /\ next.cursor = IF c > view.cursor THEN c ELSE view.cursor
      /\ next.failures = IF failed THEN view.failures \cup {c} ELSE view.failures \ {c}
  BY DEF Marked
<1> HIDE DEF next
<1>3. next.cursor \in Nat /\ view.cursor <= next.cursor /\ c <= next.cursor
  BY <1>1, <1>2
<1>4. ASSUME NEW d \in Codes, d <= next.cursor
      PROVE  d \in known \cup next.failures
  <2>1. d <= view.cursor \/ (view.cursor < d /\ d < c) \/ d = c
    BY <1>1, <1>2, <1>4
  <2>2. CASE d = c
    BY <1>2, <2>2
  <2>3. CASE d # c
    BY <1>2, <1>4, <2>1, <2>3 DEF Kept, Covered
  <2> QED
    BY <2>2, <2>3
<1>5. ASSUME NEW d \in next.failures
      PROVE  d <= next.cursor
  <2>1. CASE d = c
    BY <1>3, <2>1
  <2>2. CASE d # c
    <3>1. d \in view.failures /\ d \in Nat /\ d <= view.cursor
      BY <1>1, <1>2, <1>5, <2>2 DEF Kept, Behind
    <3> QED
      BY <1>1, <1>3, <3>1
  <2> QED
    BY <2>1, <2>2
<1> QED
  BY <1>4, <1>5 DEF Kept, Covered, Behind, next

\* A stock's collection confirms it unless it fails, and forgets no confirmation.
LEMMA FetchConfirms ==
    ASSUME NEW c \in Codes, NEW failed \in BOOLEAN, FetchStock(c, failed)
    PROVE  done \subseteq done' /\ (~ failed => c \in done')
BY UnfailedIsConfirmed DEF FetchStock

\* Steps that leave the files and one run aside keep what they promise.
LEMMA OthersSound ==
    ASSUME TypeOK, CheckpointInv, Known \subseteq Known'
    PROVE  /\ file' = file => Kept(file.view, Known)'
           /\ tmp' = tmp => Kept(tmp.view, Known)'
           /\ \A p \in Operators : cli'[p] = cli[p] \/ cli'[p] = Off => Sound(cli[p], Known)'
<1>1. Kept(file.view, Known') /\ Kept(tmp.view, Known')
  BY PromisesStay DEF CheckpointInv
<1>2. \A p \in Operators : Sound(cli[p], Known')
  BY PromisesStay DEF CheckpointInv
<1>3. Sound(Off, Known')
  BY NothingPromised
<1> QED
  BY <1>1, <1>2, <1>3

LEMMA StartKeeps ==
    ASSUME TypeOK, CheckpointInv, NEW p \in Operators, Start(p)
    PROVE  CheckpointInv'
<1>1. UNCHANGED <<file, tmp, done, skipped>>
  BY Zenon DEF Start
<1>2. PICK S \in SUBSET Codes, n \in {BatchLimit, Stocks}, marks \in BOOLEAN, chosen \in BOOLEAN :
        /\ cli' = [cli EXCEPT ![p] = Started(First(n, S), marks, chosen)]
        /\ chosen \/ (marks /\ (S = Remaining(file.view) \/ S = file.view.failures))
  BY DEF Start, Remaining, TypeOK, Files, Checkpoints
<1> DEFINE run == Started(First(n, S), marks, chosen)
<1>3. /\ run.pc = "fetch" /\ run.todo = First(n, S) /\ run.chosen = chosen /\ run.marks = marks
      /\ run.view = IF marks THEN file.view ELSE NewCheckpoint
      /\ cli'[p] = run /\ \A q \in Operators \ {p} : cli'[q] = cli[q]
  BY <1>2 DEF TypeOK, Started, Off
<1> HIDE DEF run
<1>4. Kept(file.view, Known) /\ Kept(NewCheckpoint, Known) /\ Known' = Known
  BY <1>1, NothingPromised DEF CheckpointInv, Known
<1>5. Orderly(run)
  <2> SUFFICES ASSUME ~ chosen, NEW c \in First(n, S), NEW d \in Codes,
                      file.view.cursor < d, d < c
               PROVE  d \in First(n, S)
    BY <1>2, <1>3 DEF Orderly
  <2>1. n \in Nat
    BY CollectionAssumption
  <2>2. c \in S /\ c \in Nat /\ d \in Nat /\ file.view.cursor \in Nat
    BY CollectionAssumption DEF First, Codes, TypeOK, Files, Checkpoints
  <2>3. ~ c <= file.view.cursor
    BY <2>2
  <2>4. S # file.view.failures
    BY <1>4, <2>2, <2>3 DEF Kept, Behind
  <2>5. d \in S
    BY <1>2, <2>4 DEF Remaining
  <2> QED
    BY <2>1, <2>5, FirstIsInitial
<1>6. Sound(run, Known)
  BY <1>2, <1>3, <1>4, <1>5 DEF Sound, Honest, Kept
<1>7. \A q \in Operators : Sound(cli'[q], Known)
  BY <1>3, <1>6 DEF CheckpointInv
<1> QED
  BY <1>1, <1>4, <1>7 DEF CheckpointInv

LEMMA FetchKeeps ==
    ASSUME TypeOK, CheckpointInv, NEW p \in Operators, Fetch(p)
    PROVE  CheckpointInv'
<1>1. PICK c \in cli[p].todo, failed \in BOOLEAN :
        /\ IsFirst(c, cli[p].todo) /\ FetchStock(c, failed)
        /\ cli' = [cli EXCEPT ![p].pc = "mark", ![p].error = failed]
  BY Zenon DEF Fetch
<1>2. /\ cli[p].todo \in SUBSET Codes /\ cli[p].pc = "fetch"
      /\ Codes \subseteq Nat
  BY CollectionAssumption DEF TypeOK, Fetch, Codes
<1>3. UNCHANGED <<file, tmp, skipped>>
  BY Zenon DEF Fetch
<1>4. Known \subseteq Known' /\ (~ failed => c \in Known')
  BY <1>1, <1>2, <1>3, FetchConfirms DEF Known
<1>5. /\ cli'[p].todo = cli[p].todo /\ cli'[p].marks = cli[p].marks
      /\ cli'[p].chosen = cli[p].chosen /\ cli'[p].view = cli[p].view
      /\ cli'[p].error = failed /\ cli'[p].pc = "mark"
      /\ \A q \in Operators \ {p} : cli'[q] = cli[q]
  BY <1>1 DEF TypeOK
<1>6. Honest(cli'[p], Known')
  <2>1. \A d \in cli[p].todo : IsFirst(d, cli[p].todo) => d = c
    BY <1>1, <1>2 DEF IsFirst
  <2> QED
    BY <1>4, <1>5, <2>1 DEF Honest, IsFirst
<1>7. /\ cli'[p].marks => Covered(cli'[p].view, Known')
      /\ Behind(cli'[p].view) /\ Orderly(cli'[p])
      /\ cli'[p].marks \/ cli'[p].chosen
  BY <1>2, <1>4, <1>5 DEF CheckpointInv, Sound, Covered, Orderly
<1>8. Sound(cli'[p], Known')
  BY <1>5, <1>6, <1>7 DEF Sound
<1>9. \A q \in Operators \ {p} : Sound(cli'[q], Known')
  BY <1>4, <1>5, OthersSound
<1> QED
  BY <1>3, <1>4, <1>8, <1>9, OthersSound DEF CheckpointInv

LEMMA MarkKeeps ==
    ASSUME TypeOK, CheckpointInv, NEW p \in Operators, Mark(p)
    PROVE  CheckpointInv'
<1> DEFINE jumped(c) == {d \in Codes : cli[p].view.cursor < d /\ d < c}
<1>1. PICK c \in cli[p].todo :
        /\ IsFirst(c, cli[p].todo)
        /\ cli' = [cli EXCEPT ![p] = IF cli[p].marks THEN Marking(cli[p], c)
                                     ELSE GoOn(Passed(cli[p], c))]
        /\ tmp' = IF cli[p].marks THEN File("empty") ELSE tmp
        /\ skipped' = IF cli[p].chosen /\ cli[p].marks THEN skipped \cup jumped(c) ELSE skipped
  BY Zenon DEF Mark
<1>2. /\ cli[p].view \in Checkpoints /\ c \in Codes /\ cli[p].error \in BOOLEAN
      /\ cli[p].view.cursor \in Nat /\ Codes \subseteq Nat /\ cli[p].todo \subseteq Codes
      /\ cli[p].marks \in BOOLEAN /\ cli[p].chosen \in BOOLEAN
  BY CollectionAssumption DEF TypeOK, Codes, Checkpoints
<1>3. done' = done /\ file' = file /\ cli[p].pc = "mark"
  BY Zenon DEF Mark
<1>4. Known \subseteq Known' /\ Sound(cli[p], Known)
  BY <1>1, <1>3 DEF CheckpointInv, Known
<1> DEFINE rest == Passed(cli[p], c)
<1>5. /\ rest.todo = cli[p].todo \ {c} /\ rest.error = FALSE /\ rest.view = cli[p].view
      /\ rest.marks = cli[p].marks /\ rest.chosen = cli[p].chosen /\ rest.pc = "mark"
  BY <1>3 DEF Passed, TypeOK
<1>6. cli'[p] = IF cli[p].marks THEN Marking(cli[p], c) ELSE GoOn(rest)
  BY <1>1 DEF TypeOK
<1>7. Sound(cli'[p], Known')
  <2>1. CASE cli[p].marks
    <3> DEFINE run == Marking(cli[p], c)
               view == Marked(cli[p].view, c, cli[p].error)
    <3>1. /\ run.todo = cli[p].todo \ {c} /\ run.view = view /\ run.marks = cli[p].marks
          /\ run.chosen = cli[p].chosen /\ run.pc = "write"
      BY <1>5 DEF Marking, Passed, TypeOK
    <3>2. \A d \in Codes : cli[p].view.cursor < d /\ d < c => d \in Known'
      <4>1. CASE cli[p].chosen
        BY <1>1, <2>1, <4>1 DEF Known
      <4>2. CASE ~ cli[p].chosen
        <5>1. \A d \in Codes : cli[p].view.cursor < d /\ d < c => d \in cli[p].todo
          BY <1>4, <4>2 DEF Sound, Orderly
        <5>2. \A d \in cli[p].todo : c <= d
          BY <1>1 DEF IsFirst
        <5> QED
          BY <1>2, <5>1, <5>2
      <4> QED
        BY <4>1, <4>2
    <3>3. ~ cli[p].error => c \in Known'
      BY <1>1, <1>3, <1>4 DEF Sound, Honest
    <3>4. Kept(cli[p].view, Known')
      BY <1>4, <2>1, PromisesStay DEF Sound, Kept
    <3>5. Kept(view, Known')
      BY <1>2, <3>2, <3>3, <3>4, MarkedKept
    <3>6. cli[p].view.cursor <= view.cursor /\ c <= view.cursor /\ view.cursor \in Nat
      BY <1>2 DEF Marked
    <3> HIDE DEF run, view
    <3>7. Orderly(run)
      <4> SUFFICES ASSUME ~ cli[p].chosen, NEW x \in cli[p].todo \ {c}, NEW d \in Codes,
                          view.cursor < d, d < x
                   PROVE  d \in cli[p].todo \ {c}
        BY <3>1 DEF Orderly
      <4>1. cli[p].view.cursor < d /\ c < d
        BY <1>2, <3>6
      <4>2. d \in cli[p].todo
        BY <1>4, <4>1 DEF Sound, Orderly
      <4> QED
        BY <1>2, <4>1, <4>2
    <3>8. cli'[p] = run
      BY <1>6, <2>1 DEF run
    <3> QED
      BY <2>1, <3>1, <3>5, <3>7, <3>8 DEF Sound, Kept, Honest
  <2>2. CASE ~ cli[p].marks
    <3>1. CASE rest.todo = {}
      BY <1>6, <2>2, <3>1, NothingPromised DEF GoOn
    <3>2. CASE rest.todo # {}
      <4> DEFINE run == GoOn(rest)
      <4>1. /\ run.todo = cli[p].todo \ {c} /\ run.view = cli[p].view
            /\ run.marks = cli[p].marks /\ run.chosen = cli[p].chosen /\ run.pc = "fetch"
        BY <1>5, <3>2 DEF GoOn, Passed, TypeOK
      <4>2. cli'[p] = run
        BY <1>6, <2>2
      <4> HIDE DEF run
      <4>3. Orderly(run)
        BY <1>3, <1>4, <2>2, <4>1 DEF Sound, Orderly
      <4> QED
        BY <1>3, <1>4, <2>2, <4>1, <4>2, <4>3 DEF Sound, Honest
    <3> QED
      BY <3>1, <3>2
  <2> QED
    BY <1>2, <2>1, <2>2
<1>8. \A q \in Operators \ {p} : Sound(cli'[q], Known')
  <2>1. \A q \in Operators \ {p} : cli'[q] = cli[q]
    BY <1>1 DEF TypeOK
  <2> QED
    BY <1>4, <2>1, OthersSound
<1>9. Kept(file'.view, Known') /\ Kept(tmp'.view, Known')
  BY <1>1, <1>3, <1>4, OthersSound, NothingPromised
<1> QED
  BY <1>7, <1>8, <1>9 DEF CheckpointInv

LEMMA WriteKeeps ==
    ASSUME TypeOK, CheckpointInv, NEW p \in Operators, Write(p)
    PROVE  CheckpointInv'
<1>1. /\ UNCHANGED <<done, skipped>> /\ cli[p].pc = "write"
      /\ cli' = [cli EXCEPT ![p].pc = "replace", ![p].fd = "none"]
  BY Zenon DEF Write
<1>2. Known' = Known /\ Sound(cli[p], Known)
  BY <1>1 DEF CheckpointInv, Known
<1>3. Kept(cli[p].view, Known)
  BY <1>1, <1>2 DEF Sound, Kept
<1>4. \A old : \A f \in Overwritten(old, cli[p].view) : Kept(f.view, Known)
  BY <1>3, NothingPromised DEF Overwritten
<1>5. Kept(file'.view, Known) /\ Kept(tmp'.view, Known)
  BY <1>4 DEF Write, CheckpointInv
<1>6. /\ cli'[p].todo = cli[p].todo /\ cli'[p].marks = cli[p].marks
      /\ cli'[p].chosen = cli[p].chosen /\ cli'[p].view = cli[p].view
      /\ cli'[p].pc = "replace"
      /\ \A q \in Operators \ {p} : cli'[q] = cli[q]
  BY <1>1 DEF TypeOK
<1>7. Sound(cli'[p], Known)
  BY <1>1, <1>2, <1>6 DEF Sound, Orderly, Honest
<1> QED
  BY <1>2, <1>5, <1>6, <1>7 DEF CheckpointInv

LEMMA ReplaceKeeps ==
    ASSUME TypeOK, CheckpointInv, NEW p \in Operators, Replace(p)
    PROVE  CheckpointInv'
<1>1. UNCHANGED <<done, skipped>> /\ cli[p].pc = "replace"
  BY Zenon DEF Replace
<1>2. Known' = Known /\ \A q \in Operators : Sound(cli[q], Known)
  BY <1>1 DEF CheckpointInv, Known
<1>3. Sound(Off, Known) /\ Kept(NewCheckpoint, Known) /\ File("absent").view = NewCheckpoint
  BY NothingPromised
<1>4. CASE tmp.state = "absent"
  <2>1. UNCHANGED <<file, tmp>> /\ cli' = [cli EXCEPT ![p] = Off]
    BY <1>4 DEF Replace
  <2>2. \A q \in Operators : Sound(cli'[q], Known)
    BY <1>2, <1>3, <2>1 DEF TypeOK
  <2> QED
    BY <1>2, <2>1, <2>2 DEF CheckpointInv
<1>5. CASE tmp.state # "absent"
  <2>1. /\ file' = tmp /\ tmp' = File("absent")
        /\ cli' = [q \in Operators |-> IF q = p THEN GoOn(cli[p]) ELSE Moved(cli[q])]
    BY <1>5 DEF Replace
  <2>2. Sound(GoOn(cli[p]), Known)
    <3>1. CASE cli[p].todo = {}
      BY <1>3, <3>1 DEF GoOn
    <3>2. CASE cli[p].todo # {}
      <4> DEFINE run == GoOn(cli[p])
      <4>1. /\ run.todo = cli[p].todo /\ run.view = cli[p].view
            /\ run.marks = cli[p].marks /\ run.chosen = cli[p].chosen /\ run.pc = "fetch"
        BY <3>2 DEF GoOn, TypeOK
      <4> HIDE DEF run
      <4>2. Sound(run, Known)
        BY <1>1, <1>2, <4>1 DEF Sound, Orderly, Honest
      <4> QED
        BY <4>2 DEF run
    <3> QED
      BY <3>1, <3>2
  <2>3. ASSUME NEW q \in Operators
        PROVE  Sound(Moved(cli[q]), Known)
    <3>1. LET run == Moved(cli[q])
          IN  /\ run.view = cli[q].view /\ run.todo = cli[q].todo /\ run.pc = cli[q].pc
              /\ run.error = cli[q].error /\ run.marks = cli[q].marks
              /\ run.chosen = cli[q].chosen
      BY DEF Moved, TypeOK
    <3> QED
      BY <1>2, <3>1, PromisesStay
  <2>4. \A q \in Operators : Sound(cli'[q], Known)
    BY <2>1, <2>2, <2>3
  <2> QED
    BY <1>2, <1>3, <2>1, <2>4 DEF CheckpointInv
<1> QED
  BY <1>4, <1>5

LEMMA OthersKeepCheckpoint ==
    ASSUME TypeOK, CheckpointInv,
           \/ Prepare \/ Crash \/ HandBegin \/ InputsByHand
           \/ \E r \in Readers : ReadStock(r) \/ Lock(r) \/ Persist(r)
    PROVE  CheckpointInv'
<1>1. CASE PrepFetch
  <2>1. PICK c \in prep.todo, failed \in BOOLEAN : FetchStock(c, failed)
    BY <1>1, Zenon DEF PrepFetch
  <2>2. UNCHANGED <<file, tmp, cli, skipped>>
    BY <1>1 DEF PrepFetch, market, cliState
  <2>3. c \in Codes
    BY DEF TypeOK
  <2>4. Known \subseteq Known'
    BY <2>1, <2>2, <2>3, FetchConfirms DEF Known
  <2> QED
    BY <2>2, <2>4, OthersSound DEF CheckpointInv
<1>2. CASE \/ PrepBegin \/ PrepCheck \/ PrepMaterialize \/ PrepLookup \/ PrepInputs
           \/ HandBegin \/ InputsByHand
           \/ \E r \in Readers : ReadStock(r) \/ Lock(r) \/ Persist(r)
  <2>1. UNCHANGED <<file, tmp, cli, skipped, done>>
    BY <1>2 DEF PrepBegin, PrepCheck, PrepMaterialize, PrepLookup, PrepInputs, HandBegin,
                InputsByHand, ReadStock, Lock, Persist, market, cliState
  <2> QED
    BY <2>1 DEF CheckpointInv, Known
<1>3. CASE Crash
  <2>1. UNCHANGED <<file, tmp, skipped, done>> /\ Known' = Known
    BY <1>3 DEF Crash, Known
  <2>2. \A p \in Operators : cli'[p] = cli[p] \/ cli'[p] = Off
    BY <1>3 DEF Crash, TypeOK
  <2> QED
    BY <2>1, <2>2, OthersSound DEF CheckpointInv
<1> QED
  BY <1>1, <1>2, <1>3 DEF Prepare

\* No checkpoint that can be read forgets a stock, whatever runs die, resume or overlap.
THEOREM NothingForgotten == Spec => []NoStockForgotten
<1>1. Init => CheckpointInv
  <2> SUFFICES ASSUME Init
               PROVE  CheckpointInv
    OBVIOUS
  <2> QED
    BY NothingPromised DEF Init, CheckpointInv
<1>2. TypeOK /\ CheckpointInv /\ [Next]_vars => CheckpointInv'
  <2> SUFFICES ASSUME TypeOK, CheckpointInv, [Next]_vars
               PROVE  CheckpointInv'
    OBVIOUS
  <2>1. CASE \E p \in Operators : Start(p) \/ Fetch(p) \/ Mark(p) \/ Write(p) \/ Replace(p)
    BY <2>1, StartKeeps, FetchKeeps, MarkKeeps, WriteKeeps, ReplaceKeeps
  <2>2. CASE \/ Prepare \/ Crash \/ HandBegin \/ InputsByHand
             \/ \E r \in Readers : ReadStock(r) \/ Lock(r) \/ Persist(r)
    BY <2>2, OthersKeepCheckpoint
  <2>3. CASE UNCHANGED vars
    BY <2>3 DEF vars, CheckpointInv, Known
  <2> QED
    BY <2>1, <2>2, <2>3 DEF Next
<1>3. CheckpointInv => NoStockForgotten
  BY DEF CheckpointInv, Kept, Covered, Known, NoStockForgotten
<1> QED
  BY <1>1, <1>2, <1>3, TypeCorrect, PTL DEF Spec

-----------------------------------------------------------------------------
(* The snapshots                                                           *)

\* What of a content is stored; and a content whose every version is, and is usable.
Read(content, known) == \A c \in Codes : content[c] <= Len(known[c])
Whole(content, known) ==
    \A c \in Codes : content[c] \in 1 .. Len(known[c]) /\ known[c][content[c]]

\* The inductive invariant: what is read is stored, what waits to be stored is whole, and
\* an answer whose inputs are to be stored is a snapshot.
SnapshotInv ==
    /\ \A s \in snapshots : Whole(s.content, bars)
    /\ \A r \in Readers : /\ Read(scan[r].seen, bars)
                          /\ scan[r].pc = "persist" => Whole(scan[r].seen, bars)
    /\ prep.pc = "inputs" => IsStored(prep.answer)
    /\ prep.pc = "ready" => HasInputs(prep.answer)

\* Versions are added, never changed: what was read or whole stays so.
LEMMA WholeStays ==
    ASSUME NEW known \in [Codes -> Seq(BOOLEAN)], NEW more \in [Codes -> Seq(BOOLEAN)],
           \A c \in Codes : /\ Len(known[c]) <= Len(more[c])
                            /\ \A v \in 1 .. Len(known[c]) : more[c][v] = known[c][v],
           NEW content \in Contents
    PROVE  /\ Read(content, known) => Read(content, more)
           /\ Whole(content, known) => Whole(content, more)
<1>1. \A c \in Codes : content[c] \in Nat /\ Len(known[c]) \in Nat /\ Len(more[c]) \in Nat
  BY CollectionAssumption DEF Contents
<1>2. Read(content, known) => Read(content, more)
  BY <1>1 DEF Read
<1>3. ASSUME Whole(content, known), NEW c \in Codes
      PROVE  content[c] \in 1 .. Len(more[c]) /\ more[c][content[c]]
  <2>1. content[c] \in 1 .. Len(known[c]) /\ known[c][content[c]]
    BY <1>3 DEF Whole
  <2>2. more[c][content[c]] = known[c][content[c]]
    BY <2>1
  <2>3. content[c] \in 1 .. Len(more[c])
    BY <1>1, <2>1
  <2> QED
    BY <2>1, <2>2, <2>3
<1> QED
  BY <1>2, <1>3 DEF Whole

LEMMA NothingRead == ASSUME TypeOK PROVE Read(Nothing, bars) /\ Resting.seen = Nothing
<1>1. \A c \in Codes : Len(bars[c]) \in Nat
  BY DEF TypeOK
<1> QED
  BY <1>1 DEF Read, Nothing, Resting

\* A collected stock leaves contents what they were.
LEMMA FetchKeepsSnapshots ==
    ASSUME TypeOK, SnapshotInv, NEW c \in Codes, NEW failed \in BOOLEAN, FetchStock(c, failed),
           UNCHANGED <<scan, snapshots>>,
           prep' = prep \/ prep'.pc = "ingest"
    PROVE  SnapshotInv'
<1>1. /\ bars \in [Codes -> Seq(BOOLEAN)] /\ bars' \in [Codes -> Seq(BOOLEAN)]
      /\ \A d \in Codes : /\ Len(bars[d]) <= Len(bars'[d])
                         /\ \A v \in 1 .. Len(bars[d]) : bars'[d][v] = bars[d][v]
  BY FetchStockType DEF TypeOK
<1>2. /\ \A s \in snapshots : s.content \in Contents
      /\ \A r \in Readers : scan[r].seen \in Contents
  BY DEF TypeOK, Snapshots
<1>3. \A s \in snapshots : Whole(s.content, bars')
  BY <1>1, <1>2, WholeStays DEF SnapshotInv
<1>4. \A r \in Readers : /\ Read(scan[r].seen, bars')
                         /\ scan[r].pc = "persist" => Whole(scan[r].seen, bars')
  BY <1>1, <1>2, WholeStays DEF SnapshotInv
<1>5. /\ prep'.pc = "inputs" => IsStored(prep.answer)'
      /\ prep'.pc = "ready" => HasInputs(prep.answer)'
  BY DEF SnapshotInv, IsStored, HasInputs
<1> QED
  BY <1>3, <1>4, <1>5 DEF SnapshotInv

\* A reader that turns to a row of its own, with the bars as they were.
LEMMA ScanKeepsSnapshots ==
    ASSUME TypeOK, SnapshotInv, UNCHANGED <<bars, snapshots>>,
           NEW r \in Readers, NEW row, scan' = [scan EXCEPT ![r] = row],
           Read(row.seen, bars), row.pc = "persist" => Whole(row.seen, bars),
           prep' = prep \/ prep'.pc \notin {"inputs", "ready"}
    PROVE  SnapshotInv'
<1>1. scan'[r] = row /\ \A q \in Readers \ {r} : scan'[q] = scan[q]
  BY DEF TypeOK
<1>2. \A q \in Readers : /\ Read(scan'[q].seen, bars)
                         /\ scan'[q].pc = "persist" => Whole(scan'[q].seen, bars)
  BY <1>1 DEF SnapshotInv
<1>3. /\ prep'.pc = "inputs" => IsStored(prep.answer)'
      /\ prep'.pc = "ready" => HasInputs(prep.answer)'
  BY DEF SnapshotInv, IsStored, HasInputs
<1> QED
  BY <1>2, <1>3 DEF SnapshotInv

\* To begin is to have read nothing yet.
LEMMA BeginKeepsSnapshots ==
    ASSUME TypeOK, SnapshotInv, UNCHANGED <<bars, snapshots>>,
           NEW r \in Readers, NEW base, Begin(r, base),
           prep' = prep \/ prep'.pc \notin {"inputs", "ready"}
    PROVE  SnapshotInv'
<1> DEFINE row == [Resting EXCEPT !.pc = "read", !.todo = Codes, !.base = base]
<1>1. row.seen = Resting.seen /\ row.pc # "persist" /\ scan' = [scan EXCEPT ![r] = row]
  BY DEF Resting, Begin
<1> HIDE DEF row
<1>2. Read(row.seen, bars)
  BY <1>1, NothingRead
<1> QED
  BY <1>1, <1>2, ScanKeepsSnapshots

LEMMA ReadKeepsSnapshots ==
    ASSUME TypeOK, SnapshotInv, NEW r \in Readers, ReadStock(r)
    PROVE  SnapshotInv'
<1>0. PICK c \in scan[r].todo : \E v \in scan[r].base[c] .. Len(bars[c]) :
        scan' = [scan EXCEPT ![r].todo = @ \ {c}, ![r].seen[c] = v]
  BY DEF ReadStock
<1>1. PICK v \in scan[r].base[c] .. Len(bars[c]) :
        scan' = [scan EXCEPT ![r].todo = @ \ {c}, ![r].seen[c] = v]
  BY <1>0
<1>2. UNCHANGED <<bars, snapshots, prep>> /\ scan[r].pc = "read"
  BY Zenon DEF ReadStock
<1>3. /\ scan[r] \in ScanRows /\ c \in Codes
      /\ \A d \in Codes : Len(bars[d]) \in Nat
  BY DEF TypeOK, ScanRows
<1> DEFINE row == [scan[r] EXCEPT !.todo = @ \ {c}, !.seen[c] = v]
<1>4. scan' = [scan EXCEPT ![r] = row]
  BY <1>1 DEF TypeOK
<1>5. row.pc = "read" /\ row.seen = [scan[r].seen EXCEPT ![c] = v]
  BY <1>2, <1>3 DEF ScanRows
<1> HIDE DEF row
<1>6. Read(scan[r].seen, bars)
  BY DEF SnapshotInv
<1>7. v <= Len(bars[c]) /\ scan[r].seen \in [Codes -> 0 .. MaxVersion]
  <2>1. scan[r].base[c] \in Nat /\ scan[r].seen \in Contents
    BY <1>3, CollectionAssumption DEF ScanRows, Contents
  <2> QED
    BY <1>3, <2>1 DEF Contents
<1>8. Read(row.seen, bars)
  BY <1>3, <1>5, <1>6, <1>7 DEF Read
<1> QED
  BY <1>2, <1>4, <1>5, <1>8, ScanKeepsSnapshots

\* What is locked covers every stock with a usable version that was read.
LEMMA LockKeepsSnapshots ==
    ASSUME TypeOK, SnapshotInv, NEW r \in Readers, Lock(r)
    PROVE  SnapshotInv'
<1>1. UNCHANGED <<bars, snapshots>>
  BY Zenon DEF Lock
<1>2. CASE /\ Lacking(scan[r].seen) = {}
           /\ scan' = [scan EXCEPT ![r] = [Resting EXCEPT !.pc = "persist",
                                                          !.seen = scan[r].seen,
                                                          !.locked = clock + 1]]
           /\ UNCHANGED prep
  <2> DEFINE row == [Resting EXCEPT !.pc = "persist", !.seen = scan[r].seen, !.locked = clock + 1]
  <2>1. row.seen = scan[r].seen
    BY DEF Resting
  <2> HIDE DEF row
  <2>2. Read(scan[r].seen, bars) /\ scan[r].seen \in Contents
    BY DEF SnapshotInv, TypeOK
  <2>3. Whole(scan[r].seen, bars)
    <3> SUFFICES ASSUME NEW c \in Codes
                 PROVE  scan[r].seen[c] \in 1 .. Len(bars[c]) /\ bars[c][scan[r].seen[c]]
      BY DEF Whole
    <3>1. scan[r].seen[c] > 0 /\ bars[c][scan[r].seen[c]]
      BY <1>2 DEF Lacking
    <3>2. scan[r].seen[c] \in Nat /\ Len(bars[c]) \in Nat /\ scan[r].seen[c] <= Len(bars[c])
      BY <2>2, CollectionAssumption DEF Read, Contents, TypeOK
    <3> QED
      BY <3>1, <3>2
  <2>4. scan' = [scan EXCEPT ![r] = row]
    BY <1>2 DEF row
  <2> QED
    BY <1>1, <1>2, <2>1, <2>2, <2>3, <2>4, ScanKeepsSnapshots
<1>3. CASE /\ scan' = [scan EXCEPT ![r] = Resting]
           /\ prep' = IF r = "worker" THEN Retried(Lacking(scan[r].seen)) ELSE prep
  <2>1. Read(Resting.seen, bars) /\ Resting.pc # "persist"
    BY NothingRead DEF Resting
  <2>2. Retried(Lacking(scan[r].seen)).pc \notin {"inputs", "ready"}
    BY DEF Retried, Idle, TypeOK
  <2> QED
    BY <1>1, <1>3, <2>1, <2>2, ScanKeepsSnapshots
<1> QED
  BY <1>2, <1>3 DEF Lock

LEMMA PersistKeepsSnapshots ==
    ASSUME TypeOK, SnapshotInv, NEW r \in Readers, Persist(r)
    PROVE  SnapshotInv'
<1> DEFINE new == [content |-> scan[r].seen, locked |-> scan[r].locked, inputs |-> FALSE]
<1>1. /\ scan[r].pc = "persist" /\ bars' = bars
      /\ snapshots' = snapshots \/ snapshots' = snapshots \cup {new}
      /\ scan' = [scan EXCEPT ![r] = Resting]
      /\ prep' = IF r = "worker" THEN [prep EXCEPT !.pc = "lookup"] ELSE prep
  BY DEF Persist
<1>2. Whole(new.content, bars)
  BY <1>1 DEF SnapshotInv
<1> HIDE DEF new
<1>3. \A s \in snapshots' : Whole(s.content, bars)
  BY <1>1, <1>2 DEF SnapshotInv
<1>4. scan'[r] = Resting /\ \A q \in Readers \ {r} : scan'[q] = scan[q]
  BY <1>1 DEF TypeOK
<1>5. Read(Resting.seen, bars) /\ Resting.pc # "persist"
  BY NothingRead DEF Resting
<1>6. \A q \in Readers : /\ Read(scan'[q].seen, bars)
                         /\ scan'[q].pc = "persist" => Whole(scan'[q].seen, bars)
  BY <1>4, <1>5 DEF SnapshotInv
<1>7. prep' = prep \/ prep'.pc = "lookup"
  BY <1>1 DEF TypeOK
<1>8. snapshots \subseteq snapshots'
  BY <1>1
<1>9. /\ prep'.pc = "inputs" => IsStored(prep.answer)'
      /\ prep'.pc = "ready" => HasInputs(prep.answer)'
  BY <1>7, <1>8 DEF SnapshotInv, IsStored, HasInputs
<1> QED
  BY <1>1, <1>3, <1>6, <1>9 DEF SnapshotInv

\* Inputs are added to a snapshot; the worker's answer has them then.
LEMMA InputsKeepSnapshots ==
    ASSUME TypeOK, SnapshotInv, NEW n, StoreInputs(n), UNCHANGED <<bars, scan>>,
           \/ prep' = prep
           \/ prep.pc = "inputs" /\ n = prep.answer /\ prep' = [prep EXCEPT !.pc = "ready"]
    PROVE  SnapshotInv'
<1>1. /\ \A t \in snapshots' : \E s \in snapshots : t.content = s.content
      /\ \A m : /\ IsStored(m) => IsStored(m)'
                /\ HasInputs(m) => HasInputs(m)'
      /\ IsStored(n) => HasInputs(n)'
  BY InputsType
<1>2. \A s \in snapshots' : Whole(s.content, bars)
  BY <1>1 DEF SnapshotInv
<1>3. CASE prep' = prep
  BY <1>1, <1>2, <1>3 DEF SnapshotInv, IsStored, HasInputs
<1>4. CASE prep.pc = "inputs" /\ n = prep.answer /\ prep' = [prep EXCEPT !.pc = "ready"]
  <2>1. prep'.pc = "ready" /\ prep'.answer = n
    BY <1>4 DEF TypeOK
  <2>2. HasInputs(n)'
    BY <1>1, <1>4 DEF SnapshotInv
  <2> QED
    BY <1>2, <2>1, <2>2 DEF SnapshotInv, HasInputs
<1> QED
  BY <1>3, <1>4

\* The look-ups of the worker.
LEMMA LookKeepsSnapshots ==
    ASSUME TypeOK, SnapshotInv, PrepBegin \/ PrepCheck \/ PrepLookup
    PROVE  SnapshotInv'
<1>1. UNCHANGED <<bars, scan, snapshots>>
  BY DEF PrepBegin, PrepCheck, PrepLookup
<1>2. Ingest.pc = "ingest"
  BY DEF Ingest, Idle
<1>3. /\ prep'.pc = "inputs" => IsStored(prep'.answer)
      /\ prep'.pc = "ready" => HasInputs(prep'.answer)
  <2>1. CASE PrepBegin
    BY <1>2, <2>1 DEF PrepBegin, Idle
  <2>2. CASE PrepCheck
    BY <1>2, <2>2 DEF PrepCheck, TypeOK
  <2>3. CASE PrepLookup
    <3>1. PICK n \in 1 .. MaxLocks : IsLatest(n) /\ prep' = [Idle EXCEPT !.pc = "inputs", !.answer = n]
      BY <2>3 DEF PrepLookup
    <3>2. n # 0
      OBVIOUS
    <3> QED
      BY <3>1, <3>2 DEF IsLatest, Idle
  <2> QED
    BY <2>1, <2>2, <2>3
<1> QED
  BY <1>1, <1>3 DEF SnapshotInv, IsStored, HasInputs

\* Every step keeps the snapshots whole.
LEMMA SnapshotStep ==
    ASSUME TypeOK, SnapshotInv, [Next]_vars
    PROVE  SnapshotInv'
<1>1. CASE \E p \in Operators : Fetch(p)
  <2>1. PICK p \in Operators : Fetch(p)
    BY <1>1
  <2>2. PICK c \in cli[p].todo, failed \in BOOLEAN : FetchStock(c, failed)
    BY <2>1, Zenon DEF Fetch
  <2>3. UNCHANGED <<prep, scan, snapshots>> /\ c \in Codes
    BY <2>1 DEF Fetch, cliOnly, TypeOK
  <2> QED
    BY <2>2, <2>3, FetchKeepsSnapshots
<1>2. CASE PrepFetch
  <2>1. PICK c \in prep.todo, failed \in BOOLEAN :
          FetchStock(c, failed) /\ prep' = [prep EXCEPT !.todo = @ \ {c}]
    BY <1>2, Zenon DEF PrepFetch
  <2>2. UNCHANGED <<scan, snapshots>> /\ c \in Codes /\ prep'.pc = "ingest"
    BY <1>2, <2>1 DEF PrepFetch, TypeOK
  <2> QED
    BY <2>1, <2>2, FetchKeepsSnapshots
<1>3. CASE HandBegin
  BY <1>3, BeginKeepsSnapshots DEF HandBegin, Readers
<1>4. CASE PrepMaterialize
  <2>1. UNCHANGED <<bars, snapshots>> /\ Begin("worker", Collected) /\ prep'.pc = "materialize"
    BY <1>4 DEF PrepMaterialize, TypeOK
  <2> QED
    BY <2>1, BeginKeepsSnapshots DEF Readers
<1>5. CASE \E r \in Readers : ReadStock(r) \/ Lock(r) \/ Persist(r)
  BY <1>5, ReadKeepsSnapshots, LockKeepsSnapshots, PersistKeepsSnapshots
<1>6. CASE InputsByHand
  BY <1>6, InputsKeepSnapshots DEF InputsByHand
<1>7. CASE PrepInputs
  BY <1>7, InputsKeepSnapshots DEF PrepInputs
<1>8. CASE PrepBegin \/ PrepCheck \/ PrepLookup
  BY <1>8, LookKeepsSnapshots
<1>9. CASE Crash
  <2>1. UNCHANGED <<bars, snapshots>>
    BY <1>9 DEF Crash
  <2>2. Read(Resting.seen, bars) /\ Resting.pc # "persist" /\ Idle.pc = "idle"
    BY NothingRead DEF Resting, Idle
  <2>3. \/ UNCHANGED <<prep, scan>>
        \/ prep' = Idle /\ scan' = [scan EXCEPT !["worker"] = Resting]
        \/ prep' = prep /\ scan' = [scan EXCEPT !["hand"] = Resting]
    BY <1>9 DEF Crash
  <2>4. CASE UNCHANGED <<prep, scan>>
    BY <2>1, <2>4 DEF SnapshotInv, IsStored, HasInputs
  <2> QED
    BY <2>1, <2>2, <2>3, <2>4, ScanKeepsSnapshots DEF Readers
<1>a. CASE \/ UNCHANGED vars
           \/ \E p \in Operators : Start(p) \/ Mark(p) \/ Write(p) \/ Replace(p)
  <2>1. UNCHANGED <<bars, prep, scan, snapshots>>
    BY <1>a DEF vars, Start, Mark, Write, Replace, cliOnly
  <2> QED
    BY <2>1 DEF SnapshotInv, IsStored, HasInputs
<1> QED
  BY <1>1, <1>2, <1>3, <1>4, <1>5, <1>6, <1>7, <1>8, <1>9, <1>a DEF Next, Prepare

\* Every stored snapshot is whole, and a preparation's answer has its inputs.
THEOREM WholeSnapshots == Spec => []SnapshotsAreWhole
<1>1. Init => SnapshotInv
  <2> SUFFICES ASSUME Init
               PROVE  SnapshotInv
    OBVIOUS
  <2>1. \A r \in Readers : scan[r] = Resting
    BY DEF Init
  <2>2. TypeOK
    BY InitType DEF Types
  <2> QED
    BY <2>1, <2>2, NothingRead DEF Init, SnapshotInv, Resting, Idle
<1>2. TypeOK /\ SnapshotInv /\ [Next]_vars => SnapshotInv'
  BY SnapshotStep
<1>3. SnapshotInv => SnapshotsAreWhole
  BY DEF SnapshotInv, Whole, SnapshotsAreWhole
<1> QED
  BY <1>1, <1>2, <1>3, TypeCorrect, PTL DEF Spec

=============================================================================
