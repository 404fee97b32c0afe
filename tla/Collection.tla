----------------------------- MODULE Collection -----------------------------
(***************************************************************************)
(* The collection of daily bars and the weekly preparation that builds a   *)
(* frozen snapshot from them.  Operators start collections from the        *)
(* command line, which resume from a checkpoint file after an interruption *)
(* and may run side by side; the worker prepares the coming week under a   *)
(* lock of its own, and an operator may take a snapshot by hand meanwhile. *)
(* One stock is fetched and stored per transaction.  The checkpoint is     *)
(* written after it, through a temporary file whose name all runs share.   *)
(* A snapshot reads one stock after the other, and the snapshot and its    *)
(* rule inputs are two more transactions.  A process can die between any   *)
(* two of these steps.                                                     *)
(*                                                                         *)
(* A stock is a number, so that the order of codes is that of numbers.     *)
(***************************************************************************)
EXTENDS Naturals, Sequences, FiniteSets

CONSTANTS Stocks,       \* how many stocks have a primary classification
          Dates,        \* the dates of the window that sources may deliver
          Operators,    \* concurrent command-line runs
          BatchLimit,   \* --limit (20 by default)
          MaxAttempts,  \* materializations of one preparation (3 in the code)
          MaxStarts,    \* bound: command-line runs, preparations and snapshots by hand
          MaxVersion,   \* bound: how often a stock's bars are revised
          MaxLocks      \* bound: contents that were read and locked

ASSUME CollectionAssumption ==
    /\ Stocks \in Nat \ {0} /\ BatchLimit \in Nat \ {0} /\ MaxAttempts \in Nat \ {0}
    /\ IsFiniteSet(Dates) /\ Dates # {}
    /\ MaxStarts \in Nat /\ MaxVersion \in Nat \ {0} /\ MaxLocks \in Nat

VARIABLES bars,      \* per stock: of every version stored so far, whether it is usable
          file, tmp, \* the checkpoint file, and the temporary file that replaces it
          cli,       \* each operator's run
          prep,      \* the worker's preparation
          scan,      \* what the worker, or a snapshot by hand, has read of the bars
          snapshots, \* stored snapshots
          clock,     \* the last time at which a content was locked
          done,      \* history: stocks whose bars a second source once confirmed
          skipped,   \* history: stocks an operator told a run to jump over
          starts     \* command-line runs, preparations and snapshots by hand begun so far

vars == <<bars, file, tmp, cli, prep, scan, snapshots, clock, done, skipped, starts>>

Codes == 1 .. Stocks
Checkpoints == [cursor: 0 .. Stocks, failures: SUBSET Codes]
Files == [state: {"absent", "empty", "whole", "torn"}, view: Checkpoints]
Contents == [Codes -> 0 .. MaxVersion]
Snapshots == [content: Contents, locked: 1 .. MaxLocks, inputs: BOOLEAN]

\* Codes come in their order (ORDER BY code): the first one, and LIMIT n.
IsFirst(c, S) == c \in S /\ \A d \in S : c <= d
First(n, S) == {c \in S : Cardinality({d \in S : d < c}) < n}

NewCheckpoint == [cursor |-> 0, failures |-> {}]
File(state) == [state |-> state, view |-> NewCheckpoint]
Nothing == [c \in Codes |-> 0]
Off == [pc |-> "off", todo |-> {}, marks |-> FALSE, chosen |-> FALSE, error |-> FALSE,
        view |-> NewCheckpoint, fd |-> "none"]
Idle == [pc |-> "idle", todo |-> {}, attempt |-> 0, answer |-> 0]
Resting == [pc |-> "off", todo |-> {}, base |-> Nothing, seen |-> Nothing, locked |-> 0]
Readers == {"worker", "hand"}

\* Type of every variable.
TypeOK ==
    /\ bars \in [Codes -> Seq(BOOLEAN)] /\ \A c \in Codes : Len(bars[c]) <= MaxVersion
    /\ file \in Files /\ tmp \in Files
    /\ cli \in [Operators -> [pc: {"off", "fetch", "mark", "write", "replace"},
                              todo: SUBSET Codes, marks: BOOLEAN, chosen: BOOLEAN,
                              error: BOOLEAN, view: Checkpoints,
                              fd: {"none", "tmp", "file", "gone"}]]
    /\ prep \in [pc: {"idle", "check", "ingest", "materialize", "lookup", "inputs", "ready"},
                 todo: SUBSET Codes, attempt: 0 .. MaxAttempts - 1, answer: 0 .. MaxLocks]
    /\ scan \in [Readers -> [pc: {"off", "read", "persist"}, todo: SUBSET Codes,
                             base: Contents, seen: Contents, locked: 0 .. MaxLocks]]
    /\ snapshots \subseteq Snapshots
    /\ clock \in 0 .. MaxLocks
    /\ done \subseteq Codes /\ skipped \subseteq Codes
    /\ starts \in 0 .. MaxStarts

Init ==
    /\ bars = [c \in Codes |-> <<>>]
    /\ file = File("absent") /\ tmp = File("absent")
    /\ cli = [p \in Operators |-> Off]
    /\ prep = Idle
    /\ scan = [r \in Readers |-> Resting]
    /\ snapshots = {} /\ clock = 0
    /\ done = {} /\ skipped = {}
    /\ starts = 0

-----------------------------------------------------------------------------
(* One stock                                                               *)

\* What a source delivers: the dates of its bars, or nothing at all after its
\* retries and time limit.
Replies == SUBSET Dates

\* reconcile_daily_series; `differ` is the kind of disagreement on a common date.
Strict(primary, backup, differ) ==
    CASE primary = {} /\ backup = {} -> "missing"
      [] primary = {} /\ backup # {} -> "degraded"
      [] primary # {} /\ backup = {} -> "single_source"
      [] OTHER -> IF primary \cap backup = {} \/ differ # "none" THEN "conflicted"
                  ELSE IF primary = backup THEN "verified" ELSE "single_source"

\* reconcile_daily_series_with_amount_fallback: a backup within the volume
\* tolerance may carry the series although prices differ, if it is Sina's alone
\* (another adjustment factor), and one of the two covers the other's dates.
Reconciled(primary, backup, differ, sinaOnly) ==
    LET strict == Strict(primary, backup, differ)
        comparable == /\ primary # {} /\ backup # {} /\ differ # "volume"
                      /\ strict = "conflicted" => sinaOnly
    IN  IF ~ comparable THEN strict
        ELSE IF primary \subseteq backup /\ primary # backup THEN "degraded"
        ELSE IF backup \subseteq primary /\ strict = "conflicted" THEN "single_source"
        ELSE strict

\* Sina is asked when Eastmoney has nothing, or misses dates of the primary.
AsksSina(tencent, eastmoney) == eastmoney = {} \/ ~ tencent \subseteq eastmoney

\* merge_provider_daily_series: Sina fills the dates that Eastmoney lacks.
Backup(tencent, eastmoney, sina) ==
    eastmoney \cup (IF AsksSina(tencent, eastmoney) THEN sina ELSE {})

\* A stock fails when no backup confirms every date of the primary, or when the
\* sources contradict each other.
StockFails(tencent, eastmoney, sina, differ) ==
    LET backup == Backup(tencent, eastmoney, sina)
    IN  \/ ~ tencent \subseteq backup
        \/ backup = {}
        \/ Reconciled(tencent, backup, differ, eastmoney = {}) \in {"conflicted", "missing"}

\* What a stock's collection amounts to: whether it failed, whether anything was
\* delivered, and (history) whether a backup confirms every date of the primary,
\* with the same volumes and, unless it is Sina's, the same prices.
Outcome(t, e, s, differ) ==
    [failed |-> StockFails(t, e, s, differ),
     delivered |-> t \cup e \cup s # {},
     confirmed |-> /\ e \cup s # {} /\ t \subseteq e \cup s
                   /\ t # {} => (differ = "none" \/ (differ = "price" /\ e = {}))]

Outcomes == {Outcome(t, e, s, d) : t \in Replies, e \in Replies, s \in Replies,
                                   d \in {"none", "price", "volume"}}

\* persist_provider_daily_series: whatever was delivered is stored, even by a
\* stock that fails; content equal to some stored one is no new version.  A new
\* version may or may not leave the stock with a usable observation (61 bars,
\* amounts, agreement).
Stored(c, delivered, new) ==
    \/ /\ ~ delivered \/ bars[c] # <<>>
       /\ new = bars
    \/ /\ delivered /\ Len(bars[c]) < MaxVersion
       /\ \E u \in BOOLEAN : new = [bars EXCEPT ![c] = Append(@, u)]

\* One stock of `ingest`: the sources, then one transaction.
FetchStock(c, failed) ==
    \E o \in Outcomes :
       /\ failed = o.failed
       /\ Stored(c, o.delivered, bars')
       /\ done' = IF o.confirmed THEN done \cup {c} ELSE done

-----------------------------------------------------------------------------
(* The command line                                                        *)

\* Command-line runs, preparations and snapshots by hand are begun some times only.
Begun == starts < MaxStarts /\ starts' = starts + 1

cliOnly == <<prep, scan, snapshots, clock>>

\* A resumed run goes on behind the cursor.
Remaining(view) == {c \in Codes : c > view.cursor}

\* A run begins with the checkpoint on file, if it keeps one.
Started(todo, marks, chosen) ==
    [Off EXCEPT !.pc = "fetch", !.todo = todo, !.marks = marks, !.chosen = chosen,
                !.view = IF marks THEN file.view ELSE NewCheckpoint]

\* main: the checkpoint is loaded, unless the file is there and cannot be parsed; then
\* the codes are those after the cursor, those that failed, those after a code the
\* operator names, or codes the operator names.  Codes without a checkpoint leave no
\* mark, and need no file.
Start(p) ==
    LET go(S, marks, chosen) ==
          \E n \in {BatchLimit, Stocks} :
             /\ S # {}
             /\ marks => file.state \in {"absent", "whole"}
             /\ cli' = [cli EXCEPT ![p] = Started(First(n, S), marks, chosen)]
    IN  /\ cli[p].pc = "off"
        /\ Begun
        /\ \/ go(Remaining(file.view), TRUE, FALSE)
           \/ go(file.view.failures, TRUE, FALSE)
           \/ \E a \in Codes : go({c \in Codes : c > a}, TRUE, TRUE)
           \/ \E S \in SUBSET Codes, marks \in BOOLEAN : go(S, marks, TRUE)
        /\ UNCHANGED <<bars, file, tmp, done, skipped, cliOnly>>

Fetch(p) ==
    /\ cli[p].pc = "fetch"
    /\ \E c \in cli[p].todo, failed \in BOOLEAN :
          /\ IsFirst(c, cli[p].todo)
          /\ FetchStock(c, failed)
          /\ cli' = [cli EXCEPT ![p].pc = "mark", ![p].error = failed]
    /\ UNCHANGED <<file, tmp, skipped, starts, cliOnly>>

\* Mutant: a failed stock does not move the cursor, and is not remembered.
MarkedLenient(view, c, failed) ==
    [cursor |-> IF c > view.cursor THEN c ELSE view.cursor,
     failures |-> IF failed THEN view.failures ELSE view.failures \ {c}]

\* Mutant: the cursor counts the attempts.
MarkedByCount(view, c, failed) ==
    [cursor |-> view.cursor + 1,
     failures |-> IF failed THEN view.failures \cup {c} ELSE view.failures \ {c}]

\* DailyIngestionCheckpoint.mark.
Marked(view, c, failed) ==
    [cursor |-> IF c > view.cursor THEN c ELSE view.cursor,
     failures |-> IF failed THEN view.failures \cup {c} ELSE view.failures \ {c}]

\* A run is through with a code, and about to write what it marked.
Passed(run, c) == [run EXCEPT !.todo = @ \ {c}, !.error = FALSE]
Marking(run, c) == [Passed(run, c) EXCEPT !.pc = "write", !.fd = "tmp",
                                          !.view = Marked(run.view, c, run.error)]

\* A run goes on with its next code, or ends with its last.
GoOn(run) == IF run.todo = {} THEN Off ELSE [run EXCEPT !.pc = "fetch", !.fd = "none"]

\* mark, and the first half of write_text: the temporary file is opened, which creates
\* it or empties the one that another run is about to write or to move.
Mark(p) ==
    /\ cli[p].pc = "mark"
    /\ \E c \in cli[p].todo :
          /\ IsFirst(c, cli[p].todo)
          /\ cli' = [cli EXCEPT ![p] = IF cli[p].marks THEN Marking(cli[p], c)
                                       ELSE GoOn(Passed(cli[p], c))]
          /\ tmp' = IF cli[p].marks THEN File("empty") ELSE tmp
          /\ skipped' = IF cli[p].chosen /\ cli[p].marks
                        THEN skipped \cup {d \in Codes : cli[p].view.cursor < d /\ d < c}
                        ELSE skipped
    /\ UNCHANGED <<bars, file, done, starts, cliOnly>>

\* A text written from the start of a file replaces what is there, unless that is longer.
Overwritten(old, view) ==
    {[state |-> "whole", view |-> view]} \cup
    (IF old.state \in {"whole", "torn"} THEN {File("torn")} ELSE {})

\* The second half of write_text goes to the file that was opened, wherever it is now.
Write(p) ==
    /\ cli[p].pc = "write"
    /\ \/ /\ cli[p].fd = "tmp" /\ tmp' \in Overwritten(tmp, cli[p].view)
          /\ UNCHANGED file
       \/ /\ cli[p].fd = "file" /\ file' \in Overwritten(file, cli[p].view)
          /\ UNCHANGED tmp
       \/ /\ cli[p].fd = "gone"
          /\ UNCHANGED <<file, tmp>>
    /\ cli' = [cli EXCEPT ![p].pc = "replace", ![p].fd = "none"]
    /\ UNCHANGED <<bars, done, skipped, starts, cliOnly>>

\* Who has the temporary file open goes on writing into what it becomes.
Moved(run) == [run EXCEPT !.fd = IF @ = "tmp" THEN "file" ELSE IF @ = "file" THEN "gone" ELSE @]

\* replace moves whatever has the temporary name now; a run whose temporary file another
\* run has moved dies of FileNotFoundError, which nothing catches.
Replace(p) ==
    /\ cli[p].pc = "replace"
    /\ \/ /\ tmp.state = "absent"
          /\ cli' = [cli EXCEPT ![p] = Off] /\ UNCHANGED <<file, tmp>>
       \/ /\ tmp.state # "absent"
          /\ cli' = [q \in Operators |-> IF q = p THEN GoOn(cli[p]) ELSE Moved(cli[q])]
          /\ file' = tmp /\ tmp' = File("absent")
    /\ UNCHANGED <<bars, done, skipped, starts, cliOnly>>

-----------------------------------------------------------------------------
(* The snapshots                                                           *)

cliState == <<file, tmp, cli, skipped>>
market == <<cliState, starts>>

\* Of a stock that has bars, some version is read: the last one fetched, which need not be
\* the last one stored where collections overlap.
Collected == [c \in Codes |-> IF bars[c] = <<>> THEN 0 ELSE 1]

\* Mutant: what is usable makes the snapshot.
LackingAll(content) ==
    IF \E c \in Codes : content[c] > 0 /\ bars[c][content[c]] THEN {} ELSE Codes

\* The stocks of which a content has no usable observation.
Lacking(content) == {c \in Codes : ~ (content[c] > 0 /\ bars[c][content[c]])}

\* materialize begins: versions before `base` are not read any more.
Begin(r, base) == scan' = [scan EXCEPT ![r] = [Resting EXCEPT !.pc = "read", !.todo = Codes,
                                                              !.base = base]]

\* The script, run by hand with a fetched_by that may lie far back.
HandBegin ==
    /\ scan["hand"].pc = "off" /\ clock < MaxLocks
    /\ Begun
    /\ Begin("hand", Nothing)
    /\ UNCHANGED <<bars, prep, snapshots, clock, done, cliState>>

\* One stock after the other is read, while collections may go on: a bar fetched in
\* time may have been stored since the reading began, or may be stored later.
ReadStock(r) ==
    /\ scan[r].pc = "read"
    /\ \E c \in scan[r].todo : \E v \in scan[r].base[c] .. Len(bars[c]) :
          /\ IsFirst(c, scan[r].todo)
          /\ scan' = [scan EXCEPT ![r].todo = @ \ {c}, ![r].seen[c] = v]
    /\ UNCHANGED <<bars, prep, snapshots, clock, done, market>>

\* The worker collects what was lacking again, twice at most.
Retried(lacking) ==
    IF prep.attempt + 1 < MaxAttempts
    THEN [prep EXCEPT !.pc = "ingest", !.attempt = @ + 1, !.todo = lacking]
    ELSE Idle

\* Everything is read: a content that covers all stocks is locked, at this time.
Lock(r) ==
    LET lacking == Lacking(scan[r].seen)
    IN  /\ scan[r].pc = "read" /\ scan[r].todo = {}
        /\ \/ /\ lacking = {} /\ clock < MaxLocks
              /\ clock' = clock + 1
              /\ scan' = [scan EXCEPT ![r] = [Resting EXCEPT !.pc = "persist",
                                                          !.seen = scan[r].seen,
                                                          !.locked = clock + 1]]
              /\ UNCHANGED prep
           \/ /\ lacking # {}
              /\ scan' = [scan EXCEPT ![r] = Resting]
              /\ prep' = IF r = "worker" THEN Retried(lacking) ELSE prep
              /\ UNCHANGED clock
        /\ UNCHANGED <<bars, snapshots, done, market>>

\* persist_snapshot: a snapshot of equal content is reused, whenever it was locked, else
\* one is added.  (Of two that insert equal contents at once, the constraint lets one
\* die, which is a Crash.)
Persist(r) ==
    LET new == [content |-> scan[r].seen, locked |-> scan[r].locked, inputs |-> FALSE]
    IN  /\ scan[r].pc = "persist"
        /\ snapshots' = IF \E s \in snapshots : s.content = new.content THEN snapshots
                        ELSE snapshots \cup {new}
        /\ scan' = [scan EXCEPT ![r] = Resting]
        /\ prep' = IF r = "worker" THEN [prep EXCEPT !.pc = "lookup"] ELSE prep
        /\ UNCHANGED <<bars, clock, done, market>>

\* A snapshot is known by the time at which it was locked.
IsStored(n) == \E s \in snapshots : s.locked = n
HasInputs(n) == \E s \in snapshots : s.locked = n /\ s.inputs

\* _latest_snapshot_id: ORDER BY locked_at DESC, which need not be the order of the
\* transactions; 0 where there is none.
IsLatest(n) ==
    \/ n = 0 /\ snapshots = {}
    \/ IsStored(n) /\ \A s \in snapshots : s.locked <= n

\* persist_v9_inputs: what is there already stays.
StoreInputs(n) ==
    snapshots' = {IF s.locked = n THEN [s EXCEPT !.inputs = TRUE] ELSE s : s \in snapshots}

\* The script, run by hand for some snapshot.
InputsByHand ==
    /\ \E s \in snapshots : StoreInputs(s.locked)
    /\ UNCHANGED <<bars, prep, scan, clock, done, market>>

-----------------------------------------------------------------------------
(* The preparation of the week                                             *)

Ingest == [Idle EXCEPT !.pc = "ingest", !.todo = Codes]

\* A preparation begins with the latest snapshot, if there is one ...
PrepBegin ==
    /\ prep.pc \in {"idle", "ready"}
    /\ Begun
    /\ \E n \in 0 .. MaxLocks :
          /\ IsLatest(n)
          /\ prep' = IF n = 0 THEN Ingest ELSE [Idle EXCEPT !.pc = "check", !.answer = n]
    /\ UNCHANGED <<bars, scan, snapshots, clock, done, cliState>>

\* ... and answers with it if its inputs are stored.
PrepCheck ==
    /\ prep.pc = "check"
    /\ prep' = IF HasInputs(prep.answer) THEN [prep EXCEPT !.pc = "ready"] ELSE Ingest
    /\ UNCHANGED <<bars, scan, snapshots, clock, done, market>>

\* Its own collection, of all codes first, then of those the snapshot lacked.
PrepFetch ==
    /\ prep.pc = "ingest"
    /\ \E c \in prep.todo, failed \in BOOLEAN :
          /\ IsFirst(c, prep.todo)
          /\ FetchStock(c, failed)
          /\ prep' = [prep EXCEPT !.todo = @ \ {c}]
    /\ UNCHANGED <<scan, snapshots, clock, market>>

\* All is collected: the worker takes its snapshot, with fetched_by = now.
PrepMaterialize ==
    /\ prep.pc = "ingest" /\ prep.todo = {}
    /\ Begin("worker", Collected)
    /\ prep' = [prep EXCEPT !.pc = "materialize"]
    /\ UNCHANGED <<bars, snapshots, clock, done, market>>

\* The latest snapshot is looked up: it may be another than the one just stored.
PrepLookup ==
    /\ prep.pc = "lookup"
    /\ \E n \in 1 .. MaxLocks :
          /\ IsLatest(n)
          /\ prep' = [Idle EXCEPT !.pc = "inputs", !.answer = n]
    /\ UNCHANGED <<bars, scan, snapshots, clock, done, market>>

\* Its inputs are stored, and it is the answer.
PrepInputs ==
    /\ prep.pc = "inputs"
    /\ StoreInputs(prep.answer)
    /\ prep' = [prep EXCEPT !.pc = "ready"]
    /\ UNCHANGED <<bars, scan, clock, done, market>>

Prepare == PrepBegin \/ PrepCheck \/ PrepFetch \/ PrepMaterialize \/ PrepLookup \/ PrepInputs

-----------------------------------------------------------------------------

\* A command-line run, the worker or a script dies, or meets an error it does not catch.
Crash ==
    /\ \/ \E p \in Operators :
             /\ cli[p].pc # "off"
             /\ cli' = [cli EXCEPT ![p] = Off]
             /\ UNCHANGED <<prep, scan>>
       \/ /\ prep.pc \notin {"idle", "ready"}
          /\ prep' = Idle
          /\ scan' = [scan EXCEPT !["worker"] = Resting]
          /\ UNCHANGED cli
       \/ /\ scan["hand"].pc # "off"
          /\ scan' = [scan EXCEPT !["hand"] = Resting]
          /\ UNCHANGED <<cli, prep>>
    /\ UNCHANGED <<bars, file, tmp, snapshots, clock, done, skipped, starts>>

Next == \/ \E p \in Operators : Start(p) \/ Fetch(p) \/ Mark(p) \/ Write(p) \/ Replace(p)
        \/ \E r \in Readers : ReadStock(r) \/ Lock(r) \/ Persist(r)
        \/ HandBegin \/ InputsByHand
        \/ Prepare
        \/ Crash

Spec == Init /\ [][Next]_vars

-----------------------------------------------------------------------------
(* Properties                                                              *)

\* Whatever dies, resumes, or runs side by side: a stock that a readable checkpoint has
\* passed was collected, or is on the list of failures to retry, or an operator
\* told a run to jump over it (DailyIngestionCheckpoint, save_daily_checkpoint, main).
NoStockForgotten == file.state = "whole" =>
    \A c \in Codes : c <= file.view.cursor => c \in done \cup file.view.failures \cup skipped

\* Every snapshot holds of every classified stock a version that was stored and usable,
\* whatever was collected while it was read, and the snapshot a preparation answers
\* with has its rule inputs, whoever stored snapshots meanwhile (materialize,
\* _ready_snapshot_id, _execute_weekly_data_preparation).
SnapshotsAreWhole ==
    /\ \A s \in snapshots, c \in Codes :
          /\ s.content[c] \in 1 .. Len(bars[c])
          /\ bars[c][s.content[c]]
    /\ prep.pc = "ready" => HasInputs(prep.answer)
=============================================================================
