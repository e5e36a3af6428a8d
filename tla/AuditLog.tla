------------------------------- MODULE AuditLog -------------------------------
(***************************************************************************)
(* The audit log: a SQLite table of hash-chained rows, written by a store  *)
(* of a daemon's, and the live streams that follow it.                     *)
(*                                                                         *)
(* The container engine keeps the broker a singleton, but two daemons      *)
(* started by hand share a state directory, so there may be two stores.    *)
(* The table's primary key is all that arbitrates between them.            *)
(*                                                                         *)
(* A digest is the tuple of what it was taken of: no two inputs collide.   *)
(* A record's time is part of its event.                                   *)
(***************************************************************************)
EXTENDS Integers, Sequences, FiniteSets

CONSTANTS
  Stores,      \* audit stores, one for each daemon process
  Handlers,    \* handlers of GET /audit/stream
  Events,      \* what a record says
  NoStore,
  ChanCap,     \* how many events a subscriber's channel holds
  MaxAppends,  \* bound: calls of Append
  MaxTampers   \* bound: writes to the table by somebody else

ASSUME AuditAssumption ==
  /\ NoStore \notin Stores
  /\ ChanCap \in Nat /\ MaxAppends \in Nat /\ MaxTampers \in Nat

VARIABLES
  rows,     \* the table: sequence number -> row
  proc,     \* a store: down, open, closing (its streams are closed, its
            \* database is not) or closed with its process still there
  nextSeq, lastHash,  \* the store's copy of the tail
  mu,       \* its mutex: free, or wedged by a panic that held it
  fault,    \* what panicked: none, send, close
  from,     \* the store a handler has subscribed to
  reg,      \* its channel is in the store's subs
  chan,     \* its channel: none, open, closed
  queue,    \* the sequence numbers in its channel
  seen,     \* the newest it has taken out, or the tail when it subscribed
  missed,   \* history: an event was dropped since it subscribed
  calls, tampers,     \* how much of the bounds is used
  written   \* history: the rows stores inserted, each with its number and
            \* how often the table had been tampered with by then

storeVars == <<proc, nextSeq, lastHash, mu, fault>>
streamVars == <<from, reg, chan, queue, seen, missed>>
auditVars == <<rows, storeVars, streamVars, calls, tampers, written>>

AuditInit ==
  /\ rows = << >>
  /\ proc = [s \in Stores |-> "down"]
  /\ nextSeq = [s \in Stores |-> 1]
  /\ lastHash = [s \in Stores |-> << >>]
  /\ mu = [s \in Stores |-> "free"]
  /\ fault = [s \in Stores |-> "none"]
  /\ from = [h \in Handlers |-> NoStore]
  /\ reg = [h \in Handlers |-> FALSE]
  /\ chan = [h \in Handlers |-> "none"]
  /\ queue = [h \in Handlers |-> << >>]
  /\ seen = [h \in Handlers |-> 0]
  /\ missed = [h \in Handlers |-> FALSE]
  /\ calls = 0
  /\ tampers = 0
  /\ written = {}

-----------------------------------------------------------------------------
(* The chain.                                                              *)

HashOf(q, e, prev) == <<q, e, prev>>

Seqs == DOMAIN rows

Below(q) == {p \in Seqs : p < q}

Newest(S) == CHOOSE p \in S : \A o \in S : o <= p

Oldest(S) == CHOOSE p \in S : \A o \in S : p <= o

(* The digest of the row before q, in the order of sequence numbers.       *)
HashBefore(q) == IF Below(q) = {} THEN << >> ELSE rows[Newest(Below(q))].hash

(* Mutant: each row is checked against the link it holds itself.           *)
BrokenUnlinked == {q \in Seqs : rows[q].hash # HashOf(q, rows[q].ev, rows[q].prev)}

Broken ==
  {q \in Seqs :
     \/ rows[q].prev # HashBefore(q)
     \/ rows[q].hash # HashOf(q, rows[q].ev, HashBefore(q))}

Verify == [ok |-> Broken = {}, brokenAt |-> IF Broken = {} THEN 0 ELSE Oldest(Broken)]

-----------------------------------------------------------------------------
(* A store.                                                                *)

TailSeq == IF Seqs = {} THEN 0 ELSE Newest(Seqs)

TailHash == IF Seqs = {} THEN << >> ELSE rows[Newest(Seqs)].hash

(* Mutant: a reopened log starts a chain of its own.                       *)
LoadTailUnchained(s) ==
  /\ nextSeq' = [nextSeq EXCEPT ![s] = TailSeq + 1]
  /\ lastHash' = [lastHash EXCEPT ![s] = << >>]

LoadTail(s) ==
  /\ nextSeq' = [nextSeq EXCEPT ![s] = TailSeq + 1]
  /\ lastHash' = [lastHash EXCEPT ![s] = TailHash]

(* Opening that fails leaves no store.                                     *)
Open(s) ==
  /\ proc[s] = "down"
  /\ proc' = [proc EXCEPT ![s] = "open"]
  /\ LoadTail(s)
  /\ UNCHANGED <<rows, mu, fault, streamVars, calls, tampers, written>>

Subscribed(s) == {h \in Handlers : reg[h] /\ from[h] = s}

Full(h) == Len(queue[h]) >= ChanCap

(* Mutant: an event that finds its channel full takes the oldest's place,  *)
(* and nobody is told.                                                     *)
FanOutEvicting(s, q) ==
  /\ queue' = [h \in Handlers |->
                 IF h \notin Subscribed(s) THEN queue[h]
                 ELSE IF Full(h) THEN Append(Tail(queue[h]), q) ELSE Append(queue[h], q)]
  /\ UNCHANGED missed

(* A full channel drops the event.                                         *)
FanOut(s, q) ==
  /\ queue' = [h \in Handlers |->
                 IF h \in Subscribed(s) /\ ~Full(h) THEN Append(queue[h], q) ELSE queue[h]]
  /\ missed' = [h \in Handlers |-> missed[h] \/ (h \in Subscribed(s) /\ Full(h))]

(* A send on a closed channel panics, and the deferred unlock lets go of   *)
(* the mutex.                                                              *)
SendFault(s) ==
  fault' = [fault EXCEPT ![s] =
              IF \E h \in Subscribed(s) : chan[h] = "closed" THEN "send" ELSE @]

Row(e, prev, q) == [ev |-> e, prev |-> prev, hash |-> HashOf(q, e, prev)]

Insert(q, row) ==
  rows' = [p \in Seqs \union {q} |-> IF p = q THEN row ELSE rows[p]]

(* Two stores may both call; the row of one of them conflicts.             *)
Append1(s, e) ==
  /\ proc[s] \in {"open", "closing"} /\ mu[s] = "free"
  /\ nextSeq[s] \notin Seqs
  /\ LET q == nextSeq[s]
         row == Row(e, lastHash[s], q)
     IN /\ Insert(q, row)
        /\ nextSeq' = [nextSeq EXCEPT ![s] = q + 1]
        /\ lastHash' = [lastHash EXCEPT ![s] = row.hash]
        /\ written' = written \union {[seq |-> q, row |-> row, after |-> tampers]}
        /\ FanOut(s, q)
        /\ SendFault(s)
  /\ UNCHANGED <<proc, mu, from, reg, chan, seen>>

(* Mutant: the tail moves on before the row is known to be stored.         *)
AppendFailsAdvancing(s) ==
  /\ proc[s] # "down" /\ mu[s] = "free"
  /\ nextSeq' = [nextSeq EXCEPT ![s] = @ + 1]
  /\ UNCHANGED <<rows, proc, lastHash, mu, fault, streamVars, written>>

(* The row is not stored: its number is taken, the disk is full, or the    *)
(* database is busy or closed.  The daemon does not look at the error.     *)
AppendFails(s) ==
  /\ proc[s] # "down" /\ mu[s] = "free"
  /\ UNCHANGED <<rows, storeVars, streamVars, written>>

Rec(s) ==
  /\ calls < MaxAppends
  /\ calls' = calls + 1
  /\ (\E e \in Events : Append1(s, e)) \/ AppendFails(s)
  /\ UNCHANGED tampers

CloseStore(s) ==
  /\ proc[s] = "open" /\ mu[s] = "free"
  /\ proc' = [proc EXCEPT ![s] = "closing"]
  /\ chan' = [h \in Handlers |-> IF h \in Subscribed(s) THEN "closed" ELSE chan[h]]
  /\ reg' = [h \in Handlers |-> reg[h] /\ h \notin Subscribed(s)]
  /\ UNCHANGED <<rows, nextSeq, lastHash, mu, fault, from, queue, seen, missed, calls, tampers, written>>

CloseDatabase(s) ==
  /\ proc[s] = "closing"
  /\ proc' = [proc EXCEPT ![s] = "closed"]
  /\ UNCHANGED <<rows, nextSeq, lastHash, mu, fault, streamVars, calls, tampers, written>>

(* The process ends, by a crash or not, and its streams with it.           *)
Exit(s) ==
  LET Mine(h) == from[h] = s IN
  /\ proc[s] # "down"
  /\ proc' = [proc EXCEPT ![s] = "down"]
  /\ mu' = [mu EXCEPT ![s] = "free"]
  /\ fault' = [fault EXCEPT ![s] = "none"]
  /\ from' = [h \in Handlers |-> IF Mine(h) THEN NoStore ELSE from[h]]
  /\ reg' = [h \in Handlers |-> reg[h] /\ ~Mine(h)]
  /\ chan' = [h \in Handlers |-> IF Mine(h) THEN "none" ELSE chan[h]]
  /\ queue' = [h \in Handlers |-> IF Mine(h) THEN << >> ELSE queue[h]]
  /\ UNCHANGED <<rows, nextSeq, lastHash, seen, missed, calls, tampers, written>>

-----------------------------------------------------------------------------
(* A stream.                                                               *)

Subscribe(h, s) ==
  /\ chan[h] = "none"
  /\ proc[s] # "down" /\ mu[s] = "free"
  /\ from' = [from EXCEPT ![h] = s]
  /\ reg' = [reg EXCEPT ![h] = TRUE]
  /\ chan' = [chan EXCEPT ![h] = "open"]
  /\ seen' = [seen EXCEPT ![h] = nextSeq[s] - 1]
  /\ missed' = [missed EXCEPT ![h] = FALSE]
  /\ UNCHANGED <<rows, storeVars, queue, calls, tampers, written>>

(* A closed channel still gives what is in it.                             *)
Deliver(h) ==
  /\ queue[h] # << >>
  /\ seen' = [seen EXCEPT ![h] = Head(queue[h])]
  /\ queue' = [queue EXCEPT ![h] = Tail(@)]
  /\ UNCHANGED <<rows, storeVars, from, reg, chan, missed, calls, tampers, written>>

Gone(h) ==
  /\ from' = [from EXCEPT ![h] = NoStore]
  /\ chan' = [chan EXCEPT ![h] = "none"]
  /\ queue' = [queue EXCEPT ![h] = << >>]
  /\ UNCHANGED <<seen, missed, calls, tampers, written, rows>>

(* Mutant: cancel closes the channel and leaves it in subs.                *)
CancelRegistered(h) ==
  /\ chan[h] = "open" /\ mu[from[h]] = "free"
  /\ chan' = [chan EXCEPT ![h] = "closed"]
  /\ UNCHANGED <<from, reg, queue, storeVars, seen, missed, calls, tampers, written, rows>>

(* The client hangs up and the handler's deferred cancel runs.             *)
Cancel(h) ==
  /\ chan[h] = "open" /\ mu[from[h]] = "free"
  /\ reg' = [reg EXCEPT ![h] = FALSE]
  /\ Gone(h)
  /\ UNCHANGED storeVars

(* The same when Close has closed the channel already: the second close    *)
(* panics, and the unlock after it never runs.                             *)
CancelClosed(h) ==
  /\ chan[h] = "closed" /\ mu[from[h]] = "free"
  /\ mu' = [mu EXCEPT ![from[h]] = "wedged"]
  /\ fault' = [fault EXCEPT ![from[h]] = "close"]
  /\ Gone(h)
  /\ UNCHANGED <<proc, nextSeq, lastHash, reg>>

-----------------------------------------------------------------------------
(* Somebody else writes to the table.                                      *)

EditRow(q, e) ==
  /\ rows[q].ev # e
  /\ rows' = [rows EXCEPT ![q].ev = e]

DropRow(q) == rows' = [p \in Seqs \ {q} |-> rows[p]]

SwapRows(p, q) ==
  /\ p < q
  /\ rows' = [rows EXCEPT ![p] = rows[q], ![q] = rows[p]]

Tamper ==
  /\ tampers < MaxTampers
  /\ tampers' = tampers + 1
  /\ \E q \in Seqs : \/ \E e \in Events : EditRow(q, e)
                     \/ DropRow(q)
                     \/ \E p \in Seqs : SwapRows(p, q)
  /\ UNCHANGED <<storeVars, streamVars, calls, written>>

StoreStep(s) == Open(s) \/ Rec(s) \/ CloseStore(s) \/ CloseDatabase(s) \/ Exit(s)

StreamStep(h) ==
  \/ \E s \in Stores : Subscribe(h, s)
  \/ Deliver(h) \/ Cancel(h) \/ CancelClosed(h)

AuditNext ==
  \/ \E s \in Stores : StoreStep(s)
  \/ \E h \in Handlers : StreamStep(h)
  \/ Tamper

AuditSpec == AuditInit /\ [][AuditNext]_auditVars

-----------------------------------------------------------------------------
AuditTypeOK ==
  /\ Seqs \subseteq Nat \ {0}
  /\ \A q \in Seqs : rows[q].ev \in Events
  /\ proc \in [Stores -> {"down", "open", "closing", "closed"}]
  /\ nextSeq \in [Stores -> Nat \ {0}]
  /\ DOMAIN lastHash = Stores
  /\ mu \in [Stores -> {"free", "wedged"}]
  /\ fault \in [Stores -> {"none", "send", "close"}]
  /\ from \in [Handlers -> Stores \union {NoStore}]
  /\ reg \in [Handlers -> BOOLEAN]
  /\ chan \in [Handlers -> {"none", "open", "closed"}]
  /\ queue \in [Handlers -> Seq(Nat \ {0})]
  /\ seen \in [Handlers -> Nat]
  /\ missed \in [Handlers -> BOOLEAN]
  /\ calls \in 0..MaxAppends
  /\ tampers \in 0..MaxTampers
  /\ \A h \in Handlers : (from[h] = NoStore) = (chan[h] = "none")
  /\ \A h \in Handlers : reg[h] => chan[h] # "none"

(* The chain of a table nobody tampered with verifies, whatever failed,    *)
(* crashed or was reopened, and with two stores writing to it.             *)
ChainIntact == tampers = 0 => Verify.ok

(* A table that verifies holds what stores wrote, under the numbers they   *)
(* wrote it: no row is edited or moved.  None is missing from before the   *)
(* newest either, unless a store wrote on after the table was tampered     *)
(* with.  (The newest may be gone: a chain without a key cannot tell.)     *)
VerifyCatches ==
  Verify.ok =>
    /\ \A q \in Seqs : \E w \in written : w.seq = q /\ w.row = rows[q]
    /\ (\A w \in written : w.after = 0) => \A q \in Seqs : q > 1 => q - 1 \in Seqs

(* A stream that missed nothing has every event of its store since it      *)
(* subscribed, once, in the order of the log; one that did has them in     *)
(* order, with gaps, so a query since the last one seen fills them.        *)
StreamFollowsLog ==
  \A h \in Handlers : reg[h] =>
    LET tail == nextSeq[from[h]] - 1
        q == queue[h]
    IN /\ \A i, j \in 1..Len(q) : i < j => q[i] < q[j]
       /\ \A i \in 1..Len(q) : q[i] > seen[h] /\ q[i] <= tail
       /\ ~missed[h] => Len(q) = tail - seen[h]

(* Nothing panics while the store is open: neither an append that meets a  *)
(* departing stream nor a cancel that meets a close.  What is left is the  *)
(* cancel after Close, which does panic and leaves the mutex locked.       *)
PanicsOnlyAfterClose ==
  \A s \in Stores :
    fault[s] # "none" \/ mu[s] # "free" =>
      proc[s] \in {"closing", "closed"} /\ fault[s] = "close"

Ledger == INSTANCE AppendLog
            WITH log <- [q \in Seqs |-> rows[q].ev], touched <- tampers > 0

(* Until somebody tampers, the table is an append-only log.                *)
ImplementsAppendLog == Ledger!Spec
=============================================================================
