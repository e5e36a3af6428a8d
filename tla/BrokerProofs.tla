------------------------------ MODULE BrokerProofs ------------------------------
(***************************************************************************)
(* What is proved of the audit log, and of the log beside the egress path. *)
(***************************************************************************)
EXTENDS MCEgress, EgressProofs, SequenceTheorems, TLAPS

-----------------------------------------------------------------------------
(* Tables.  Somebody else may remove any row, so that every set of rows    *)
(* has a newest one is part of the invariant.                              *)

HasNewest(S) == \E m \in S : \A o \in S : o <= m

TableOK ==
  /\ Seqs \subseteq Nat \ {0}
  /\ \A S \in SUBSET Seqs : S # {} => HasNewest(S)

LEMMA NewestIs ==
  ASSUME TableOK, NEW S \in SUBSET Seqs, S # {}
  PROVE  Newest(S) \in S /\ \A o \in S : o <= Newest(S)
<1>1. \E m \in S : \A o \in S : o <= m
  BY DEF TableOK, HasNewest
<1> QED
  BY <1>1 DEF Newest

LEMMA TailSeqType ==
  ASSUME TableOK
  PROVE  TailSeq \in Nat
<1>1. CASE Seqs = {}
  BY <1>1 DEF TailSeq
<1>2. CASE Seqs # {}
  BY <1>2, NewestIs DEF TailSeq, TableOK
<1> QED
  BY <1>1, <1>2

LEMMA InsertTable ==
  ASSUME TableOK, NEW q \in Nat \ {0}, NEW row, Insert(q, row)
  PROVE  TableOK' /\ Seqs' = Seqs \union {q}
<1>1. Seqs' = Seqs \union {q}
  BY DEF Insert, Seqs
<1>2. ASSUME NEW S \in SUBSET (Seqs \union {q}), S # {} PROVE HasNewest(S)
  <2> DEFINE T == S \ {q}
  <2>1. CASE T = {}
    <3>1. S = {q}
      BY <1>2, <2>1
    <3> QED
      BY <3>1 DEF HasNewest
  <2>2. CASE T # {}
    <3>1. T \in SUBSET Seqs
      BY <1>2
    <3>2. PICK m \in T : \A o \in T : o <= m
      BY <2>2, <3>1 DEF TableOK, HasNewest
    <3>3. m \in Nat /\ q \in Nat /\ m \in S
      BY <3>1, <3>2 DEF TableOK
    <3>4. CASE q \in S /\ q > m
      <4>1. ASSUME NEW o \in S PROVE o <= q
        BY <3>1, <3>2, <3>3, <3>4 DEF TableOK
      <4> QED
        BY <3>4, <4>1 DEF HasNewest
    <3>5. CASE q \notin S \/ q <= m
      BY <3>2, <3>3, <3>5 DEF HasNewest
    <3> QED
      BY <3>3, <3>4, <3>5
  <2> QED
    BY <2>1, <2>2
<1> QED
  BY <1>1, <1>2 DEF TableOK

LEMMA TableStays ==
  ASSUME TableOK, rows' = rows
  PROVE  TableOK'
  BY DEF TableOK, HasNewest, Seqs

LEMMA TamperTable ==
  ASSUME TableOK, Tamper
  PROVE  TableOK'
<1>1. DOMAIN rows' \subseteq DOMAIN rows
  BY DEF Tamper, EditRow, DropRow, SwapRows, Seqs
<1> QED
  BY <1>1 DEF TableOK, Seqs

-----------------------------------------------------------------------------
AuditTypes ==
  /\ TableOK
  /\ proc \in [Stores -> {"down", "open", "closing", "closed"}]
  /\ nextSeq \in [Stores -> Nat \ {0}]
  /\ lastHash = [s \in Stores |-> lastHash[s]]
  /\ mu \in [Stores -> {"free", "wedged"}]
  /\ fault \in [Stores -> {"none", "send", "close"}]
  /\ from \in [Handlers -> Stores \union {NoStore}]
  /\ reg \in [Handlers -> BOOLEAN]
  /\ chan \in [Handlers -> {"none", "open", "closed"}]
  /\ queue \in [Handlers -> Seq(Nat)]
  /\ seen \in [Handlers -> Nat]
  /\ missed \in [Handlers -> BOOLEAN]
  /\ tampers \in Nat

(* A channel is registered while it is open, with a store that runs, and   *)
(* closed only by Close.                                                   *)
ChannelOf(h) ==
  /\ chan[h] = "none" <=> from[h] = NoStore
  /\ chan[h] = "none" => queue[h] = << >>
  /\ reg[h] => chan[h] = "open"
  /\ chan[h] # "none" => proc[from[h]] # "down"
  /\ chan[h] = "closed" => proc[from[h]] \in {"closing", "closed"}

AuditInv ==
  /\ AuditTypes
  /\ \A h \in Handlers : ChannelOf(h)
  /\ PanicsOnlyAfterClose

LEMMA NoFaultyAppend ==
  ASSUME AuditInv, NEW s \in Stores, NEW e \in Events, Append1(s, e)
  PROVE  fault' = fault
<1>1. ~ \E h \in Subscribed(s) : chan[h] = "closed"
  BY DEF AuditInv, ChannelOf, Subscribed
<1> QED
  BY <1>1 DEF Append1, SendFault, AuditInv, AuditTypes

LEMMA AppendTypes ==
  ASSUME AuditInv, NEW s \in Stores, NEW e \in Events, Append1(s, e), tampers' = tampers
  PROVE  AuditTypes'
<1> USE DEF AuditInv, AuditTypes
<1> DEFINE q == nextSeq[s]
           row == Row(e, lastHash[s], q)
<1>1. q \in Nat \ {0} /\ Insert(q, row)
  BY DEF Append1
<1>2. TableOK'
  BY <1>1, InsertTable
<1>3. nextSeq' \in [Stores -> Nat \ {0}] /\ lastHash' = [t \in Stores |-> lastHash'[t]]
  <2>1. nextSeq' = [nextSeq EXCEPT ![s] = q + 1] /\ lastHash' = [lastHash EXCEPT ![s] = row.hash]
    BY DEF Append1
  <2>2. q + 1 \in Nat \ {0}
    BY <1>1
  <2>3. lastHash' = [t \in Stores |-> lastHash'[t]]
    BY <2>1
  <2> QED
    BY <2>1, <2>2, <2>3
<1>4. queue' \in [Handlers -> Seq(Nat)]
  <2>1. queue' = [h \in Handlers |-> IF h \in Subscribed(s) /\ ~Full(h) THEN Append(queue[h], q) ELSE queue[h]]
    BY DEF Append1, FanOut
  <2>2. ASSUME NEW h \in Handlers PROVE Append(queue[h], q) \in Seq(Nat) /\ queue[h] \in Seq(Nat)
    BY <1>1
  <2> QED
    BY <2>1, <2>2
<1>5. missed' \in [Handlers -> BOOLEAN]
  BY DEF Append1, FanOut
<1>6. UNCHANGED <<proc, mu, from, reg, chan, seen>> /\ fault' = fault
  BY NoFaultyAppend DEF Append1
<1> QED
  BY <1>2, <1>3, <1>4, <1>5, <1>6

LEMMA AuditStep ==
  ASSUME AuditInv, [AuditNext]_auditVars
  PROVE  AuditInv'
<1> USE AuditAssumption DEF AuditInv, AuditTypes, PanicsOnlyAfterClose, auditVars, storeVars, streamVars
<1>1. ASSUME NEW s \in Stores, Open(s) PROVE AuditInv'
  <2>1. TailSeq \in Nat
    BY TailSeqType
  <2>2. /\ proc' = [proc EXCEPT ![s] = "open"] /\ proc[s] = "down"
        /\ nextSeq' = [nextSeq EXCEPT ![s] = TailSeq + 1]
        /\ lastHash' = [lastHash EXCEPT ![s] = TailHash]
        /\ UNCHANGED <<rows, mu, fault, streamVars, tampers>>
    BY <1>1 DEF Open, LoadTail
  <2>3. AuditTypes'
    <3>1. TableOK'
      BY <2>2, TableStays
    <3>2. lastHash' = [t \in Stores |-> lastHash'[t]]
      BY <2>2
    <3>3. nextSeq' \in [Stores -> Nat \ {0}]
      BY <2>1, <2>2
    <3> QED
      BY <2>2, <3>1, <3>2, <3>3
  <2>4. \A h \in Handlers : ChannelOf(h)'
    BY <2>2 DEF ChannelOf
  <2>5. PanicsOnlyAfterClose'
    BY <2>2
  <2> QED
    BY <2>3, <2>4, <2>5
<1>2. ASSUME NEW s \in Stores, Rec(s) PROVE AuditInv'
  <2>1. ASSUME NEW e \in Events, Append1(s, e) PROVE AuditInv'
    <3>1. tampers' = tampers
      BY <1>2 DEF Rec
    <3>2. AuditTypes'
      BY <2>1, <3>1, AppendTypes
    <3>3. UNCHANGED <<proc, mu, from, reg, chan, fault>>
      BY <2>1, NoFaultyAppend DEF Append1
    <3>4. ASSUME NEW h \in Handlers, chan[h] = "none" PROVE queue'[h] = << >>
      <4>1. h \notin Subscribed(s) /\ queue[h] = << >>
        BY <3>4 DEF ChannelOf, Subscribed
      <4> QED
        BY <2>1, <4>1 DEF Append1, FanOut
    <3>5. \A h \in Handlers : ChannelOf(h)'
      BY <3>3, <3>4 DEF ChannelOf
    <3> QED
      BY <3>2, <3>3, <3>5
  <2>2. CASE AppendFails(s) /\ tampers' = tampers
    BY <2>2, TableStays DEF AppendFails, ChannelOf
  <2> QED
    BY <1>2, <2>1, <2>2 DEF Rec
<1>3. ASSUME NEW s \in Stores, CloseStore(s) PROVE AuditInv'
  <2>1. AuditTypes'
    <3>1. reg' = [h \in Handlers |-> reg[h] /\ h \notin Subscribed(s)]
      BY <1>3 DEF CloseStore
    <3>2. reg' \in [Handlers -> BOOLEAN]
      BY <3>1
    <3>3. chan' \in [Handlers -> {"none", "open", "closed"}] /\ proc' \in [Stores -> {"down", "open", "closing", "closed"}]
      BY <1>3 DEF CloseStore
    <3>4. rows' = rows /\ UNCHANGED <<nextSeq, lastHash, mu, fault, from, queue, seen, missed, tampers>>
      BY <1>3 DEF CloseStore
    <3>5. TableOK'
      BY <3>4, TableStays
    <3>6. nextSeq' \in [Stores -> Nat \ {0}] /\ lastHash' = [t \in Stores |-> lastHash'[t]]
      BY <3>4
    <3> QED
      BY <3>2, <3>3, <3>4, <3>5, <3>6
  <2>2. ASSUME NEW h \in Handlers PROVE ChannelOf(h)'
    <3>1. CASE h \in Subscribed(s)
      <4>1. from[h] = s /\ s # NoStore /\ chan[h] = "open"
        BY <3>1 DEF Subscribed, ChannelOf
      <4>2. chan'[h] = "closed" /\ from'[h] = s /\ ~reg'[h] /\ proc'[s] = "closing"
        BY <1>3, <3>1, <4>1 DEF CloseStore
      <4> QED
        BY <4>1, <4>2 DEF ChannelOf
    <3>2. CASE h \notin Subscribed(s)
      BY <1>3, <3>2 DEF CloseStore, ChannelOf
    <3> QED
      BY <3>1, <3>2
  <2>3. PanicsOnlyAfterClose'
    BY <1>3 DEF CloseStore
  <2> QED
    BY <2>1, <2>2, <2>3
<1>4. ASSUME NEW s \in Stores, CloseDatabase(s) PROVE AuditInv'
  <2>1. AuditTypes'
    BY <1>4, TableStays DEF CloseDatabase
  <2>2. \A h \in Handlers : ChannelOf(h)'
    BY <1>4 DEF CloseDatabase, ChannelOf
  <2>3. PanicsOnlyAfterClose'
    BY <1>4 DEF CloseDatabase
  <2> QED
    BY <2>1, <2>2, <2>3
<1>5. ASSUME NEW s \in Stores, Exit(s) PROVE AuditInv'
  <2>1. AuditTypes'
    <3>1. \A h \in Handlers : (IF from[h] = s THEN << >> ELSE queue[h]) \in Seq(Nat)
      OBVIOUS
    <3>2. reg' = [h \in Handlers |-> reg[h] /\ ~(from[h] = s)]
      BY <1>5 DEF Exit
    <3>3. reg' \in [Handlers -> BOOLEAN]
      BY <3>2
    <3>4. queue' = [h \in Handlers |-> IF from[h] = s THEN << >> ELSE queue[h]]
      BY <1>5 DEF Exit
    <3>5. queue' \in [Handlers -> Seq(Nat)]
      BY <3>1, <3>4
    <3>6. /\ from' = [h \in Handlers |-> IF from[h] = s THEN NoStore ELSE from[h]]
          /\ chan' = [h \in Handlers |-> IF from[h] = s THEN "none" ELSE chan[h]]
      BY <1>5 DEF Exit
    <3>7. /\ proc' \in [Stores -> {"down", "open", "closing", "closed"}]
          /\ mu' \in [Stores -> {"free", "wedged"}] /\ fault' \in [Stores -> {"none", "send", "close"}]
          /\ rows' = rows /\ UNCHANGED <<nextSeq, lastHash, seen, missed, tampers>>
      BY <1>5 DEF Exit
    <3>8. TableOK'
      BY <3>7, TableStays
    <3>9. nextSeq' \in [Stores -> Nat \ {0}] /\ lastHash' = [t \in Stores |-> lastHash'[t]]
      BY <3>7
    <3>10. /\ from' \in [Handlers -> Stores \union {NoStore}]
           /\ chan' \in [Handlers -> {"none", "open", "closed"}]
      BY <3>6
    <3> QED
      BY <3>3, <3>5, <3>7, <3>8, <3>9, <3>10
  <2>2. ASSUME NEW h \in Handlers PROVE ChannelOf(h)'
    <3>1. CASE from[h] = s
      <4>1. from'[h] = NoStore /\ chan'[h] = "none" /\ queue'[h] = << >> /\ ~reg'[h]
        BY <1>5, <3>1 DEF Exit
      <4> QED
        BY <4>1 DEF ChannelOf
    <3>2. CASE from[h] # s
      <4>1. /\ from'[h] = from[h] /\ chan'[h] = chan[h] /\ queue'[h] = queue[h]
            /\ reg'[h] = reg[h] /\ proc'[from[h]] = proc[from[h]]
        BY <1>5, <3>2 DEF Exit
      <4> QED
        BY <4>1 DEF ChannelOf
    <3> QED
      BY <3>1, <3>2
  <2>3. PanicsOnlyAfterClose'
    BY <1>5 DEF Exit
  <2> QED
    BY <2>1, <2>2, <2>3
<1>6. ASSUME NEW h \in Handlers, NEW s \in Stores, Subscribe(h, s) PROVE AuditInv'
  <2>1. AuditTypes'
    <3>1. nextSeq[s] - 1 \in Nat
      OBVIOUS
    <3> QED
      BY <1>6, <3>1, TableStays DEF Subscribe
  <2>2. ASSUME NEW g \in Handlers PROVE ChannelOf(g)'
    BY <1>6 DEF Subscribe, ChannelOf
  <2>3. PanicsOnlyAfterClose'
    BY <1>6 DEF Subscribe
  <2> QED
    BY <2>1, <2>2, <2>3
<1>7. ASSUME NEW h \in Handlers, Deliver(h) PROVE AuditInv'
  <2>1. queue[h] \in Seq(Nat) /\ Head(queue[h]) \in Nat /\ Tail(queue[h]) \in Seq(Nat)
    BY <1>7 DEF Deliver
  <2>2. AuditTypes'
    BY <1>7, <2>1, TableStays DEF Deliver
  <2>3. \A g \in Handlers : ChannelOf(g)'
    BY <1>7 DEF Deliver, ChannelOf
  <2> QED
    BY <1>7, <2>2, <2>3 DEF Deliver
<1>8. ASSUME NEW h \in Handlers, Cancel(h) PROVE AuditInv'
  <2>1. AuditTypes'
    BY <1>8, TableStays DEF Cancel, Gone
  <2>2. ASSUME NEW g \in Handlers PROVE ChannelOf(g)'
    BY <1>8 DEF Cancel, Gone, ChannelOf
  <2>3. PanicsOnlyAfterClose'
    BY <1>8 DEF Cancel
  <2> QED
    BY <2>1, <2>2, <2>3
<1>9. ASSUME NEW h \in Handlers, CancelClosed(h) PROVE AuditInv'
  <2>1. from[h] \in Stores /\ ~reg[h] /\ proc[from[h]] \in {"closing", "closed"}
    BY <1>9 DEF CancelClosed, ChannelOf
  <2>2. AuditTypes'
    BY <1>9, <2>1, TableStays DEF CancelClosed, Gone
  <2>3. \A g \in Handlers : ChannelOf(g)'
    BY <1>9, <2>1 DEF CancelClosed, Gone, ChannelOf
  <2>4. PanicsOnlyAfterClose'
    BY <1>9, <2>1 DEF CancelClosed
  <2> QED
    BY <2>2, <2>3, <2>4
<1>10. CASE Tamper
  <2>1. TableOK'
    BY <1>10, TamperTable
  <2>2. tampers' \in Nat /\ UNCHANGED <<storeVars, streamVars>>
    BY <1>10 DEF Tamper
  <2> QED
    BY <2>1, <2>2 DEF ChannelOf
<1>11. CASE UNCHANGED auditVars
  BY <1>11, TableStays DEF ChannelOf
<1> QED
  BY <1>1, <1>2, <1>3, <1>4, <1>5, <1>6, <1>7, <1>8, <1>9, <1>10, <1>11
     DEF AuditNext, StoreStep, StreamStep

THEOREM AuditInvariant == AuditSpec => []AuditInv
<1>1. AuditInit => AuditInv
  BY AuditAssumption DEF AuditInit, AuditInv, AuditTypes, TableOK, Seqs, ChannelOf, PanicsOnlyAfterClose
<1> QED
  BY <1>1, AuditStep, PTL DEF AuditSpec

(* Append, Subscribe's cancel and Close: no event is sent on a channel     *)
(* that is closed, and the only second close is of a cancel after Close.   *)
THEOREM AuditPanics == AuditSpec => []PanicsOnlyAfterClose
<1>1. AuditInv => PanicsOnlyAfterClose
  BY DEF AuditInv
<1> QED
  BY AuditInvariant, <1>1, PTL

-----------------------------------------------------------------------------
(* The chain.                                                              *)

ChainInv ==
  tampers = 0 =>
    /\ Seqs = 1..TailSeq
    /\ Broken = {}
    /\ \A s \in Stores : nextSeq[s] <= TailSeq + 1 /\ (nextSeq[s] = TailSeq + 1 => lastHash[s] = TailHash)

IntervalTail ==
  \A n \in Nat : Seqs = 1..n => TailSeq = n /\ (n > 0 => TailHash = rows[n].hash)

LEMMA TailOfInterval == TableOK => IntervalTail
<1> SUFFICES ASSUME TableOK, NEW n \in Nat, Seqs = 1..n
             PROVE  TailSeq = n /\ (n > 0 => TailHash = rows[n].hash)
  BY DEF IntervalTail
<1>1. CASE n = 0
  BY <1>1 DEF TailSeq
<1>2. CASE n > 0
  <2>1. Seqs # {} /\ n \in Seqs
    BY <1>2
  <2>2. Newest(Seqs) \in 1..n /\ n <= Newest(Seqs)
    BY <2>1, NewestIs
  <2>3. Newest(Seqs) = n
    BY <2>2
  <2> QED
    BY <2>1, <2>3 DEF TailSeq, TailHash
<1> QED
  BY <1>1, <1>2

LEMMA ChainGrows ==
  ASSUME AuditInv, ChainInv, tampers = 0, tampers' = 0,
         NEW s \in Stores, NEW e \in Events, Append1(s, e)
  PROVE  /\ Seqs = 1..TailSeq /\ Seqs' = 1..(TailSeq + 1)
         /\ rows' = [q \in 1..(TailSeq + 1) |->
                      IF q = TailSeq + 1 THEN Row(e, TailHash, TailSeq + 1) ELSE rows[q]]
         /\ nextSeq[s] = TailSeq + 1
<1>1. Seqs = 1..TailSeq /\ TailSeq \in Nat
  BY TailSeqType DEF ChainInv, AuditInv, AuditTypes
<1>2. nextSeq[s] \in Nat \ {0} /\ nextSeq[s] \notin Seqs /\ nextSeq[s] <= TailSeq + 1
  BY DEF ChainInv, AuditInv, AuditTypes, Append1
<1>3. nextSeq[s] = TailSeq + 1 /\ lastHash[s] = TailHash
  BY <1>1, <1>2 DEF ChainInv
<1>4. Insert(TailSeq + 1, Row(e, TailHash, TailSeq + 1))
  BY <1>3 DEF Append1
<1>5. Seqs \union {TailSeq + 1} = 1..(TailSeq + 1)
  BY <1>1
<1>6. rows' = [q \in 1..(TailSeq + 1) |->
                 IF q = TailSeq + 1 THEN Row(e, TailHash, TailSeq + 1) ELSE rows[q]]
  BY <1>4, <1>5 DEF Insert
<1> QED
  BY <1>1, <1>3, <1>6 DEF Seqs

LEMMA ChainAppend ==
  ASSUME AuditInv, ChainInv, tampers' = tampers, AuditInv',
         NEW s \in Stores, NEW e \in Events, Append1(s, e)
  PROVE  ChainInv'
<1> SUFFICES ASSUME tampers = 0
             PROVE  /\ Seqs' = 1..TailSeq'
                    /\ Broken' = {}
                    /\ \A t \in Stores : /\ nextSeq'[t] <= TailSeq' + 1
                                         /\ nextSeq'[t] = TailSeq' + 1 => lastHash'[t] = TailHash'
  BY DEF ChainInv
<1> DEFINE n == TailSeq
           row == Row(e, TailHash, n + 1)
<1>1. n \in Nat
  BY TailSeqType DEF AuditInv, AuditTypes
<1>2. /\ Seqs = 1..n /\ Seqs' = 1..(n + 1) /\ nextSeq[s] = n + 1
      /\ rows' = [q \in 1..(n + 1) |-> IF q = n + 1 THEN row ELSE rows[q]]
  BY ChainGrows
<1>3. TailSeq' = n + 1 /\ TailHash' = rows'[n + 1].hash
  <2>1. n + 1 \in Nat /\ n + 1 > 0 /\ TableOK'
    BY <1>1 DEF AuditInv, AuditTypes
  <2>2. \A m \in Nat : Seqs' = 1..m => TailSeq' = m /\ (m > 0 => TailHash' = rows'[m].hash)
    <3>1. TableOK' => IntervalTail'
      BY TailOfInterval, PTL
    <3> QED
      BY <2>1, <3>1 DEF IntervalTail
  <2> QED
    BY <1>2, <2>1, <2>2
<1>4. ASSUME NEW q \in 1..(n + 1) PROVE q \notin Broken'
  <2>1. CASE q = n + 1
    <3>1. Below(q)' = Seqs
      BY <1>1, <1>2, <2>1 DEF Below
    <3>2. HashBefore(q)' = TailHash
      <4>1. CASE Seqs = {}
        BY <3>1, <4>1 DEF HashBefore, TailHash
      <4>2. CASE Seqs # {}
        <5>1. Newest(Below(q)') \in Seqs
          BY <3>1, <4>2, NewestIs DEF AuditInv, AuditTypes
        <5>2. rows'[Newest(Seqs)] = rows[Newest(Seqs)]
          BY <1>1, <1>2, <3>1, <5>1
        <5> QED
          BY <3>1, <4>2, <5>1, <5>2 DEF HashBefore, TailHash
      <4> QED
        BY <4>1, <4>2
    <3>3. rows'[q] = row
      BY <1>1, <1>2, <2>1
    <3> QED
      BY <2>1, <3>2, <3>3 DEF Broken, Row, HashOf
  <2>2. CASE q # n + 1
    <3>1. q \in Seqs /\ q \notin Broken /\ rows'[q] = rows[q]
      BY <1>1, <1>2, <2>2 DEF ChainInv
    <3>2. Below(q)' = Below(q) /\ Below(q) \subseteq Seqs
      BY <1>1, <1>2, <2>2 DEF Below
    <3>3. HashBefore(q)' = HashBefore(q)
      <4>1. CASE Below(q) = {}
        BY <3>2, <4>1 DEF HashBefore
      <4>2. CASE Below(q) # {}
        <5>1. Newest(Below(q)) \in Seqs
          BY <3>2, <4>2, NewestIs DEF AuditInv, AuditTypes
        <5>2. rows'[Newest(Below(q))] = rows[Newest(Below(q))]
          BY <1>1, <1>2, <5>1
        <5> QED
          BY <3>2, <4>2, <5>2 DEF HashBefore
      <4> QED
        BY <4>1, <4>2
    <3> QED
      BY <3>1, <3>3 DEF Broken
  <2> QED
    BY <2>1, <2>2
<1>5. Broken' = {}
  BY <1>2, <1>4 DEF Broken
<1>6. ASSUME NEW t \in Stores
      PROVE  nextSeq'[t] <= n + 2 /\ (nextSeq'[t] = n + 2 => lastHash'[t] = rows'[n + 1].hash)
  <2>1. CASE t = s
    <3>1. nextSeq'[s] = n + 2 /\ lastHash'[s] = Row(e, lastHash[s], n + 1).hash
      BY <1>1, <1>2 DEF Append1, AuditInv, AuditTypes
    <3>2. lastHash[s] = TailHash
      BY <1>2 DEF ChainInv
    <3> QED
      BY <1>1, <1>2, <2>1, <3>1, <3>2
  <2>2. CASE t # s
    <3>1. nextSeq'[t] = nextSeq[t] /\ nextSeq[t] \in Nat /\ nextSeq[t] <= n + 1
      BY <2>2 DEF Append1, AuditInv, AuditTypes, ChainInv
    <3> QED
      BY <1>1, <3>1
  <2> QED
    BY <2>1, <2>2
<1> QED
  BY <1>1, <1>2, <1>3, <1>5, <1>6

LEMMA ChainStep ==
  ASSUME AuditInv, ChainInv, [AuditNext]_auditVars, AuditInv'
  PROVE  ChainInv'
<1>1. ASSUME rows' = rows, tampers' = tampers,
             \A s \in Stores : nextSeq'[s] = nextSeq[s] /\ lastHash'[s] = lastHash[s]
      PROVE  ChainInv'
  <2>1. TailSeq' = TailSeq /\ TailHash' = TailHash /\ Seqs' = Seqs /\ Broken' = Broken
    BY <1>1 DEF Seqs, TailSeq, TailHash, Newest, Broken, HashBefore, Below, HashOf
  <2> QED
    BY <1>1, <2>1 DEF ChainInv
<1>2. ASSUME NEW s \in Stores, Open(s) PROVE ChainInv'
  <2>1. /\ rows' = rows /\ tampers' = tampers
        /\ nextSeq' = [nextSeq EXCEPT ![s] = TailSeq + 1]
        /\ lastHash' = [lastHash EXCEPT ![s] = TailHash]
    BY <1>2 DEF Open, LoadTail
  <2>2. TailSeq' = TailSeq /\ TailHash' = TailHash /\ Seqs' = Seqs /\ Broken' = Broken
    BY <2>1 DEF Seqs, TailSeq, TailHash, Newest, Broken, HashBefore, Below, HashOf
  <2>3. ASSUME tampers = 0, NEW t \in Stores
        PROVE  nextSeq'[t] <= TailSeq + 1 /\ (nextSeq'[t] = TailSeq + 1 => lastHash'[t] = TailHash)
    <3>1. TailSeq \in Nat
      BY TailSeqType DEF AuditInv, AuditTypes
    <3>2. CASE t = s
      BY <2>1, <3>1, <3>2 DEF AuditInv, AuditTypes
    <3>3. CASE t # s
      BY <2>1, <2>3, <3>3 DEF AuditInv, AuditTypes, ChainInv
    <3> QED
      BY <3>2, <3>3
  <2> QED
    BY <2>1, <2>2, <2>3 DEF ChainInv
<1>3. ASSUME NEW s \in Stores, Rec(s) PROVE ChainInv'
  <2>1. ASSUME NEW e \in Events, Append1(s, e) PROVE ChainInv'
    BY <1>3, <2>1, ChainAppend DEF Rec
  <2>2. CASE AppendFails(s)
    BY <1>1, <1>3, <2>2 DEF Rec, AppendFails, storeVars
  <2> QED
    BY <1>3, <2>1, <2>2 DEF Rec
<1>4. CASE Tamper
  BY <1>4 DEF Tamper, ChainInv, AuditInv, AuditTypes
<1>5. ASSUME NEW s \in Stores, CloseStore(s) \/ CloseDatabase(s) \/ Exit(s) PROVE ChainInv'
  BY <1>1, <1>5 DEF CloseStore, CloseDatabase, Exit
<1>6. ASSUME NEW h \in Handlers, StreamStep(h) PROVE ChainInv'
  BY <1>1, <1>6 DEF StreamStep, Subscribe, Deliver, Cancel, CancelClosed, Gone, storeVars
<1>7. CASE UNCHANGED auditVars
  BY <1>1, <1>7 DEF auditVars, storeVars
<1> QED
  BY <1>2, <1>3, <1>4, <1>5, <1>6, <1>7 DEF AuditNext, StoreStep

THEOREM ChainInvariant == AuditSpec => []ChainInv
<1>1. AuditInit => ChainInv
  <2> SUFFICES ASSUME AuditInit PROVE ChainInv
    OBVIOUS
  <2>1. rows = << >> /\ Seqs = {}
    BY DEF AuditInit, Seqs
  <2>2. TailSeq = 0 /\ TailHash = << >> /\ Broken = {}
    BY <2>1 DEF TailSeq, TailHash, Broken
  <2>3. \A s \in Stores : nextSeq[s] = 1 /\ lastHash[s] = << >>
    BY DEF AuditInit
  <2> QED
    BY <2>1, <2>2, <2>3 DEF ChainInv
<1>2. AuditInv /\ AuditInv' /\ ChainInv /\ [AuditNext]_auditVars => ChainInv'
  BY ChainStep
<1> QED
  BY <1>1, <1>2, AuditInvariant, PTL DEF AuditSpec

(* Append and loadTail: with any number of stores, appends that fail,      *)
(* crashes and reopens, Verify passes as long as nobody else wrote.        *)
THEOREM ChainHolds == AuditSpec => []ChainIntact
<1>1. ChainInv => ChainIntact
  BY DEF ChainInv, ChainIntact, Verify
<1> QED
  BY ChainInvariant, <1>1, PTL
-----------------------------------------------------------------------------
(* The log as a client sees it.  The chain invariant says that the table   *)
(* is a sequence as long as nobody tampers.                                *)

LEMMA AppendIsLonger ==
  ASSUME NEW n \in Nat, NEW f, NEW e
  PROVE  Append([q \in 1..n |-> f[q]], e) = [q \in 1..(n + 1) |-> IF q = n + 1 THEN e ELSE f[q]]
<1> DEFINE S == {f[q] : q \in 1..n} \union {e}
           a == [q \in 1..n |-> f[q]]
           b == [q \in 1..(n + 1) |-> IF q = n + 1 THEN e ELSE f[q]]
<1>1. a \in Seq(S) /\ Len(a) = n /\ e \in S
  OBVIOUS
<1>2. b \in Seq(S) /\ Len(b) = n + 1
  OBVIOUS
<1>3. Append(a, e) \in Seq(S) /\ Len(Append(a, e)) = n + 1
  BY <1>1
<1>4. ASSUME NEW q \in 1..(n + 1) PROVE Append(a, e)[q] = b[q]
  <2>1. CASE q = n + 1
    BY <1>1, <2>1
  <2>2. CASE q \in 1..n
    BY <1>1, <2>2
  <2> QED
    BY <2>1, <2>2
<1> QED
  BY <1>2, <1>3, <1>4, SeqEqual

LEMMA LedgerStep ==
  ASSUME AuditInv, ChainInv, [AuditNext]_auditVars
  PROVE  [Ledger!Next]_<<[q \in Seqs |-> rows[q].ev], tampers > 0>>
<1> USE DEF Ledger!Next, Ledger!Take, Ledger!Touch
<1>1. tampers \in Nat
  BY DEF AuditInv, AuditTypes
<1>2. ASSUME rows' = rows, tampers' = tampers
      PROVE  [Ledger!Next]_<<[q \in Seqs |-> rows[q].ev], tampers > 0>>
  BY <1>2 DEF Seqs
<1>3. CASE tampers' > 0
  BY <1>3
<1>4. ASSUME NEW s \in Stores, NEW e \in Events, Append1(s, e), tampers' = tampers, tampers = 0
      PROVE  Ledger!Take(e)
  <2> DEFINE n == TailSeq
             row == Row(e, TailHash, n + 1)
  <2>1. n \in Nat
    BY TailSeqType DEF AuditInv, AuditTypes
  <2>2. /\ Seqs = 1..n /\ Seqs' = 1..(n + 1)
        /\ rows' = [q \in 1..(n + 1) |-> IF q = n + 1 THEN row ELSE rows[q]]
    BY <1>4, ChainGrows
  <2> DEFINE f == [q \in 1..n |-> rows[q].ev]
  <2>3. row.ev = e
    BY DEF Row
  <2> HIDE DEF n, row
  <2>4. [q \in Seqs |-> rows[q].ev]' = [q \in 1..(n + 1) |-> IF q = n + 1 THEN e ELSE f[q]]
    BY <2>1, <2>2, <2>3
  <2>5. [q \in Seqs |-> rows[q].ev] = [q \in 1..n |-> f[q]]
    BY <2>2
  <2> HIDE DEF f
  <2>6. Append([q \in 1..n |-> f[q]], e) = [q \in 1..(n + 1) |-> IF q = n + 1 THEN e ELSE f[q]]
    BY <2>1, AppendIsLonger
  <2>7. [q \in Seqs |-> rows[q].ev]' = Append([q \in Seqs |-> rows[q].ev], e)
    BY <2>4, <2>5, <2>6
  <2>8. ~ (tampers > 0) /\ (tampers' > 0) = (tampers > 0)
    BY <1>4
  <2> QED
    BY <2>7, <2>8, Zenon
<1>5. ASSUME NEW s \in Stores, Rec(s)
      PROVE  [Ledger!Next]_<<[q \in Seqs |-> rows[q].ev], tampers > 0>>
  <2>1. tampers' = tampers
    BY <1>5 DEF Rec
  <2>2. CASE AppendFails(s)
    BY <1>2, <2>1, <2>2 DEF AppendFails
  <2>3. ASSUME NEW e \in Events, Append1(s, e)
        PROVE  [Ledger!Next]_<<[q \in Seqs |-> rows[q].ev], tampers > 0>>
    <3>1. CASE tampers = 0
      <4>1. Ledger!Take(e)
        BY <1>4, <2>1, <2>3, <3>1
      <4> QED
        BY <4>1
    <3>2. CASE tampers # 0
      BY <1>1, <1>3, <2>1, <3>2
    <3> QED
      BY <3>1, <3>2
  <2> QED
    BY <1>5, <2>2, <2>3 DEF Rec
<1>6. ASSUME NEW s \in Stores, Open(s) \/ CloseStore(s) \/ CloseDatabase(s) \/ Exit(s)
      PROVE  [Ledger!Next]_<<[q \in Seqs |-> rows[q].ev], tampers > 0>>
  BY <1>2, <1>6 DEF Open, CloseStore, CloseDatabase, Exit
<1>7. ASSUME NEW h \in Handlers, StreamStep(h)
      PROVE  [Ledger!Next]_<<[q \in Seqs |-> rows[q].ev], tampers > 0>>
  BY <1>2, <1>7 DEF StreamStep, Subscribe, Deliver, Cancel, CancelClosed, Gone
<1>8. CASE Tamper
  BY <1>1, <1>3, <1>8 DEF Tamper
<1>9. CASE UNCHANGED auditVars
  BY <1>2, <1>9 DEF auditVars
<1> QED
  BY <1>5, <1>6, <1>7, <1>8, <1>9 DEF AuditNext, StoreStep

(* The audit store, with crashes, failed appends and a second store,       *)
(* implements an append-only log for as long as nobody else writes to its  *)
(* table: every step is an append at the end, or leaves the log alone.     *)
THEOREM LogIsAppendOnly == AuditSpec => ImplementsAppendLog
<1>1. AuditInit => Ledger!Init
  BY DEF AuditInit, Ledger!Init, Seqs
<1>2. AuditInv /\ ChainInv /\ [AuditNext]_auditVars
        => [Ledger!Next]_<<[q \in Seqs |-> rows[q].ev], tampers > 0>>
  BY LedgerStep
<1> QED
  BY <1>1, <1>2, AuditInvariant, ChainInvariant, PTL DEF AuditSpec, ImplementsAppendLog, Ledger!Spec

-----------------------------------------------------------------------------
(* What Verify tells of a table somebody has written to.  Whatever they    *)
(* do, a row keeps the link and the digest of a row a store wrote, and the *)
(* digest says which.                                                      *)

WrittenOK ==
  \A w \in written : /\ w.row = Row(w.row.ev, w.row.prev, w.seq)
                      /\ w = [seq |-> w.seq, row |-> w.row, after |-> w.after]

Originals ==
  \A q \in Seqs :
    /\ rows[q] = [ev |-> rows[q].ev, prev |-> rows[q].prev, hash |-> rows[q].hash]
    /\ \E w \in written : w.row.prev = rows[q].prev /\ w.row.hash = rows[q].hash

Follows(w) ==
  \/ w.seq = 1
  \/ \E v \in written : v.seq = w.seq - 1 /\ w.row.prev = v.row.hash

CleanChain ==
  /\ \A w \in written : w.after = 0 => Follows(w)
  /\ tampers = 0 => \A q \in Seqs : \E w \in written : w.seq = q /\ w.row = rows[q]

ForgeInv == WrittenOK /\ Originals /\ CleanChain

LEMMA ForgeAppend ==
  ASSUME AuditInv, ChainInv, ForgeInv, tampers' = tampers,
         NEW s \in Stores, NEW e \in Events, Append1(s, e)
  PROVE  ForgeInv'
<1> DEFINE q == nextSeq[s]
           row == Row(e, lastHash[s], q)
<1>0. PICK new : new = [seq |-> q, row |-> row, after |-> tampers]
  OBVIOUS
<1>1. /\ written' = written \union {new} /\ Seqs' = Seqs \union {q}
      /\ rows' = [p \in Seqs \union {q} |-> IF p = q THEN row ELSE rows[p]]
  BY <1>0 DEF Append1, Insert, Seqs
<1>2. /\ row.ev = e /\ row.prev = lastHash[s] /\ row.hash = HashOf(q, e, lastHash[s])
      /\ row = [ev |-> row.ev, prev |-> row.prev, hash |-> row.hash]
      /\ row = Row(row.ev, row.prev, q)
      /\ new.row = row /\ new.seq = q /\ new.after = tampers
  BY <1>0 DEF Row
<1> HIDE DEF row
<1>3. new = [seq |-> new.seq, row |-> new.row, after |-> new.after]
  BY <1>0
<1>4. WrittenOK'
  <2> SUFFICES ASSUME NEW w \in written \union {new}
               PROVE  /\ w.row = Row(w.row.ev, w.row.prev, w.seq)
                      /\ w = [seq |-> w.seq, row |-> w.row, after |-> w.after]
    BY <1>1 DEF WrittenOK, Row, HashOf
  <2> QED
    BY <1>2, <1>3 DEF ForgeInv, WrittenOK
<1>5. Originals'
  <2> SUFFICES ASSUME NEW p \in Seqs \union {q}
               PROVE  /\ rows'[p] = [ev |-> rows'[p].ev, prev |-> rows'[p].prev, hash |-> rows'[p].hash]
                      /\ \E w \in written' : w.row.prev = rows'[p].prev /\ w.row.hash = rows'[p].hash
    BY <1>1 DEF Originals
  <2>1. CASE p = q
    BY <1>1, <1>2, <2>1
  <2>2. CASE p # q
    <3>1. p \in Seqs /\ rows'[p] = rows[p]
      BY <1>1, <2>2
    <3> QED
      BY <1>1, <3>1 DEF ForgeInv, Originals
  <2> QED
    BY <2>1, <2>2
<1>6. CleanChain'
  <2>1. ASSUME NEW w \in written, w.after = 0 PROVE Follows(w)'
    BY <1>1, <2>1 DEF ForgeInv, CleanChain, Follows
  <2>2. ASSUME tampers = 0 PROVE Follows(new)'
    <3>1. TailSeq \in Nat
      BY TailSeqType DEF AuditInv, AuditTypes
    <3>2. q = TailSeq + 1 /\ Seqs = 1..TailSeq /\ lastHash[s] = TailHash
      BY <2>2, ChainGrows DEF ChainInv
    <3>3. CASE TailSeq = 0
      BY <1>2, <3>2, <3>3 DEF Follows
    <3>4. CASE TailSeq # 0
      <4>1. TailSeq \in Seqs /\ TailHash = rows[TailSeq].hash
        BY <3>1, <3>2, <3>4, TailOfInterval DEF IntervalTail, AuditInv, AuditTypes
      <4>2. PICK v \in written : v.seq = TailSeq /\ v.row = rows[TailSeq]
        BY <2>2, <4>1 DEF ForgeInv, CleanChain
      <4>3. v \in written' /\ v.seq = new.seq - 1 /\ new.row.prev = v.row.hash
        BY <1>1, <1>2, <3>1, <3>2, <4>1, <4>2
      <4> QED
        BY <4>3 DEF Follows
    <3> QED
      BY <3>3, <3>4
  <2>3. ASSUME tampers = 0, NEW p \in Seqs \union {q}
        PROVE  \E w \in written' : w.seq = p /\ w.row = rows'[p]
    <3>1. CASE p = q
      BY <1>1, <1>2, <3>1
    <3>2. CASE p # q
      <4>1. p \in Seqs /\ rows'[p] = rows[p]
        BY <1>1, <3>2
      <4> QED
        BY <1>1, <2>3, <4>1 DEF ForgeInv, CleanChain
    <3> QED
      BY <3>1, <3>2
  <2>4. \A w \in written' : w.after = 0 => Follows(w)'
    BY <1>1, <1>2, <2>1, <2>2
  <2> QED
    BY <1>1, <2>3, <2>4 DEF CleanChain, Follows
<1> QED
  BY <1>4, <1>5, <1>6 DEF ForgeInv

LEMMA ForgeStep ==
  ASSUME AuditInv, ChainInv, ForgeInv, [AuditNext]_auditVars
  PROVE  ForgeInv'
<1>1. ASSUME rows' = rows, written' = written, tampers' = tampers PROVE ForgeInv'
  BY <1>1 DEF ForgeInv, WrittenOK, Originals, CleanChain, Follows, Seqs, Row, HashOf
<1>2. ASSUME NEW s \in Stores, StoreStep(s) PROVE ForgeInv'
  BY <1>1, <1>2, ForgeAppend
     DEF StoreStep, Open, Rec, AppendFails, CloseStore, CloseDatabase, Exit
<1>3. ASSUME NEW h \in Handlers, StreamStep(h) PROVE ForgeInv'
  BY <1>1, <1>3 DEF StreamStep, Subscribe, Deliver, Cancel, CancelClosed, Gone
<1>4. CASE Tamper
  <2>1. written' = written /\ tampers' # 0
    BY <1>4 DEF Tamper, AuditInv, AuditTypes
  <2>2. Originals'
    <3> SUFFICES ASSUME NEW q \in Seqs'
                 PROVE  /\ rows'[q] = [ev |-> rows'[q].ev, prev |-> rows'[q].prev, hash |-> rows'[q].hash]
                        /\ \E o \in Seqs : rows'[q].prev = rows[o].prev /\ rows'[q].hash = rows[o].hash
      <4> SUFFICES ASSUME NEW q \in Seqs'
                   PROVE  /\ rows'[q] = [ev |-> rows'[q].ev, prev |-> rows'[q].prev, hash |-> rows'[q].hash]
                          /\ \E w \in written' : w.row.prev = rows'[q].prev /\ w.row.hash = rows'[q].hash
        BY DEF Originals
      <4>1. PICK o \in Seqs : rows'[q].prev = rows[o].prev /\ rows'[q].hash = rows[o].hash
        OBVIOUS
      <4>2. PICK w \in written : w.row.prev = rows[o].prev /\ w.row.hash = rows[o].hash
        BY DEF ForgeInv, Originals
      <4> QED
        BY <2>1, <4>1, <4>2
    <3>1. \A o \in Seqs : rows[o] = [ev |-> rows[o].ev, prev |-> rows[o].prev, hash |-> rows[o].hash]
      BY DEF ForgeInv, Originals
    <3>2. ASSUME NEW p \in Seqs, NEW e \in Events, EditRow(p, e)
          PROVE  /\ rows'[q] = [ev |-> rows'[q].ev, prev |-> rows'[q].prev, hash |-> rows'[q].hash]
                 /\ \E o \in Seqs : rows'[q].prev = rows[o].prev /\ rows'[q].hash = rows[o].hash
      <4>1. q \in Seqs /\ rows' = [rows EXCEPT ![p].ev = e]
        BY <3>2 DEF EditRow, Seqs
      <4>2. CASE q = p
        <5>1. rows'[q] = [rows[q] EXCEPT !.ev = e]
          BY <4>1, <4>2 DEF Seqs
        <5>2. rows'[q] = [ev |-> e, prev |-> rows[q].prev, hash |-> rows[q].hash]
          <6>1. PICK a, b, c : rows[q] = [ev |-> a, prev |-> b, hash |-> c]
            BY <3>1, <4>1
          <6> QED
            BY <5>1, <6>1
        <5> QED
          BY <4>1, <5>2
      <4>3. CASE q # p
        BY <3>1, <4>1, <4>3 DEF Seqs
      <4> QED
        BY <4>2, <4>3
    <3>3. ASSUME NEW p \in Seqs, DropRow(p)
          PROVE  q \in Seqs /\ rows'[q] = rows[q]
      BY <3>3 DEF DropRow, Seqs
    <3>4. ASSUME NEW p \in Seqs, NEW o \in Seqs, SwapRows(o, p)
          PROVE  \E r \in Seqs : rows'[q] = rows[r]
      BY <3>4 DEF SwapRows, Seqs
    <3> QED
      BY <1>4, <3>1, <3>2, <3>3, <3>4 DEF Tamper
  <2> QED
    BY <2>1, <2>2 DEF ForgeInv, WrittenOK, CleanChain, Follows, Row, HashOf
<1>5. CASE UNCHANGED auditVars
  BY <1>1, <1>5 DEF auditVars
<1> QED
  BY <1>2, <1>3, <1>4, <1>5 DEF AuditNext

LEMMA CatchInv ==
  ASSUME AuditInv, ForgeInv
  PROVE  VerifyCatches
<1> SUFFICES ASSUME Broken = {}
             PROVE  /\ \A q \in Seqs : \E w \in written : w.seq = q /\ w.row = rows[q]
                    /\ (\A w \in written : w.after = 0) => \A q \in Seqs : q > 1 => q - 1 \in Seqs
  BY DEF VerifyCatches, Verify
<1>1. \A q \in Seqs : rows[q].prev = HashBefore(q) /\ rows[q].hash = <<q, rows[q].ev, rows[q].prev>>
  BY DEF Broken, HashOf
<1>2. ASSUME NEW q \in Seqs PROVE \E w \in written : w.seq = q /\ w.row = rows[q]
  <2>1. PICK w \in written : w.row.prev = rows[q].prev /\ w.row.hash = rows[q].hash
    BY DEF ForgeInv, Originals
  <2>2. w.row = [ev |-> w.row.ev, prev |-> w.row.prev, hash |-> <<w.seq, w.row.ev, w.row.prev>>]
    BY DEF ForgeInv, WrittenOK, Row, HashOf
  <2>3. <<w.seq, w.row.ev, w.row.prev>> = <<q, rows[q].ev, rows[q].prev>>
    BY <1>1, <2>1, <2>2
  <2>4. w.seq = q /\ w.row.ev = rows[q].ev
    BY <2>3
  <2>5. rows[q] = [ev |-> rows[q].ev, prev |-> rows[q].prev, hash |-> rows[q].hash]
    BY DEF ForgeInv, Originals
  <2>6. w.row = rows[q]
    BY <1>1, <2>1, <2>2, <2>4, <2>5
  <2> QED
    BY <2>4, <2>6
<1>3. ASSUME \A w \in written : w.after = 0, NEW q \in Seqs, q > 1
      PROVE  q - 1 \in Seqs
  <2>1. PICK w \in written : w.seq = q /\ w.row = rows[q]
    BY <1>2
  <2>2. q \in Nat
    BY DEF AuditInv, AuditTypes, TableOK
  <2>3. PICK v \in written : v.seq = q - 1 /\ rows[q].prev = v.row.hash
    BY <1>3, <2>1, <2>2 DEF ForgeInv, CleanChain, Follows
  <2>4. v.row.hash = <<q - 1, v.row.ev, v.row.prev>>
    <3>1. v.row = Row(v.row.ev, v.row.prev, v.seq)
      BY DEF ForgeInv, WrittenOK
    <3> QED
      BY <2>3, <3>1 DEF Row, HashOf
  <2>5. HashBefore(q) = <<q - 1, v.row.ev, v.row.prev>>
    BY <1>1, <2>3, <2>4
  <2>6. Below(q) # {}
    BY <2>5 DEF HashBefore
  <2>7. Newest(Below(q)) \in Seqs
    BY <2>6, NewestIs DEF Below, AuditInv, AuditTypes
  <2>8. <<Newest(Below(q)), rows[Newest(Below(q))].ev, rows[Newest(Below(q))].prev>>
          = <<q - 1, v.row.ev, v.row.prev>>
    BY <1>1, <2>5, <2>6, <2>7 DEF HashBefore
  <2>9. Newest(Below(q)) = q - 1
    BY <2>8
  <2> QED
    BY <2>7, <2>9
<1> QED
  BY <1>2, <1>3

(* Verify: a table that passes holds rows that stores wrote, each where it *)
(* was written, and, if nobody wrote on after it was tampered with, every  *)
(* one up to its newest.                                                   *)
THEOREM TamperingShows == AuditSpec => []VerifyCatches
<1>1. AuditInit => ForgeInv
  BY DEF AuditInit, ForgeInv, WrittenOK, Originals, CleanChain, Seqs
<1>2. AuditInv /\ ChainInv /\ ForgeInv /\ [AuditNext]_auditVars => ForgeInv'
  BY ForgeStep
<1>3. AuditInv /\ ForgeInv => VerifyCatches
  BY CatchInv
<1> QED
  BY <1>1, <1>2, <1>3, AuditInvariant, ChainInvariant, PTL DEF AuditSpec

-----------------------------------------------------------------------------
(* Streams.  A stream that has missed nothing holds the numbers after the  *)
(* last one seen, one by one: without that, taking one out would say       *)
(* nothing of how many are left.                                           *)

Flowing(q, low, tail, gaps) ==
  /\ low <= tail
  /\ \A i \in 1..Len(q) : low < q[i] /\ q[i] <= tail
  /\ \A i, j \in 1..Len(q) : i < j => q[i] < q[j]
  /\ ~gaps => Len(q) = tail - low /\ \A i \in 1..Len(q) : q[i] = low + i

StreamOK(h) == reg[h] => Flowing(queue[h], seen[h], nextSeq[from[h]] - 1, missed[h])

StreamInv == \A h \in Handlers : StreamOK(h)

LEMMA StreamSame ==
  ASSUME NEW h \in Handlers, StreamOK(h),
         reg'[h] => /\ reg[h] /\ from'[h] = from[h] /\ queue'[h] = queue[h]
                    /\ seen'[h] = seen[h] /\ missed'[h] = missed[h]
                    /\ nextSeq'[from[h]] = nextSeq[from[h]]
  PROVE  StreamOK(h)'
  BY DEF StreamOK

LEMMA FlowPut ==
  ASSUME NEW q \in Seq(Nat), NEW low \in Nat, NEW tail \in Nat, NEW gaps \in BOOLEAN,
         Flowing(q, low, tail, gaps)
  PROVE  /\ Flowing(Append(q, tail + 1), low, tail + 1, gaps)
         /\ Flowing(q, low, tail + 1, TRUE)
<1> DEFINE r == Append(q, tail + 1)
<1>1. Len(r) = Len(q) + 1 /\ Len(q) \in Nat /\ \A i \in 1..Len(q) : r[i] = q[i] /\ q[i] \in Nat
  OBVIOUS
<1>2. r[Len(q) + 1] = tail + 1
  OBVIOUS
<1> HIDE DEF r
<1>3. \A i \in 1..Len(r) : i \in 1..Len(q) \/ i = Len(q) + 1
  BY <1>1
<1>4. Flowing(r, low, tail + 1, gaps)
  <2>1. low <= tail /\ low <= tail + 1 /\ \A i \in 1..Len(q) : low < q[i] /\ q[i] <= tail
    BY DEF Flowing
  <2>2. ASSUME NEW i \in 1..Len(r) PROVE low < r[i] /\ r[i] <= tail + 1
    <3>1. CASE i \in 1..Len(q)
      BY <1>1, <2>1, <3>1
    <3>2. CASE i = Len(q) + 1
      BY <1>2, <2>1, <3>2
    <3> QED
      BY <1>3, <3>1, <3>2
  <2>3. ASSUME NEW i \in 1..Len(r), NEW j \in 1..Len(r), i < j PROVE r[i] < r[j]
    <3>1. i \in 1..Len(q) /\ r[i] = q[i] /\ q[i] \in Nat /\ q[i] <= tail
      BY <1>1, <2>1, <2>3
    <3>2. CASE j \in 1..Len(q)
      BY <1>1, <2>3, <3>1, <3>2 DEF Flowing
    <3>3. CASE j = Len(q) + 1
      BY <1>2, <3>1, <3>3
    <3> QED
      BY <1>3, <3>2, <3>3
  <2>4. ASSUME ~gaps PROVE Len(r) = tail + 1 - low /\ \A i \in 1..Len(r) : r[i] = low + i
    <3>1. Len(q) = tail - low /\ \A i \in 1..Len(q) : q[i] = low + i
      BY <2>4 DEF Flowing
    <3>2. ASSUME NEW i \in 1..Len(r) PROVE r[i] = low + i
      <4>1. CASE i \in 1..Len(q)
        BY <1>1, <3>1, <4>1
      <4>2. CASE i = Len(q) + 1
        BY <1>1, <1>2, <3>1, <4>2
      <4> QED
        BY <1>3, <4>1, <4>2
    <3>3. Len(r) = tail + 1 - low
      BY <1>1, <3>1
    <3> QED
      BY <3>2, <3>3
  <2> QED
    BY <2>1, <2>2, <2>3, <2>4 DEF Flowing
<1>5. Flowing(q, low, tail + 1, TRUE)
  BY <1>1 DEF Flowing
<1> QED
  BY <1>4, <1>5 DEF r

LEMMA FlowTake ==
  ASSUME NEW q \in Seq(Nat), NEW low \in Nat, NEW tail \in Nat, NEW gaps \in BOOLEAN,
         Flowing(q, low, tail, gaps), q # << >>
  PROVE  Flowing(Tail(q), Head(q), tail, gaps)
<1> DEFINE r == Tail(q)
<1>1. /\ Len(q) \in Nat /\ Len(q) > 0 /\ Len(r) = Len(q) - 1 /\ Head(q) = q[1]
      /\ \A i \in 1..Len(r) : r[i] = q[i + 1] /\ i + 1 \in 1..Len(q)
      /\ \A i \in 1..Len(q) : q[i] \in Nat
  OBVIOUS
<1> HIDE DEF r
<1>2. 1 \in 1..Len(q)
  BY <1>1
<1>3. ASSUME NEW i \in 1..Len(r), NEW j \in 1..Len(r), i < j PROVE r[i] < r[j]
  <2>1. i + 1 \in 1..Len(q) /\ j + 1 \in 1..Len(q) /\ i + 1 < j + 1 /\ r[i] = q[i + 1] /\ r[j] = q[j + 1]
    BY <1>1, <1>3
  <2> QED
    BY <2>1 DEF Flowing
<1>4. ASSUME NEW i \in 1..Len(r) PROVE q[1] < r[i] /\ r[i] <= tail
  <2>1. i + 1 \in 1..Len(q) /\ 1 < i + 1 /\ r[i] = q[i + 1]
    BY <1>1
  <2> QED
    BY <1>2, <2>1 DEF Flowing
<1>5. ASSUME ~gaps PROVE Len(r) = tail - q[1] /\ \A i \in 1..Len(r) : r[i] = q[1] + i
  BY <1>1, <1>2, <1>5 DEF Flowing
<1>6. q[1] <= tail
  BY <1>2 DEF Flowing
<1> QED
  BY <1>1, <1>3, <1>4, <1>5, <1>6 DEF Flowing, r

LEMMA StreamAppend ==
  ASSUME AuditInv, NEW s \in Stores, NEW e \in Events, Append1(s, e),
         NEW h \in Handlers, StreamOK(h)
  PROVE  StreamOK(h)'
<1>1. /\ nextSeq' = [nextSeq EXCEPT ![s] = nextSeq[s] + 1] /\ nextSeq \in [Stores -> Nat \ {0}]
      /\ UNCHANGED <<from, reg, seen>>
      /\ queue'[h] = IF h \in Subscribed(s) /\ ~Full(h) THEN Append(queue[h], nextSeq[s]) ELSE queue[h]
      /\ missed'[h] = (missed[h] \/ (h \in Subscribed(s) /\ Full(h)))
      /\ queue[h] \in Seq(Nat) /\ seen[h] \in Nat /\ missed[h] \in BOOLEAN
  BY DEF Append1, FanOut, AuditInv, AuditTypes
<1>2. CASE h \notin Subscribed(s)
  <2>1. reg[h] => from[h] # s
    BY <1>2 DEF Subscribed
  <2> QED
    BY <1>1, <1>2, <2>1, StreamSame
<1>3. CASE h \in Subscribed(s)
  <2> DEFINE tail == nextSeq[s] - 1
  <2>1. /\ reg[h] /\ from[h] = s /\ tail \in Nat /\ nextSeq[s] = tail + 1
        /\ reg'[h] /\ from'[h] = s /\ nextSeq'[s] - 1 = tail + 1 /\ seen'[h] = seen[h]
    <3>1. nextSeq[s] \in Nat \ {0} /\ nextSeq'[s] = nextSeq[s] + 1
      BY <1>1
    <3>2. reg[h] /\ from[h] = s /\ reg' = reg /\ from' = from /\ seen' = seen
      BY <1>1, <1>3 DEF Subscribed
    <3> QED
      BY <3>1, <3>2
  <2>2. Flowing(queue[h], seen[h], tail, missed[h])
    BY <2>1 DEF StreamOK
  <2>3. CASE Full(h)
    <3>1. queue'[h] = queue[h] /\ missed'[h]
      BY <1>1, <1>3, <2>3
    <3>2. Flowing(queue[h], seen[h], tail + 1, TRUE)
      BY <1>1, <2>1, <2>2, FlowPut
    <3>3. Flowing(queue'[h], seen'[h], tail + 1, missed'[h])
      BY <2>1, <3>1, <3>2 DEF Flowing
    <3> QED
      BY <2>1, <3>3 DEF StreamOK
  <2>4. CASE ~Full(h)
    <3>1. queue'[h] = Append(queue[h], tail + 1) /\ missed'[h] = missed[h]
      BY <1>1, <1>3, <2>1, <2>4
    <3>2. Flowing(queue'[h], seen'[h], tail + 1, missed'[h])
      BY <1>1, <2>1, <2>2, <3>1, FlowPut, ZenonT(40)
    <3> QED
      BY <2>1, <3>2 DEF StreamOK
  <2> QED
    BY <2>3, <2>4
<1> QED
  BY <1>2, <1>3

LEMMA StreamStepOK ==
  ASSUME AuditInv, StreamInv, [AuditNext]_auditVars
  PROVE  StreamInv'
<1> SUFFICES ASSUME NEW h \in Handlers
             PROVE  StreamOK(h)'
  BY DEF StreamInv
<1> USE DEF StreamInv
<1>1. /\ nextSeq \in [Stores -> Nat \ {0}] /\ queue \in [Handlers -> Seq(Nat)]
      /\ seen \in [Handlers -> Nat] /\ missed \in [Handlers -> BOOLEAN]
      /\ from \in [Handlers -> Stores \union {NoStore}] /\ reg \in [Handlers -> BOOLEAN]
      /\ chan[h] = "none" => queue[h] = << >>
      /\ reg[h] => chan[h] = "open" /\ from[h] \in Stores /\ proc[from[h]] # "down"
  BY DEF AuditInv, AuditTypes, ChannelOf
<1>2. ASSUME NEW s \in Stores, Open(s) PROVE StreamOK(h)'
  <2>1. reg[h] => from[h] # s
    BY <1>1, <1>2 DEF Open
  <2> QED
    BY <1>1, <1>2, <2>1, StreamSame DEF Open, LoadTail, streamVars
<1>3. ASSUME NEW s \in Stores, Rec(s) PROVE StreamOK(h)'
  <2>1. CASE AppendFails(s)
    BY <2>1, StreamSame DEF AppendFails, storeVars, streamVars
  <2> QED
    BY <1>3, <2>1, StreamAppend DEF Rec
<1>4. ASSUME NEW s \in Stores, CloseStore(s) PROVE StreamOK(h)'
  BY <1>4, StreamSame DEF CloseStore
<1>5. ASSUME NEW s \in Stores, CloseDatabase(s) PROVE StreamOK(h)'
  BY <1>5, StreamSame DEF CloseDatabase, streamVars
<1>6. ASSUME NEW s \in Stores, Exit(s) PROVE StreamOK(h)'
  BY <1>6, StreamSame DEF Exit
<1>7. ASSUME NEW g \in Handlers, NEW s \in Stores, Subscribe(g, s) PROVE StreamOK(h)'
  <2>1. CASE g # h
    BY <1>1, <1>7, <2>1, StreamSame DEF Subscribe, storeVars
  <2>2. CASE g = h
    <3>1. /\ queue'[h] = << >> /\ seen'[h] = nextSeq[s] - 1 /\ from'[h] = s
          /\ nextSeq'[s] = nextSeq[s] /\ nextSeq[s] \in Nat
      BY <1>1, <1>7, <2>2 DEF Subscribe, storeVars
    <3>2. Flowing(queue'[h], seen'[h], nextSeq'[from'[h]] - 1, missed'[h])
      BY <3>1 DEF Flowing
    <3> QED
      BY <3>2 DEF StreamOK
  <2> QED
    BY <2>1, <2>2
<1>8. ASSUME NEW g \in Handlers, Deliver(g) PROVE StreamOK(h)'
  <2>1. CASE g # h
    BY <1>1, <1>8, <2>1, StreamSame DEF Deliver, storeVars
  <2>2. CASE g = h
    <3>1. /\ queue[h] # << >> /\ queue'[h] = Tail(queue[h]) /\ seen'[h] = Head(queue[h])
          /\ UNCHANGED <<nextSeq, from, reg, missed>>
      BY <1>1, <1>8, <2>2 DEF Deliver, storeVars
    <3>2. ASSUME reg[h]
          PROVE  Flowing(queue'[h], seen'[h], nextSeq[from[h]] - 1, missed[h])
      <4>1. nextSeq[from[h]] - 1 \in Nat
        BY <1>1, <3>2
      <4>2. Flowing(queue[h], seen[h], nextSeq[from[h]] - 1, missed[h])
        BY <3>2 DEF StreamOK
      <4> QED
        BY <1>1, <3>1, <4>1, <4>2, FlowTake
    <3> QED
      BY <3>1, <3>2 DEF StreamOK
  <2> QED
    BY <2>1, <2>2
<1>9. ASSUME NEW g \in Handlers, Cancel(g) \/ CancelClosed(g) PROVE StreamOK(h)'
  <2>1. reg'[h] => g # h /\ reg[h]
    BY <1>1, <1>9 DEF Cancel, CancelClosed, Gone
  <2> QED
    BY <1>1, <1>9, <2>1, StreamSame DEF Cancel, CancelClosed, Gone, storeVars
<1>10. CASE Tamper
  BY <1>10, StreamSame DEF Tamper, storeVars, streamVars
<1>11. CASE UNCHANGED auditVars
  BY <1>11, StreamSame DEF auditVars, storeVars, streamVars
<1> QED
  BY <1>2, <1>3, <1>4, <1>5, <1>6, <1>7, <1>8, <1>9, <1>10, <1>11
     DEF AuditNext, StoreStep, StreamStep

(* Subscribe and the fan-out of Append, which drops an event rather than   *)
(* wait: what a stream holds is in order and within the log, and if it has *)
(* missed nothing it is every event from the last one seen.                *)
THEOREM StreamsFollow == AuditSpec => []StreamFollowsLog
<1>1. AuditInit => StreamInv
  BY DEF AuditInit, StreamInv, StreamOK
<1>2. AuditInv /\ StreamInv => StreamFollowsLog
  <2> SUFFICES ASSUME AuditInv, StreamInv, NEW h \in Handlers, reg[h]
               PROVE  LET tail == nextSeq[from[h]] - 1
                          q == queue[h]
                      IN /\ \A i, j \in 1..Len(q) : i < j => q[i] < q[j]
                         /\ \A i \in 1..Len(q) : q[i] > seen[h] /\ q[i] <= tail
                         /\ ~missed[h] => Len(q) = tail - seen[h]
    BY DEF StreamFollowsLog
  <2>1. Flowing(queue[h], seen[h], nextSeq[from[h]] - 1, missed[h])
    BY DEF StreamInv, StreamOK
  <2>2. seen[h] \in Nat /\ queue[h] \in Seq(Nat)
    BY DEF AuditInv, AuditTypes
  <2> QED
    BY <2>1, <2>2 DEF Flowing
<1>3. AuditInv /\ StreamInv /\ [AuditNext]_auditVars => StreamInv'
  BY StreamStepOK
<1> QED
  BY <1>1, <1>2, <1>3, AuditInvariant, PTL DEF AuditSpec

-----------------------------------------------------------------------------
(* The types of the log, and the log beside the egress path.               *)

AuditRows ==
  /\ \A q \in Seqs : rows[q].ev \in Events /\ "ev" \in DOMAIN rows[q]
  /\ queue \in [Handlers -> Seq(Nat \ {0})]
  /\ calls \in 0..MaxAppends /\ tampers \in 0..MaxTampers

LEMMA AuditRowsStep ==
  ASSUME AuditInv, AuditRows, [AuditNext]_auditVars
  PROVE  AuditRows'
<1> USE AuditAssumption DEF AuditInv, AuditTypes
<1>1. ASSUME rows' = rows, UNCHANGED <<queue, calls, tampers>> PROVE AuditRows'
  BY <1>1 DEF AuditRows, Seqs
<1>2. ASSUME NEW s \in Stores, NEW e \in Events, Append1(s, e), calls < MaxAppends,
             calls' = calls + 1, UNCHANGED tampers
      PROVE  AuditRows'
  <2> DEFINE q == nextSeq[s]
             row == Row(e, lastHash[s], q)
  <2>1. q \in Nat \ {0} /\ rows' = [p \in Seqs \union {q} |-> IF p = q THEN row ELSE rows[p]]
    BY <1>2 DEF Append1, Insert
  <2>2. row.ev = e /\ "ev" \in DOMAIN row
    BY DEF Row
  <2> HIDE DEF row
  <2>3. \A p \in DOMAIN rows' : rows'[p].ev \in Events /\ "ev" \in DOMAIN rows'[p]
    BY <2>1, <2>2 DEF AuditRows
  <2>4. queue' = [h \in Handlers |->
                   IF h \in Subscribed(s) /\ ~Full(h) THEN Append(queue[h], q) ELSE queue[h]]
    BY <1>2 DEF Append1, FanOut
  <2>5. \A h \in Handlers : queue[h] \in Seq(Nat \ {0}) /\ Append(queue[h], q) \in Seq(Nat \ {0})
    BY <2>1 DEF AuditRows
  <2>6. queue' \in [Handlers -> Seq(Nat \ {0})]
    BY <2>4, <2>5
  <2>7. calls' \in 0..MaxAppends
    BY <1>2 DEF AuditRows
  <2> QED
    BY <1>2, <2>3, <2>6, <2>7 DEF AuditRows, Seqs
<1>3. ASSUME NEW s \in Stores, Rec(s) PROVE AuditRows'
  <2>1. CASE AppendFails(s)
    <3>1. calls' \in 0..MaxAppends /\ tampers' = tampers
      BY <1>3 DEF Rec, AuditRows
    <3> QED
      BY <2>1, <3>1 DEF AppendFails, streamVars, AuditRows, Seqs
  <2> QED
    BY <1>2, <1>3, <2>1 DEF Rec
<1>4. ASSUME NEW s \in Stores, Exit(s) PROVE AuditRows'
  <2>1. queue' = [h \in Handlers |-> IF from[h] = s THEN << >> ELSE queue[h]]
    BY <1>4 DEF Exit
  <2>2. << >> \in Seq(Nat \ {0})
    OBVIOUS
  <2>3. queue' \in [Handlers -> Seq(Nat \ {0})]
    BY <2>1, <2>2 DEF AuditRows
  <2> QED
    BY <1>4, <2>3 DEF Exit, AuditRows, Seqs
<1>5. ASSUME NEW h \in Handlers, Deliver(h) PROVE AuditRows'
  <2>1. queue[h] \in Seq(Nat \ {0}) /\ queue[h] # << >>
    BY <1>5 DEF Deliver, AuditRows
  <2>2. Tail(queue[h]) \in Seq(Nat \ {0})
    BY <2>1
  <2> QED
    BY <1>5, <2>2 DEF Deliver, AuditRows, Seqs
<1>6. ASSUME NEW h \in Handlers, Cancel(h) \/ CancelClosed(h) PROVE AuditRows'
  <2>1. << >> \in Seq(Nat \ {0})
    OBVIOUS
  <2>2. /\ queue' = [queue EXCEPT ![h] = << >>]
        /\ rows' = rows /\ UNCHANGED <<calls, tampers>>
    BY <1>6 DEF Cancel, CancelClosed, Gone
  <2>3. queue' \in [Handlers -> Seq(Nat \ {0})]
    BY <2>1, <2>2 DEF AuditRows
  <2> QED
    BY <2>2, <2>3 DEF AuditRows, Seqs
<1>7. CASE Tamper
  <2>1. tampers' \in 0..MaxTampers /\ UNCHANGED <<queue, calls>>
    BY <1>7 DEF Tamper, AuditRows, streamVars
  <2>2. \A p \in DOMAIN rows' : rows'[p].ev \in Events /\ "ev" \in DOMAIN rows'[p]
    <3>1. PICK q \in Seqs : \/ \E e \in Events : EditRow(q, e)
                            \/ DropRow(q)
                            \/ \E p \in Seqs : SwapRows(p, q)
      BY <1>7 DEF Tamper
    <3>2. ASSUME NEW e \in Events, EditRow(q, e)
          PROVE  \A p \in DOMAIN rows' : rows'[p].ev \in Events /\ "ev" \in DOMAIN rows'[p]
      BY <3>1, <3>2 DEF EditRow, AuditRows, Seqs
    <3>3. ASSUME DropRow(q)
          PROVE  \A p \in DOMAIN rows' : rows'[p].ev \in Events /\ "ev" \in DOMAIN rows'[p]
      BY <3>1, <3>3 DEF DropRow, AuditRows, Seqs
    <3>4. ASSUME NEW o \in Seqs, SwapRows(o, q)
          PROVE  \A p \in DOMAIN rows' : rows'[p].ev \in Events /\ "ev" \in DOMAIN rows'[p]
      BY <3>1, <3>4 DEF SwapRows, AuditRows, Seqs
    <3> QED
      BY <3>1, <3>2, <3>3, <3>4
  <2> QED
    BY <2>1, <2>2 DEF AuditRows, Seqs
<1>8. ASSUME NEW s \in Stores, Open(s) \/ CloseStore(s) \/ CloseDatabase(s) PROVE AuditRows'
  BY <1>1, <1>8 DEF Open, CloseStore, CloseDatabase, streamVars
<1>9. ASSUME NEW h \in Handlers, NEW s \in Stores, Subscribe(h, s) PROVE AuditRows'
  BY <1>1, <1>9 DEF Subscribe
<1>10. CASE UNCHANGED auditVars
  BY <1>1, <1>10 DEF auditVars, streamVars
<1> QED
  BY <1>3, <1>4, <1>5, <1>6, <1>7, <1>8, <1>9, <1>10 DEF AuditNext, StoreStep, StreamStep

(* The log's state is well formed, whoever writes to its table.            *)
THEOREM AuditTypesHold == AuditSpec => []AuditTypeOK
<1>1. AuditInit => AuditRows
  BY AuditAssumption DEF AuditInit, AuditRows, Seqs
<1>2. AuditInv /\ AuditRows /\ [AuditNext]_auditVars => AuditRows'
  BY AuditRowsStep
<1>3. AuditInv /\ AuditRows => AuditTypeOK
  <2> SUFFICES ASSUME AuditInv, AuditRows PROVE AuditTypeOK
    OBVIOUS
  <2>1. Seqs \subseteq Nat \ {0} /\ DOMAIN lastHash = Stores
    BY DEF AuditInv, AuditTypes, TableOK
  <2>2. /\ \A h \in Handlers : (from[h] = NoStore) = (chan[h] = "none")
        /\ \A h \in Handlers : reg[h] => chan[h] # "none"
    BY DEF AuditInv, ChannelOf
  <2>3. \A q \in Seqs : rows[q].ev \in Events
    BY DEF AuditRows
  <2>4. /\ queue \in [Handlers -> Seq(Nat \ {0})]
        /\ calls \in 0..MaxAppends /\ tampers \in 0..MaxTampers
    BY DEF AuditRows
  <2>5. /\ proc \in [Stores -> {"down", "open", "closing", "closed"}]
        /\ nextSeq \in [Stores -> Nat \ {0}]
        /\ mu \in [Stores -> {"free", "wedged"}]
        /\ fault \in [Stores -> {"none", "send", "close"}]
        /\ from \in [Handlers -> Stores \union {NoStore}]
        /\ reg \in [Handlers -> BOOLEAN]
        /\ chan \in [Handlers -> {"none", "open", "closed"}]
        /\ seen \in [Handlers -> Nat]
        /\ missed \in [Handlers -> BOOLEAN]
    BY DEF AuditInv, AuditTypes
  <2> QED
    BY <2>1, <2>2, <2>3, <2>4, <2>5, Zenon DEF AuditTypeOK
<1> QED
  BY <1>1, <1>2, <1>3, AuditInvariant, PTL DEF AuditSpec

(* Side by side, requests and log are each what their own modules say: all *)
(* that is proved of Spec and of AuditSpec holds of the pair.              *)
THEOREM BothKept == MCSpec => Spec /\ AuditSpec
<1>1. MCInit => Init /\ AuditInit
  BY DEF MCInit
<1>2. [MCNext]_<<vars, auditVars, part>> => [Next]_vars /\ [AuditNext]_auditVars
  BY DEF MCNext
<1> QED
  BY <1>1, <1>2, PTL DEF MCSpec, Spec, AuditSpec

(* Every variable of requests, registry and log has its type.              *)
THEOREM PairTypes == MCSpec => []MCTypeOK
<1>1. TypeOK /\ AuditTypeOK => MCTypeOK
  BY DEF MCTypeOK
<1> QED
  BY <1>1, BothKept, TypeCorrect, AuditTypesHold, PTL
=============================================================================
