--------------------------- MODULE KeeperRPCProofs ---------------------------
(***************************************************************************)
(* The custody RPC keeps its promise, for any number of callers, calls,    *)
(* buffered frames and concurrent requests.                                *)
(***************************************************************************)
EXTENDS KeeperRPC, FiniteSetTheorems, TLAPS

Outstanding(c) == pc[c] # "idle"

(* The client's bookkeeping: IDs not yet given out are untouched, each     *)
(* outstanding call has one of its own and is within reach of the reader   *)
(* or of fail, and nobody is handed two responses.                         *)
UnusedIDs ==
  \A i \in Ids : IF i < nextID THEN call[i] # "unused"
                 ELSE /\ call[i] = "unused" /\ runs[i] = 0
                      /\ i \notin pending /\ box[i] = "empty"

Reachable(c) ==
  \/ id[c] \in pending
  \/ inHand # None /\ inHand.id = id[c]
  \/ box[id[c]] # "empty"

CallersApart ==
  /\ \A c \in Callers : Outstanding(c) => /\ id[c] < nextID
                                          /\ call[id[c]] = "open" /\ Reachable(c)
  /\ \A c, d \in Callers : Outstanding(c) /\ Outstanding(d) /\ id[c] = id[d] => c = d

OneResponse ==
  /\ HandOverNeverBlocks
  /\ inHand # None => inHand.id \notin pending /\ inHand.id < nextID
  /\ closedErr => pending = {}

ClientInv == UnusedIDs /\ CallersApart /\ OneResponse /\ NoWaiterLeaked

(* A request is in one place on its way to the keeper's operation, which   *)
(* has not run it yet; a response comes from an operation that has run.    *)
RequestsApart ==
  /\ \A m, n \in 1 .. Len(up) : m # n => up[m] # up[n]
  /\ \A n \in 1 .. Len(up) : up[n] # held /\ up[n] \notin running
                             /\ runs[up[n]] = 0 /\ up[n] < nextID
  /\ held # None => held \notin running /\ runs[held] = 0 /\ held < nextID
  /\ \A i \in running : runs[i] = 0 /\ i < nextID
  /\ \A c \in Callers : pc[c] = "send" =>
       /\ \A n \in 1 .. Len(up) : up[n] # id[c]
       /\ id[c] # held /\ id[c] \notin running /\ runs[id[c]] = 0

ResponsesRan ==
  /\ \A i \in Ids : runs[i] \in {0, 1}
  /\ \A resp \in replying : runs[resp.id] = 1
  /\ \A n \in 1 .. Len(down) : runs[down[n].id] = 1
  /\ inHand # None => runs[inHand.id] = 1
  /\ \A i \in Ids : box[i] = "ok" => runs[i] = 1

FlowInv == RequestsApart /\ ResponsesRan

IInv == RPCTypeOK /\ ClientInv /\ FlowInv

USE RPCAssumption

-----------------------------------------------------------------------------
LEMMA InitInv == Init => IInv
<1> SUFFICES ASSUME Init PROVE IInv
  OBVIOUS
<1> USE DEF Init
<1>1. RPCTypeOK
  <2>1. ClientShape
    <3>1. closedErr \in BOOLEAN
      OBVIOUS
    <3> QED
      BY <3>1 DEF ClientShape
  <2>2. CallerShape
    BY DEF CallerShape
  <2>3. StreamShape
    BY DEF StreamShape
  <2>4. KeeperShape
    BY DEF KeeperShape
  <2>5. SlotsBounded
    BY FS_EmptySet DEF SlotsBounded, InFlight
  <2> QED
    BY <2>1, <2>2, <2>3, <2>4, <2>5 DEF RPCTypeOK
<1>2. ClientInv
  BY DEF ClientInv, UnusedIDs, CallersApart, OneResponse, HandOverNeverBlocks, NoWaiterLeaked, Outstanding, Ids
<1>3. FlowInv
  BY DEF FlowInv, RequestsApart, ResponsesRan
<1> QED
  BY <1>1, <1>2, <1>3 DEF IInv

(* The two ends of the front keep their shape,                             *)
LEMMA FrontType ==
  ASSUME RPCTypeOK, Next
  PROVE  ClientShape' /\ CallerShape'
<1> USE DEF RPCTypeOK
<1>1. ASSUME NEW c \in Callers, Call(c) PROVE ClientShape' /\ CallerShape'
  <2>1. nextID \in Ids /\ nextID + 1 \in 0 .. MaxCalls
    BY <1>1 DEF Call, Ids, ClientShape
  <2> QED
    BY <1>1, <2>1 DEF Call, ClientShape, CallerShape
<1>2. ASSUME NEW c \in Callers, Send(c) PROVE ClientShape' /\ CallerShape'
  BY <1>2 DEF Send, clientVars, ClientShape, CallerShape
<1>3. ASSUME NEW c \in Callers, SendFails(c) \/ GiveUp(c) PROVE ClientShape' /\ CallerShape'
  BY <1>3 DEF SendFails, GiveUp, Return, ClientShape, CallerShape
<1>4. ASSUME NEW c \in Callers, Receive(c) PROVE ClientShape' /\ CallerShape'
  <2>1. id[c] \in Ids /\ box[id[c]] \in Outcomes
    BY <1>4 DEF Receive, ClientShape, CallerShape
  <2> QED
    BY <1>4, <2>1 DEF Receive, Return, ClientShape, CallerShape, Outcomes
<1>5. ASSUME ReadResponse PROVE ClientShape' /\ CallerShape'
  BY <1>5 DEF ReadResponse, callerVars, ClientShape, CallerShape
<1>6. ASSUME Route PROVE ClientShape' /\ CallerShape'
  <2>1. inHand.id \in Ids /\ inHand.res \in Outcomes
    BY <1>6 DEF Route, StreamShape, Response
  <2> QED
    BY <1>6, <2>1 DEF Route, callerVars, ClientShape, CallerShape
<1>7. ASSUME ReaderFails \/ Close PROVE ClientShape' /\ CallerShape'
  BY <1>7 DEF ReaderFails, Close, Fail, callerVars, ClientShape, CallerShape, Outcomes
<1>8. ASSUME KeeperLoop \/ KeeperDies \/ \E i \in Ids : Worker(i) PROVE ClientShape' /\ CallerShape'
  BY <1>8 DEF KeeperLoop, ReadRequest, Dispatch, KeeperDies, Worker, Handle, Reply, clientVars,
              callerVars, ClientShape, CallerShape
<1> QED
  BY <1>1, <1>2, <1>3, <1>4, <1>5, <1>6, <1>7, <1>8 DEF Next, Caller, Reader

(* and so do the stream and the keeper.                                    *)
LEMMA KeeperType ==
  ASSUME RPCTypeOK, Next
  PROVE  StreamShape' /\ KeeperShape'
<1> USE DEF RPCTypeOK
<1>1. ASSUME NEW c \in Callers, Send(c) PROVE StreamShape' /\ KeeperShape'
  <2>1. id[c] \in Ids
    BY <1>1 DEF Send, CallerShape
  <2> QED
    BY <1>1, <2>1 DEF Send, readerVars, keeperVars, StreamShape, KeeperShape
<1>2. ASSUME NEW c \in Callers, Call(c) \/ SendFails(c) \/ Receive(c) \/ GiveUp(c)
      PROVE  StreamShape' /\ KeeperShape'
  BY <1>2 DEF Call, SendFails, Receive, GiveUp, readerVars, wireVars, keeperVars, StreamShape, KeeperShape
<1>3. ASSUME ReadResponse PROVE StreamShape' /\ KeeperShape'
  <2>1. /\ Head(down) \in Response /\ down' = Tail(down) /\ Tail(down) \in Seq(Response)
        /\ Len(Tail(down)) <= SocketRoom
    BY <1>3 DEF ReadResponse, StreamShape
  <2>2. inHand' \in Response \union {None}
    BY <1>3, <2>1 DEF ReadResponse
  <2> QED
    BY <1>3, <2>1, <2>2 DEF ReadResponse, keeperVars, StreamShape, KeeperShape
<1>4. ASSUME Route \/ ReaderFails \/ Close PROVE StreamShape' /\ KeeperShape'
  BY <1>4 DEF Route, ReaderFails, Close, wireVars, readerVars, keeperVars, StreamShape, KeeperShape
<1>5. ASSUME ReadRequest PROVE StreamShape' /\ KeeperShape'
  <2>1. /\ Head(up) \in Ids /\ up' = Tail(up) /\ Tail(up) \in Seq(Ids) /\ Len(Tail(up)) <= SocketRoom
    BY <1>5 DEF ReadRequest, StreamShape
  <2> QED
    BY <1>5, <2>1 DEF ReadRequest, readerVars, StreamShape, KeeperShape
<1>6. ASSUME Dispatch PROVE StreamShape' /\ KeeperShape'
  BY <1>6 DEF Dispatch, readerVars, wireVars, StreamShape, KeeperShape
<1>7. ASSUME KeeperDies PROVE StreamShape' /\ KeeperShape'
  <2>1. up' = <<>> /\ up' \in Seq(Ids) /\ Len(up') = 0 /\ 0 <= SocketRoom
    BY <1>7 DEF KeeperDies
  <2>2. StreamShape'
    BY <1>7, <2>1 DEF KeeperDies, readerVars, StreamShape
  <2>3. keeper' \in BOOLEAN
    BY <1>7 DEF KeeperDies
  <2> QED
    BY <1>7, <2>2, <2>3 DEF KeeperDies, KeeperShape
<1>8. ASSUME NEW i \in Ids, Handle(i) PROVE StreamShape' /\ KeeperShape'
  BY <1>8 DEF Handle, readerVars, wireVars, StreamShape, KeeperShape, Response
<1>9. ASSUME NEW resp \in Response, Reply(resp) PROVE StreamShape' /\ KeeperShape'
  <2>1. down' \in Seq(Response) /\ Len(down') <= SocketRoom
    <3>1. CASE open
      <4>1. down' = Append(down, resp) /\ Len(down) < SocketRoom
        BY <1>9, <3>1 DEF Reply
      <4>2. down \in Seq(Response) /\ Len(down) \in Nat
        BY DEF StreamShape
      <4> QED
        BY <4>1, <4>2
    <3>2. CASE ~open
      BY <1>9, <3>2 DEF Reply, StreamShape
    <3> QED
      BY <3>1, <3>2
  <2> QED
    BY <1>9, <2>1 DEF Reply, readerVars, StreamShape, KeeperShape
<1>10. ASSUME NEW i \in Ids, Worker(i), ~Handle(i) PROVE \E resp \in Response : Reply(resp)
  BY <1>10 DEF Worker, Response
<1> QED
  BY <1>1, <1>2, <1>3, <1>4, <1>5, <1>6, <1>7, <1>8, <1>9, <1>10
     DEF Next, Caller, Reader, Worker, KeeperLoop

-----------------------------------------------------------------------------
(* The client's bookkeeping.                                               *)

(* One element more, or one less.                                          *)
LEMMA AddOne ==
  ASSUME NEW S, NEW x, IsFiniteSet(S)
  PROVE  /\ IsFiniteSet(S \union {x}) /\ Cardinality(S \union {x}) \in Nat
         /\ Cardinality(S \union {x}) <= Cardinality(S) + 1
<1>1. /\ IsFiniteSet(S \union {x}) /\ Cardinality(S \union {x}) \in Nat
      /\ Cardinality(S) \in Nat
  BY FS_AddElement, FS_CardinalityType
<1>2. CASE x \in S
  <2>1. S \union {x} = S
    BY <1>2
  <2> QED
    BY <1>1, <2>1
<1>3. CASE x \notin S
  <2>1. Cardinality(S \union {x}) = Cardinality(S) + 1
    BY <1>3, FS_AddElement
  <2> QED
    BY <1>1, <2>1
<1> QED
  BY <1>2, <1>3

LEMMA RemoveOne ==
  ASSUME NEW S, NEW x \in S, IsFiniteSet(S)
  PROVE  /\ IsFiniteSet(S \ {x}) /\ Cardinality(S \ {x}) \in Nat
         /\ Cardinality(S \ {x}) = Cardinality(S) - 1
<1>1. IsFiniteSet(S \ {x}) /\ Cardinality(S \ {x}) = Cardinality(S) - 1
  BY FS_RemoveElement
<1> QED
  BY <1>1, FS_CardinalityType

(* A slot is taken by Dispatch, kept by Handle and given back by Reply.    *)
LEMMA SlotsType ==
  ASSUME RPCTypeOK, Next
  PROVE  SlotsBounded'
<1>0. /\ IsFiniteSet(running) /\ IsFiniteSet(replying)
      /\ Cardinality(running) \in Nat /\ Cardinality(replying) \in Nat
      /\ Cardinality(running) + Cardinality(replying) <= InflightLimit
  BY FS_CardinalityType DEF RPCTypeOK, SlotsBounded, InFlight
<1>1. CASE Dispatch
  <2>1. /\ running' = running \union {held} /\ UNCHANGED replying
        /\ Cardinality(running) + Cardinality(replying) < InflightLimit
    BY <1>1 DEF Dispatch, InFlight
  <2>2. /\ IsFiniteSet(running') /\ Cardinality(running') \in Nat
        /\ Cardinality(running') <= Cardinality(running) + 1
    BY <1>0, <2>1, AddOne
  <2> QED
    BY <1>0, <2>1, <2>2 DEF SlotsBounded, InFlight
<1>2. ASSUME NEW i \in Ids, Handle(i) PROVE SlotsBounded'
  <2>1. PICK res \in Outcomes : replying' = replying \union {[id |-> i, res |-> res]}
    BY <1>2 DEF Handle
  <2>2. i \in running /\ running' = running \ {i}
    BY <1>2 DEF Handle
  <2>3. /\ IsFiniteSet(running') /\ Cardinality(running') \in Nat
        /\ Cardinality(running') = Cardinality(running) - 1
    BY <1>0, <2>2, RemoveOne
  <2>4. /\ IsFiniteSet(replying') /\ Cardinality(replying') \in Nat
        /\ Cardinality(replying') <= Cardinality(replying) + 1
    BY <1>0, <2>1, AddOne
  <2> QED
    BY <1>0, <2>3, <2>4 DEF SlotsBounded, InFlight
<1>3. ASSUME NEW resp \in Response, Reply(resp) PROVE SlotsBounded'
  <2>1. resp \in replying /\ replying' = replying \ {resp} /\ UNCHANGED running
    BY <1>3 DEF Reply
  <2>2. /\ IsFiniteSet(replying') /\ Cardinality(replying') \in Nat
        /\ Cardinality(replying') = Cardinality(replying) - 1
    BY <1>0, <2>1, RemoveOne
  <2> QED
    BY <1>0, <2>1, <2>2 DEF SlotsBounded, InFlight
<1>4. CASE KeeperDies
  <2>1. running' = {} /\ replying' = {}
    BY <1>4 DEF KeeperDies
  <2> QED
    BY <2>1, FS_EmptySet DEF SlotsBounded, InFlight
<1>5. ASSUME NEW i \in Ids, Worker(i), ~Handle(i) PROVE \E resp \in Response : Reply(resp)
  BY <1>5 DEF Worker, Response
<1>6. CASE UNCHANGED <<running, replying>>
  BY <1>0, <1>6 DEF SlotsBounded, InFlight
<1>7. ASSUME NEW c \in Callers, Call(c) \/ Caller(c) \/ GiveUp(c)
      PROVE  UNCHANGED <<running, replying>>
  BY <1>7 DEF Call, Caller, Send, SendFails, Receive, GiveUp, keeperVars
<1>8. ASSUME Reader \/ Close \/ ReadRequest PROVE UNCHANGED <<running, replying>>
  BY <1>8 DEF Reader, ReadResponse, Route, ReaderFails, Close, ReadRequest, keeperVars
<1> QED
  BY <1>1, <1>2, <1>3, <1>4, <1>5, <1>6, <1>7, <1>8 DEF Next, KeeperLoop

LEMMA ClientByCaller ==
  ASSUME RPCTypeOK, ClientInv, NEW c \in Callers,
         Call(c) \/ Send(c) \/ SendFails(c) \/ Receive(c) \/ GiveUp(c)
  PROVE  ClientInv'
<1>0. RPCTypeOK /\ UnusedIDs /\ CallersApart /\ OneResponse /\ NoWaiterLeaked
  BY DEF ClientInv
<1> USE DEF RPCTypeOK, ClientShape, CallerShape
<1>1. CASE Call(c)
  <2> USE <1>1 DEF Call
  <2>1. nextID \in Ids /\ nextID \in Nat /\ inHand' = inHand /\ box' = box /\ runs' = runs
        /\ \A i \in Ids : i \in Nat /\ (i < nextID' <=> i < nextID \/ i = nextID)
    BY DEF Ids, readerVars, keeperVars
  <2>2. UnusedIDs'
    BY <1>0, <2>1 DEF UnusedIDs
  <2>3. box[nextID] = "empty" /\ nextID \notin pending
    BY <1>0, <2>1 DEF UnusedIDs
  <2>4. \A d \in Callers \ {c} : Outstanding(d)' => Outstanding(d) /\ id'[d] = id[d] /\ id[d] \in Ids
    BY DEF Outstanding
  <2>5. CallersApart'
    <3>1. id'[c] = nextID /\ call'[nextID] = "open" /\ nextID \in pending'
      BY <2>1
    <3>2. ASSUME NEW d \in Callers \ {c}, Outstanding(d)'
          PROVE  /\ id'[d] = id[d] /\ id[d] # nextID /\ id'[d] < nextID'
                 /\ call'[id[d]] = "open" /\ Reachable(d)'
      <4>1. Outstanding(d) /\ id'[d] = id[d] /\ id[d] \in Ids
        BY <2>4, <3>2
      <4>2. id[d] < nextID /\ call[id[d]] = "open" /\ Reachable(d)
        BY <1>0, <4>1 DEF CallersApart
      <4>3. id[d] # nextID
        BY <2>1, <4>1, <4>2
      <4>4. nextID' = nextID + 1 /\ id[d] \in Nat
        BY <2>1, <4>1
      <4> QED
        BY <2>1, <4>1, <4>2, <4>3, <4>4 DEF Reachable
    <3>3. \A d \in Callers : Outstanding(d)' =>
            id'[d] < nextID' /\ call'[id'[d]] = "open" /\ Reachable(d)'
      <4>1. nextID < nextID'
        BY <2>1
      <4> QED
        BY <2>1, <3>1, <3>2, <4>1 DEF Reachable
    <3>4. \A d, e \in Callers : Outstanding(d)' /\ Outstanding(e)' /\ id'[d] = id'[e] => d = e
      <4>1. \A d \in Callers \ {c} : Outstanding(d)' => id'[d] # id'[c]
        BY <3>1, <3>2
      <4>2. \A d, e \in Callers \ {c} : Outstanding(d)' /\ Outstanding(e)' /\ id'[d] = id'[e] => d = e
        BY <1>0, <2>4 DEF CallersApart
      <4> QED
        BY <4>1, <4>2
    <3> QED
      BY <3>3, <3>4 DEF CallersApart
  <2>6. OneResponse'
    <3>1. inHand # None => inHand.id < nextID /\ inHand.id \in Ids
      BY <1>0 DEF OneResponse, StreamShape, Response
    <3>2. inHand # None => inHand.id # nextID
      BY <2>1, <3>1
    <3>3. ~closedErr'
      OBVIOUS
    <3>4. HandOverNeverBlocks'
      BY <1>0, <2>1, <2>3 DEF OneResponse, HandOverNeverBlocks
    <3> QED
      BY <1>0, <2>1, <3>1, <3>2, <3>3, <3>4 DEF OneResponse
  <2>7. NoWaiterLeaked'
    BY <1>0, <2>1 DEF NoWaiterLeaked
  <2> QED
    BY <2>2, <2>5, <2>6, <2>7 DEF ClientInv
<1>2. CASE Send(c)
  <2>1. UNCHANGED <<clientVars, id, call, inHand, runs>> /\ pc' = [pc EXCEPT ![c] = "wait"] /\ pc[c] = "send"
    BY <1>2 DEF Send, readerVars, keeperVars
  <2>2. \A d \in Callers : (Outstanding(d)' <=> Outstanding(d))
    BY <2>1 DEF Outstanding
  <2>3. NoWaiterLeaked'
    BY <1>0, <2>1 DEF NoWaiterLeaked, clientVars
  <2> QED
    BY <1>0, <2>1, <2>2, <2>3
       DEF ClientInv, UnusedIDs, CallersApart, Reachable, OneResponse, HandOverNeverBlocks, clientVars
<1>3. CASE SendFails(c) \/ GiveUp(c) \/ Receive(c)
  <2>1. /\ pc' = [pc EXCEPT ![c] = "idle"] /\ id' = [id EXCEPT ![c] = None]
        /\ UNCHANGED <<nextID, closedErr, inHand, runs>> /\ pc[c] # "idle"
        /\ pending' = pending \ {id[c]} \/ (pending' = pending /\ box[id[c]] # "empty")
        /\ \A i \in Ids : i # id[c] => box'[i] = box[i] /\ call'[i] = call[i]
        /\ box' = box \/ box' = [box EXCEPT ![id[c]] = "empty"]
        /\ call'[id[c]] \in Outcomes
    BY <1>3 DEF SendFails, GiveUp, Receive, Return, readerVars, keeperVars, Outcomes
  <2>2. id[c] \in Ids /\ id[c] < nextID /\ id[c] \notin pending'
    BY <1>0, <2>1 DEF CallersApart, Outstanding, OneResponse, HandOverNeverBlocks
  <2>3. pending' = pending \ {id[c]}
    BY <2>1, <2>2
  <2>4. \A d \in Callers : Outstanding(d)' => /\ Outstanding(d) /\ id'[d] = id[d] /\ d # c
                                              /\ id[d] \in Ids /\ id[d] # id[c]
    BY <1>0, <2>1 DEF Outstanding, CallersApart
  <2>5. UnusedIDs'
    BY <1>0, <2>1, <2>2, <2>3 DEF UnusedIDs, Outcomes
  <2>6. CallersApart'
    BY <1>0, <2>1, <2>3, <2>4 DEF CallersApart, Reachable
  <2>7. OneResponse'
    BY <1>0, <2>1, <2>2, <2>3 DEF OneResponse, HandOverNeverBlocks, StreamShape, Response
  <2>8. NoWaiterLeaked'
    <3> SUFFICES ASSUME NEW i \in pending'
                 PROVE  \E d \in Callers : pc'[d] \in {"send", "wait"} /\ id'[d] = i
      BY DEF NoWaiterLeaked
    <3>1. PICK d \in Callers : pc[d] \in {"send", "wait"} /\ id[d] = i
      BY <1>0, <2>3 DEF NoWaiterLeaked
    <3>2. d # c
      BY <2>2, <3>1
    <3> QED
      BY <2>1, <3>1, <3>2
  <2> QED
    BY <2>5, <2>6, <2>7, <2>8 DEF ClientInv
<1> QED
  BY <1>1, <1>2, <1>3

LEMMA ClientByReader ==
  ASSUME RPCTypeOK, ClientInv, ReadResponse \/ Route \/ ReaderFails \/ Close
  PROVE  ClientInv'
<1>0. RPCTypeOK /\ UnusedIDs /\ CallersApart /\ OneResponse /\ NoWaiterLeaked
  BY DEF ClientInv
<1> USE DEF RPCTypeOK, ClientShape, CallerShape
<1>1. CASE ReadResponse
  <2>1. UNCHANGED <<nextID, closedErr, box, pc, id, call, runs>> /\ inHand = None
    BY <1>1 DEF ReadResponse, callerVars, keeperVars
  <2>2. Head(down) \in Response
    BY <1>1 DEF ReadResponse, StreamShape
  <2>3. PICK i \in Ids : /\ pending' = pending \ {i}
                         /\ inHand' # None => inHand'.id = i
                         /\ i \in pending => inHand' # None
                         /\ inHand' # None => i \in pending
    BY <1>1, <2>2 DEF ReadResponse, Response
  <2>4. UnusedIDs' /\ NoWaiterLeaked'
    BY <1>0, <2>1, <2>3 DEF UnusedIDs, NoWaiterLeaked
  <2>5. CallersApart'
    BY <1>0, <2>1, <2>3 DEF CallersApart, Reachable, Outstanding
  <2>6. OneResponse'
    BY <1>0, <2>1, <2>3 DEF OneResponse, HandOverNeverBlocks, UnusedIDs
  <2> QED
    BY <2>4, <2>5, <2>6 DEF ClientInv
<1>2. CASE Route
  <2>1. /\ UNCHANGED <<nextID, closedErr, pending, pc, id, call, runs>> /\ inHand # None /\ inHand' = None
        /\ box' = [box EXCEPT ![inHand.id] = inHand.res] /\ inHand.id \in Ids /\ inHand.res # "empty"
    BY <1>2 DEF Route, callerVars, keeperVars, StreamShape, Response, Outcomes
  <2>2. UnusedIDs' /\ NoWaiterLeaked'
    BY <1>0, <2>1 DEF UnusedIDs, NoWaiterLeaked, OneResponse
  <2>3. CallersApart'
    BY <1>0, <2>1 DEF CallersApart, Reachable, Outstanding
  <2>4. OneResponse'
    BY <1>0, <2>1 DEF OneResponse, HandOverNeverBlocks
  <2> QED
    BY <2>2, <2>3, <2>4 DEF ClientInv
<1>3. CASE ReaderFails \/ Close
  <2>1. Fail /\ UNCHANGED <<nextID, pc, id, call, runs, inHand>>
    BY <1>3 DEF ReaderFails, Close, callerVars, keeperVars, readerVars
  <2>2. UnusedIDs' /\ NoWaiterLeaked'
    BY <1>0, <2>1 DEF UnusedIDs, NoWaiterLeaked, Fail
  <2>3. CallersApart'
    BY <1>0, <2>1 DEF CallersApart, Reachable, Outstanding, Fail
  <2>4. OneResponse'
    BY <1>0, <2>1 DEF OneResponse, HandOverNeverBlocks, Fail, StreamShape, Response
  <2> QED
    BY <2>2, <2>3, <2>4 DEF ClientInv
<1> QED
  BY <1>1, <1>2, <1>3

LEMMA ClientByKeeper ==
  ASSUME RPCTypeOK, ClientInv, FlowInv, KeeperLoop \/ KeeperDies \/ \E i \in Ids : Worker(i)
  PROVE  ClientInv'
<1>1. UNCHANGED <<clientVars, readerVars, callerVars>>
  BY DEF KeeperLoop, ReadRequest, Dispatch, KeeperDies, Worker, Handle, Reply
<1>2. \A i \in Ids : i < nextID \/ runs'[i] = runs[i]
  <2>1. ASSUME NEW i \in Ids, Handle(i) PROVE \A j \in Ids : j < nextID \/ runs'[j] = runs[j]
    BY <2>1 DEF Handle, RPCTypeOK, KeeperShape, FlowInv, RequestsApart
  <2>2. ASSUME ~\E i \in Ids : Handle(i) PROVE runs' = runs
    BY <2>2 DEF KeeperLoop, ReadRequest, Dispatch, KeeperDies, Worker, Reply
  <2> QED
    BY <2>1, <2>2
<1> QED
  BY <1>1, <1>2
     DEF ClientInv, UnusedIDs, CallersApart, Reachable, Outstanding, OneResponse,
         HandOverNeverBlocks, NoWaiterLeaked, clientVars, readerVars, callerVars

-----------------------------------------------------------------------------
(* A request's way to the keeper's operation, and its response's way back. *)

LEMMA TailOf ==
  ASSUME NEW S, NEW s \in Seq(S), s # <<>>
  PROVE  /\ Head(s) = s[1] /\ Len(Tail(s)) = Len(s) - 1 /\ Len(s) \in Nat \ {0}
         /\ \A n \in 1 .. Len(Tail(s)) : Tail(s)[n] = s[n + 1] /\ n + 1 \in 1 .. Len(s)
OBVIOUS

LEMMA AppendOf ==
  ASSUME NEW S, NEW s \in Seq(S), NEW x \in S
  PROVE  /\ Len(Append(s, x)) = Len(s) + 1 /\ Append(s, x)[Len(s) + 1] = x
         /\ \A n \in 1 .. Len(s) : Append(s, x)[n] = s[n]
OBVIOUS

LEMMA FlowByCaller ==
  ASSUME RPCTypeOK, ClientInv, FlowInv, NEW c \in Callers,
         Call(c) \/ Send(c) \/ SendFails(c) \/ Receive(c) \/ GiveUp(c)
  PROVE  FlowInv'
<1>0. RPCTypeOK /\ UnusedIDs /\ CallersApart /\ OneResponse /\ RequestsApart /\ ResponsesRan
  BY DEF ClientInv, FlowInv
<1>1. \A n \in 1 .. Len(up) : up[n] \in Ids /\ up[n] < nextID
  BY <1>0 DEF RPCTypeOK, StreamShape, RequestsApart
<1>2. CASE Call(c)
  <2>1. /\ UNCHANGED <<up, down, held, running, replying, inHand, box, runs>>
        /\ nextID \in Ids /\ nextID' = nextID + 1
        /\ pc' = [pc EXCEPT ![c] = "send"] /\ id' = [id EXCEPT ![c] = nextID]
    BY <1>2 DEF Call, readerVars, wireVars, keeperVars, RPCTypeOK, ClientShape, Ids
  <2>2. /\ \A n \in 1 .. Len(up) : up[n] # nextID
        /\ nextID # held /\ nextID \notin running /\ runs[nextID] = 0
    BY <1>0, <2>1 DEF RequestsApart, UnusedIDs, RPCTypeOK, StreamShape, KeeperShape, Ids
  <2>3. \A i \in Ids : i < nextID => i < nextID'
    BY <2>1 DEF Ids
  <2>4. RequestsApart'
    BY <1>0, <1>1, <2>1, <2>2, <2>3 DEF RequestsApart, RPCTypeOK, CallerShape, KeeperShape
  <2> QED
    BY <1>0, <2>1, <2>4 DEF ResponsesRan, FlowInv
<1>3. CASE Send(c)
  <2>1. /\ UNCHANGED <<nextID, down, held, running, replying, inHand, box, runs, id>>
        /\ up' = Append(up, id[c]) /\ id[c] \in Ids /\ pc[c] = "send"
        /\ pc' = [pc EXCEPT ![c] = "wait"] /\ up \in Seq(Ids)
    BY <1>3 DEF Send, readerVars, clientVars, keeperVars, RPCTypeOK, CallerShape, StreamShape
  <2>2. /\ \A n \in 1 .. Len(up) : up[n] # id[c]
        /\ id[c] # held /\ id[c] \notin running /\ runs[id[c]] = 0 /\ id[c] < nextID
    BY <1>0, <2>1 DEF RequestsApart, CallersApart, Outstanding
  <2>3. /\ Len(up') = Len(up) + 1 /\ Len(up) \in Nat /\ up'[Len(up) + 1] = id[c]
        /\ \A n \in 1 .. Len(up) : up'[n] = up[n]
    BY <2>1, AppendOf
  <2>4. \A n \in 1 .. Len(up') : n \in 1 .. Len(up) \/ n = Len(up) + 1
    BY <2>3
  <2>5. \A d \in Callers : pc'[d] = "send" => d # c /\ pc[d] = "send" /\ id[d] # id[c]
    BY <1>0, <2>1 DEF CallersApart, Outstanding, RPCTypeOK, CallerShape
  <2>6. \A m, n \in 1 .. Len(up') : m # n => up'[m] # up'[n]
    BY <1>0, <2>2, <2>3, <2>4 DEF RequestsApart
  <2>7. \A n \in 1 .. Len(up') : /\ up'[n] # held' /\ up'[n] \notin running'
                                 /\ runs'[up'[n]] = 0 /\ up'[n] < nextID'
    BY <1>0, <2>1, <2>2, <2>3, <2>4 DEF RequestsApart
  <2>8. \A d \in Callers : pc'[d] = "send" =>
          /\ \A n \in 1 .. Len(up') : up'[n] # id'[d]
          /\ id'[d] # held' /\ id'[d] \notin running' /\ runs'[id'[d]] = 0
    BY <1>0, <2>1, <2>3, <2>4, <2>5 DEF RequestsApart
  <2>9. RequestsApart'
    BY <1>0, <2>1, <2>6, <2>7, <2>8 DEF RequestsApart
  <2> QED
    BY <1>0, <2>1, <2>9 DEF ResponsesRan, FlowInv
<1>4. CASE SendFails(c) \/ Receive(c) \/ GiveUp(c)
  <2>1. /\ UNCHANGED <<nextID, up, down, held, running, replying, inHand, runs>>
        /\ box' = box \/ box' = [box EXCEPT ![id[c]] = "empty"]
        /\ pc' = [pc EXCEPT ![c] = "idle"] /\ id' = [id EXCEPT ![c] = None]
    BY <1>4 DEF SendFails, Receive, GiveUp, Return, readerVars, wireVars, keeperVars
  <2>2. \A d \in Callers : pc'[d] = "send" => pc[d] = "send" /\ id'[d] = id[d]
    BY <2>1 DEF RPCTypeOK, CallerShape
  <2>3. \A i \in Ids : box'[i] = "ok" => box[i] = "ok"
    BY <2>1 DEF RPCTypeOK, ClientShape
  <2>4. RequestsApart'
    BY <1>0, <2>1, <2>2 DEF RequestsApart
  <2> QED
    BY <1>0, <2>1, <2>3, <2>4 DEF ResponsesRan, FlowInv
<1> QED
  BY <1>2, <1>3, <1>4

LEMMA FlowByReader ==
  ASSUME RPCTypeOK, ClientInv, FlowInv, ReadResponse \/ Route \/ ReaderFails \/ Close
  PROVE  FlowInv'
<1>0. RPCTypeOK /\ RequestsApart /\ ResponsesRan
  BY DEF FlowInv
<1>1. UNCHANGED <<nextID, up, held, running, replying, runs, pc, id>>
  BY DEF ReadResponse, Route, ReaderFails, Close, callerVars, keeperVars, wireVars
<1>2. RequestsApart'
  BY <1>0, <1>1 DEF RequestsApart
<1>3. CASE ReadResponse
  <2>1. /\ down' = Tail(down) /\ down \in Seq(Response) /\ down # <<>> /\ box' = box
        /\ inHand' = Head(down) \/ inHand' = None
    BY <1>3 DEF ReadResponse, RPCTypeOK, StreamShape
  <2>2. \A n \in 1 .. Len(down') : runs[down'[n].id] = 1
    BY <1>0, <2>1, TailOf DEF ResponsesRan
  <2>3. inHand' # None => runs[inHand'.id] = 1
    BY <1>0, <2>1, TailOf DEF ResponsesRan
  <2> QED
    BY <1>0, <1>1, <1>2, <2>1, <2>2, <2>3 DEF ResponsesRan, FlowInv
<1>4. CASE Route
  <2>1. box' = [box EXCEPT ![inHand.id] = inHand.res] /\ inHand # None /\ inHand' = None /\ down' = down
    BY <1>4 DEF Route, wireVars
  <2> QED
    BY <1>0, <1>1, <1>2, <2>1 DEF ResponsesRan, FlowInv, RPCTypeOK, ClientShape
<1>5. CASE ReaderFails \/ Close
  <2>1. /\ \A i \in Ids : box'[i] = "ok" => box[i] = "ok"
        /\ UNCHANGED <<inHand, down>>
    BY <1>5 DEF ReaderFails, Close, Fail, readerVars, wireVars
  <2> QED
    BY <1>0, <1>1, <1>2, <2>1 DEF ResponsesRan, FlowInv
<1> QED
  BY <1>3, <1>4, <1>5

LEMMA FlowByKeeper ==
  ASSUME RPCTypeOK, ClientInv, FlowInv, KeeperLoop \/ KeeperDies \/ \E i \in Ids : Worker(i)
  PROVE  FlowInv'
<1>0. RPCTypeOK /\ RequestsApart /\ ResponsesRan
  BY DEF FlowInv
<1>1. UNCHANGED <<nextID, box, inHand, pc, id>>
  BY DEF KeeperLoop, ReadRequest, Dispatch, KeeperDies, Worker, Handle, Reply, clientVars,
         readerVars, callerVars
<1>2. CASE ReadRequest
  <2>1. /\ held = None /\ held' = Head(up) /\ up' = Tail(up) /\ up \in Seq(Ids) /\ up # <<>>
        /\ UNCHANGED <<down, running, replying, runs>>
    BY <1>2 DEF ReadRequest, RPCTypeOK, StreamShape
  <2>2. /\ held' = up[1] /\ 1 \in 1 .. Len(up)
        /\ \A n \in 1 .. Len(up') : /\ up'[n] = up[n + 1] /\ n + 1 \in 1 .. Len(up) /\ n + 1 # 1
    BY <2>1, TailOf
  <2>3. \A m, n \in 1 .. Len(up') : m # n => up'[m] # up'[n]
    BY <1>0, <2>2 DEF RequestsApart
  <2>4. \A n \in 1 .. Len(up') : /\ up'[n] # held' /\ up'[n] \notin running
                                 /\ runs[up'[n]] = 0 /\ up'[n] < nextID
    BY <1>0, <2>2 DEF RequestsApart
  <2>5. held' \notin running /\ runs[held'] = 0 /\ held' < nextID
    BY <1>0, <2>2 DEF RequestsApart
  <2>6. \A c \in Callers : pc[c] = "send" =>
          /\ \A n \in 1 .. Len(up') : up'[n] # id[c]
          /\ id[c] # held'
    BY <1>0, <2>2 DEF RequestsApart
  <2>7. RequestsApart'
    BY <1>0, <1>1, <2>1, <2>3, <2>4, <2>5, <2>6 DEF RequestsApart
  <2> QED
    BY <1>0, <1>1, <2>1, <2>7 DEF ResponsesRan, FlowInv
<1>3. CASE Dispatch
  <2>1. /\ held # None /\ running' = running \union {held} /\ held' = None
        /\ UNCHANGED <<up, down, replying, runs>>
    BY <1>3 DEF Dispatch, wireVars
  <2>2. up \in Seq(Ids) /\ \A c \in Callers : pc[c] = "send" => id[c] \in Ids
    BY DEF RPCTypeOK, StreamShape, CallerShape
  <2>3. RequestsApart'
    BY <1>0, <1>1, <2>1, <2>2 DEF RequestsApart
  <2> QED
    BY <1>0, <1>1, <2>1, <2>3 DEF ResponsesRan, FlowInv
<1>4. CASE KeeperDies
  <2>1. up' = <<>> /\ held' = None /\ running' = {} /\ replying' = {} /\ UNCHANGED <<down, runs>>
    BY <1>4 DEF KeeperDies
  <2>2. Len(up') = 0 /\ \A n \in 1 .. Len(up') : FALSE
    BY <2>1
  <2>3. \A c \in Callers : pc[c] = "send" => id[c] # None
    BY DEF RPCTypeOK, CallerShape
  <2>4. RequestsApart'
    BY <1>0, <1>1, <2>1, <2>2, <2>3 DEF RequestsApart
  <2> QED
    BY <1>0, <1>1, <2>1, <2>4 DEF ResponsesRan, FlowInv
<1>5. ASSUME NEW i \in Ids, Handle(i) PROVE FlowInv'
  <2>1. /\ i \in running /\ running' = running \ {i} /\ runs' = [runs EXCEPT ![i] = @ + 1]
        /\ UNCHANGED <<up, down, held>>
        /\ \A resp \in replying' : resp \in replying \/ resp.id = i
    BY <1>5 DEF Handle, wireVars
  <2>2. runs[i] = 0 /\ runs'[i] = 1 /\ \A j \in Ids \ {i} : runs'[j] = runs[j]
    BY <1>0, <2>1 DEF RequestsApart, RPCTypeOK, KeeperShape
  <2>3. /\ \A n \in 1 .. Len(up) : up[n] \in Ids /\ up[n] # i
        /\ held # None => held \in Ids /\ held # i
        /\ \A c \in Callers : pc[c] = "send" => id[c] \in Ids /\ id[c] # i
    BY <1>0, <2>1 DEF RequestsApart, RPCTypeOK, StreamShape, KeeperShape, CallerShape
  <2>4. RequestsApart'
    BY <1>0, <1>1, <2>1, <2>2, <2>3 DEF RequestsApart, RPCTypeOK, KeeperShape
  <2>5. ResponsesRan'
    <3>1. \A j \in Ids : runs'[j] \in {0, 1} /\ (runs[j] = 1 => runs'[j] = 1)
      BY <1>0, <2>2 DEF ResponsesRan
    <3>2. /\ \A resp \in replying : resp.id \in Ids
          /\ \A n \in 1 .. Len(down) : down[n].id \in Ids
          /\ inHand # None => inHand.id \in Ids
      <4>1. \A resp \in Response : resp.id \in Ids
        BY DEF Response
      <4>2. /\ replying \subseteq Response /\ down \in Seq(Response)
            /\ inHand \in Response \union {None}
        BY DEF RPCTypeOK, KeeperShape, StreamShape
      <4>3. \A n \in 1 .. Len(down) : down[n] \in Response
        BY <4>2
      <4> QED
        BY <4>1, <4>2, <4>3
    <3> QED
      BY <1>0, <1>1, <2>1, <2>2, <3>1, <3>2 DEF ResponsesRan
  <2> QED
    BY <2>4, <2>5 DEF FlowInv
<1>6. ASSUME NEW resp \in Response, Reply(resp) PROVE FlowInv'
  <2>1. /\ resp \in replying /\ replying' = replying \ {resp}
        /\ UNCHANGED <<up, held, running, runs>>
        /\ down' = down \/ down' = Append(down, resp)
    BY <1>6 DEF Reply
  <2>2. RequestsApart'
    BY <1>0, <1>1, <2>1 DEF RequestsApart
  <2>3. \A n \in 1 .. Len(down') : runs[down'[n].id] = 1
    <3>1. CASE down' = down
      BY <1>0, <3>1 DEF ResponsesRan
    <3>2. CASE down' = Append(down, resp)
      <4>1. down \in Seq(Response)
        BY DEF RPCTypeOK, StreamShape
      <4>2. /\ Len(down') = Len(down) + 1 /\ Len(down) \in Nat /\ down'[Len(down) + 1] = resp
            /\ \A n \in 1 .. Len(down) : down'[n] = down[n]
        BY <3>2, <4>1, AppendOf
      <4>3. \A n \in 1 .. Len(down') : n \in 1 .. Len(down) \/ n = Len(down) + 1
        BY <4>2
      <4> QED
        BY <1>0, <2>1, <4>2, <4>3 DEF ResponsesRan
    <3> QED
      BY <2>1, <3>1, <3>2
  <2> QED
    BY <1>0, <1>1, <2>1, <2>2, <2>3 DEF ResponsesRan, FlowInv
<1>7. ASSUME NEW i \in Ids, Worker(i), ~Handle(i) PROVE \E resp \in Response : Reply(resp)
  BY <1>7 DEF Worker, Response
<1> QED
  BY <1>2, <1>3, <1>4, <1>5, <1>6, <1>7 DEF KeeperLoop

LEMMA Inductive == IInv /\ [Next]_vars => IInv'
<1>1. ASSUME IInv, Next PROVE IInv'
  BY <1>1, FrontType, KeeperType, SlotsType, ClientByCaller, ClientByReader, ClientByKeeper, FlowByCaller,
     FlowByReader, FlowByKeeper DEF IInv, RPCTypeOK, Next, Caller, Reader
<1>2. ASSUME IInv, UNCHANGED vars PROVE IInv'
  BY <1>2
     DEF IInv, RPCTypeOK, ClientShape, CallerShape, StreamShape, KeeperShape, SlotsBounded, InFlight,
         ClientInv, UnusedIDs,
         CallersApart, Reachable, Outstanding, OneResponse, HandOverNeverBlocks, NoWaiterLeaked,
         FlowInv, RequestsApart, ResponsesRan, vars, clientVars, callerVars, readerVars, wireVars,
         keeperVars
<1> QED
  BY <1>1, <1>2

-----------------------------------------------------------------------------
(* Every reachable state of the RPC is well formed.                        *)
THEOREM TypeCorrect == Spec => []RPCTypeOK
<1>1. IInv => RPCTypeOK
  BY DEF IInv
<1> QED
  BY <1>1, InitInv, Inductive, PTL DEF Spec

(* The reader and fail never block on a caller's channel.                  *)
THEOREM HandOver == Spec => []HandOverNeverBlocks
<1>1. IInv => HandOverNeverBlocks
  BY DEF IInv, ClientInv, OneResponse
<1> QED
  BY <1>1, InitInv, Inductive, PTL DEF Spec

(* Every waiter can be reached by its response or by fail.                 *)
THEOREM WaitersReached == Spec => []NoWaiterForgotten
<1>1. IInv => NoWaiterForgotten
  BY DEF IInv, ClientInv, OneResponse, CallersApart, Reachable, Outstanding, NoWaiterForgotten
<1> QED
  BY <1>1, InitInv, Inductive, PTL DEF Spec

(* A registration ends with its call.                                      *)
THEOREM WaitersForgotten == Spec => []NoWaiterLeaked
<1>1. IInv => NoWaiterLeaked
  BY DEF IInv, ClientInv
<1> QED
  BY <1>1, InitInv, Inductive, PTL DEF Spec

-----------------------------------------------------------------------------
(* The RPC implements KeeperCall: an operation runs at most once, and a    *)
(* result is returned only by a call whose operation has run.              *)
THEOREM KeepsPromise == Spec => ImplementsKeeperCall
<1>1. Init => Promise!Init
  BY DEF Init, Promise!Init
<1>2. IInv /\ [Next]_vars => [Promise!Next]_Promise!vars
  <2> SUFFICES ASSUME IInv, Next PROVE Promise!Next \/ UNCHANGED <<call, runs>>
    BY DEF Promise!vars, vars, callerVars, keeperVars
  <2>1. ASSUME NEW c \in Callers, Call(c) PROVE Promise!Next
    <3>1. nextID \in Ids /\ call[nextID] = "unused"
      BY <2>1 DEF Call, IInv, RPCTypeOK, ClientShape, ClientInv, UnusedIDs, Ids
    <3> QED
      BY <2>1, <3>1 DEF Call, keeperVars, Promise!Next, Promise!Start
  <2>2. ASSUME NEW c \in Callers, SendFails(c) \/ GiveUp(c) PROVE Promise!Next
    <3>1. id[c] \in Ids /\ call[id[c]] = "open"
      BY <2>2 DEF SendFails, GiveUp, IInv, RPCTypeOK, CallerShape, ClientInv, CallersApart, Outstanding
    <3> QED
      BY <2>2, <3>1 DEF SendFails, GiveUp, Return, keeperVars, Promise!Next, Promise!ReturnError
  <2>3. ASSUME NEW c \in Callers, Receive(c) PROVE Promise!Next
    <3>1. id[c] \in Ids /\ call[id[c]] = "open"
      BY <2>3 DEF Receive, IInv, RPCTypeOK, CallerShape, ClientInv, CallersApart, Outstanding
    <3>2. box[id[c]] = "failed" \/ (box[id[c]] = "ok" /\ runs[id[c]] = 1)
      BY <2>3, <3>1 DEF Receive, IInv, RPCTypeOK, ClientShape, Outcomes, FlowInv, ResponsesRan
    <3> QED
      BY <2>3, <3>1, <3>2
         DEF Receive, Return, keeperVars, Promise!Next, Promise!ReturnError, Promise!ReturnResult
  <2>4. ASSUME NEW i \in Ids, Handle(i) PROVE Promise!Next
    <3>1. runs[i] = 0 /\ call[i] # "unused"
      BY <2>4 DEF Handle, IInv, FlowInv, RequestsApart, ClientInv, UnusedIDs
    <3>2. /\ runs' = [runs EXCEPT ![i] = @ + 1] /\ runs \in [Ids -> Nat]
          /\ UNCHANGED call
      BY <2>4 DEF Handle, callerVars, IInv, RPCTypeOK, KeeperShape
    <3>3. runs' = [runs EXCEPT ![i] = 1]
      BY <3>1, <3>2
    <3>4. Promise!Run(i)
      BY <3>1, <3>2, <3>3 DEF Promise!Run
    <3> QED
      BY <3>4 DEF Promise!Next
  <2>5. ASSUME NEW c \in Callers, Send(c) PROVE UNCHANGED <<call, runs>>
    BY <2>5 DEF Send, keeperVars
  <2>6. ASSUME Reader \/ Close \/ KeeperLoop \/ KeeperDies PROVE UNCHANGED <<call, runs>>
    BY <2>6 DEF Reader, ReadResponse, Route, ReaderFails, Close, KeeperLoop, ReadRequest, Dispatch,
                KeeperDies, callerVars, keeperVars
  <2>7. ASSUME NEW i \in Ids, Worker(i), ~Handle(i) PROVE UNCHANGED <<call, runs>>
    BY <2>7 DEF Worker, Reply, callerVars
  <2> QED
    BY <2>1, <2>2, <2>3, <2>4, <2>5, <2>6, <2>7 DEF Next, Caller
<1> QED
  BY <1>1, <1>2, InitInv, Inductive, PTL DEF Spec, ImplementsKeeperCall, Promise!Spec

=============================================================================
