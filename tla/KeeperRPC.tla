------------------------------ MODULE KeeperRPC ------------------------------
(***************************************************************************)
(* The two-process broker's custody RPC: the front's callers multiplexed   *)
(* over one stream to the keeper process, the reader that hands each       *)
(* response to the call it belongs to, the keeper's read loop with its     *)
(* bound on concurrent requests, and the ways it ends: the keeper dies, a  *)
(* call's context is done, the front closes the connection.                *)
(*                                                                         *)
(* A frame is its call's ID (and, on the way back, whether the operation   *)
(* succeeded or failed); the stream keeps frames whole and in order, and a *)
(* direction holds at most SocketRoom of them before a write blocks.       *)
(***************************************************************************)
EXTENDS Naturals, Sequences, FiniteSets

CONSTANTS
  Callers,        \* the front's goroutines that make custody calls
  MaxCalls,       \* bound on the calls made
  SocketRoom,     \* frames a direction of the stream buffers
  InflightLimit,  \* keeperInflightLimit
  None            \* no call, nothing in hand

Ids == 0 .. MaxCalls - 1
Outcomes == {"ok", "failed"}
Response == [id : Ids, res : Outcomes]

ASSUME RPCAssumption ==
  /\ MaxCalls \in Nat /\ SocketRoom \in Nat \ {0} /\ InflightLimit \in Nat \ {0}
  /\ None \notin Ids /\ None \notin Response

VARIABLES
  nextID, pending, closedErr,  \* the client, under its mutex
  box,                         \* the one-response channel of each call
  pc, id,                      \* where a caller is, and its call
  reader, inHand,              \* readLoop, and the response it is handing over
  open,                        \* the front's end of the connection
  up, down,                    \* frames to the keeper, and back
  keeper,                      \* whether the keeper process is alive
  held,                        \* the request its loop has read and not yet dispatched
  running, replying,           \* its goroutines, before and after the operation
  call, runs                   \* history: what each call's caller saw, how often it ran

clientVars == <<nextID, pending, closedErr, box>>
callerVars == <<pc, id, call>>
readerVars == <<reader, inHand>>
wireVars == <<open, up, down>>
keeperVars == <<keeper, held, running, replying, runs>>
vars == <<clientVars, callerVars, readerVars, wireVars, keeperVars>>

Init ==
  /\ nextID = 0 /\ pending = {} /\ closedErr = FALSE
  /\ box = [i \in Ids |-> "empty"]
  /\ pc = [c \in Callers |-> "idle"]
  /\ id = [c \in Callers |-> None]
  /\ reader = "reading" /\ inHand = None
  /\ open = TRUE /\ up = <<>> /\ down = <<>>
  /\ keeper = TRUE /\ held = None /\ running = {} /\ replying = {}
  /\ call = [i \in Ids |-> "unused"]
  /\ runs = [i \in Ids |-> 0]

-----------------------------------------------------------------------------
(* The front's callers.                                                    *)

(* The caller returns with what it saw.                                    *)
Return(c, outcome) ==
  /\ pc' = [pc EXCEPT ![c] = "idle"]
  /\ id' = [id EXCEPT ![c] = None]
  /\ call' = [call EXCEPT ![id[c]] = outcome]

(* Mutant: closedErr is not looked at when the waiter is registered.       *)
CallOnClosed(c) ==
  /\ pc[c] = "idle" /\ nextID < MaxCalls
  /\ nextID' = nextID + 1
  /\ pending' = pending \union {nextID}
  /\ pc' = [pc EXCEPT ![c] = "send"]
  /\ id' = [id EXCEPT ![c] = nextID]
  /\ call' = [call EXCEPT ![nextID] = "open"]
  /\ UNCHANGED <<closedErr, box, readerVars, wireVars, keeperVars>>

(* One critical section: the client is not closed, and the waiter is       *)
(* registered under an ID of its own.  (On a closed client the call        *)
(* returns its error and nothing changes.)                                 *)
Call(c) ==
  /\ pc[c] = "idle" /\ ~closedErr /\ nextID < MaxCalls
  /\ nextID' = nextID + 1
  /\ pending' = pending \union {nextID}
  /\ pc' = [pc EXCEPT ![c] = "send"]
  /\ id' = [id EXCEPT ![c] = nextID]
  /\ call' = [call EXCEPT ![nextID] = "open"]
  /\ UNCHANGED <<closedErr, box, readerVars, wireVars, keeperVars>>

(* The frame is written whole under the write mutex, once there is room.   *)
Send(c) ==
  /\ pc[c] = "send" /\ open /\ keeper
  /\ Len(up) < SocketRoom
  /\ up' = Append(up, id[c])
  /\ pc' = [pc EXCEPT ![c] = "wait"]
  /\ UNCHANGED <<id, call, clientVars, readerVars, open, down, keeperVars>>

SendFails(c) ==
  /\ pc[c] = "send" /\ ~(open /\ keeper)
  /\ pending' = pending \ {id[c]}
  /\ Return(c, "failed")
  /\ UNCHANGED <<nextID, closedErr, box, readerVars, wireVars, keeperVars>>

Receive(c) ==
  /\ pc[c] = "wait" /\ box[id[c]] # "empty"
  /\ box' = [box EXCEPT ![id[c]] = "empty"]
  /\ Return(c, box[id[c]])
  /\ UNCHANGED <<nextID, pending, closedErr, readerVars, wireVars, keeperVars>>

(* Mutant: the waiter stays registered.                                    *)
GiveUpRegistered(c) ==
  /\ pc[c] = "wait"
  /\ Return(c, "failed")
  /\ UNCHANGED <<clientVars, readerVars, wireVars, keeperVars>>

(* The call's context is done, by its timeout or with its request.  The    *)
(* select may take this branch although a response has arrived.            *)
GiveUp(c) ==
  /\ pc[c] = "wait"
  /\ pending' = pending \ {id[c]}
  /\ Return(c, "failed")
  /\ UNCHANGED <<nextID, closedErr, box, readerVars, wireVars, keeperVars>>

-----------------------------------------------------------------------------
(* readLoop and fail.                                                      *)

(* Mutant: the waiter is looked up and left registered.                    *)
ReadResponseKept ==
  /\ reader = "reading" /\ inHand = None /\ open /\ down # <<>>
  /\ down' = Tail(down)
  /\ inHand' = IF Head(down).id \in pending THEN Head(down) ELSE None
  /\ UNCHANGED <<clientVars, reader, open, up, callerVars, keeperVars>>

(* Look-up and removal are one critical section; nobody waits for a        *)
(* response whose call has given up, and it is dropped.                    *)
ReadResponse ==
  /\ reader = "reading" /\ inHand = None /\ open /\ down # <<>>
  /\ down' = Tail(down)
  /\ inHand' = IF Head(down).id \in pending THEN Head(down) ELSE None
  /\ pending' = pending \ {Head(down).id}
  /\ UNCHANGED <<nextID, closedErr, box, reader, open, up, callerVars, keeperVars>>

(* The send on the waiter's channel, outside the mutex.                    *)
Route ==
  /\ inHand # None
  /\ box[inHand.id] = "empty"
  /\ box' = [box EXCEPT ![inHand.id] = inHand.res]
  /\ inHand' = None
  /\ UNCHANGED <<nextID, pending, closedErr, reader, wireVars, callerVars, keeperVars>>

(* fail: every waiter gets an error, in one critical section.              *)
Fail ==
  /\ closedErr' = TRUE
  /\ \A i \in pending : box[i] = "empty"
  /\ box' = [i \in Ids |-> IF i \in pending THEN "failed" ELSE box[i]]
  /\ pending' = {}

StreamEnds == reader = "reading" /\ inHand = None /\ (~open \/ (~keeper /\ down = <<>>))

(* Mutant: the reader goes without failing the waiters.                    *)
ReaderFailsSilently ==
  /\ StreamEnds
  /\ closedErr' = TRUE
  /\ reader' = "stopped"
  /\ UNCHANGED <<nextID, pending, box, inHand, wireVars, callerVars, keeperVars>>

ReaderFails ==
  /\ StreamEnds
  /\ Fail
  /\ reader' = "stopped"
  /\ UNCHANGED <<nextID, inHand, wireVars, callerVars, keeperVars>>

Close ==
  /\ open
  /\ Fail
  /\ open' = FALSE
  /\ UNCHANGED <<nextID, readerVars, up, down, callerVars, keeperVars>>

-----------------------------------------------------------------------------
(* The keeper process.                                                     *)

InFlight == Cardinality(running) + Cardinality(replying)

(* Mutant: a frame is read twice.                                          *)
ReadRequestTwice ==
  /\ keeper /\ held = None /\ up # <<>>
  /\ held' = Head(up)
  /\ UNCHANGED <<up, open, down, keeper, running, replying, runs, clientVars, readerVars, callerVars>>

ReadRequest ==
  /\ keeper /\ held = None /\ up # <<>>
  /\ held' = Head(up)
  /\ up' = Tail(up)
  /\ UNCHANGED <<open, down, keeper, running, replying, runs, clientVars, readerVars, callerVars>>

(* Mutant: the semaphore is not asked.                                     *)
DispatchUnbounded ==
  /\ keeper /\ held # None
  /\ running' = running \union {held}
  /\ held' = None
  /\ UNCHANGED <<keeper, replying, runs, clientVars, readerVars, wireVars, callerVars>>

(* The semaphore: the loop keeps what it read until a slot is free.        *)
Dispatch ==
  /\ keeper /\ held # None
  /\ InFlight < InflightLimit
  /\ running' = running \union {held}
  /\ held' = None
  /\ UNCHANGED <<keeper, replying, runs, clientVars, readerVars, wireVars, callerVars>>

(* The operation runs and succeeds, fails or panics; a panic is contained  *)
(* and answered as an error.                                               *)
Handle(i) ==
  /\ keeper /\ i \in running
  /\ running' = running \ {i}
  /\ \E res \in Outcomes : replying' = replying \union {[id |-> i, res |-> res]}
  /\ runs' = [runs EXCEPT ![i] = @ + 1]
  /\ UNCHANGED <<keeper, held, clientVars, readerVars, wireVars, callerVars>>

(* The response is written when there is room (a write to a front that has *)
(* closed fails and is logged); only then is the slot given back.          *)
Reply(resp) ==
  /\ keeper /\ resp \in replying
  /\ IF open
     THEN Len(down) < SocketRoom /\ down' = Append(down, resp)
     ELSE UNCHANGED down
  /\ replying' = replying \ {resp}
  /\ UNCHANGED <<keeper, held, running, runs, open, up, clientVars, readerVars, callerVars>>

(* The process ends: on the end of the stream, or at any other moment.     *)
(* What it held is gone; what it wrote can still be read.                  *)
KeeperDies ==
  /\ keeper
  /\ keeper' = FALSE
  /\ held' = None /\ running' = {} /\ replying' = {}
  /\ up' = <<>>
  /\ UNCHANGED <<runs, open, down, clientVars, readerVars, callerVars>>

-----------------------------------------------------------------------------
Caller(c) == Send(c) \/ SendFails(c) \/ Receive(c)
Reader == ReadResponse \/ Route \/ ReaderFails
Worker(i) == Handle(i) \/ \E res \in Outcomes : Reply([id |-> i, res |-> res])
KeeperLoop == ReadRequest \/ Dispatch

Next ==
  \/ \E c \in Callers : Call(c) \/ Caller(c) \/ GiveUp(c)
  \/ Reader \/ Close
  \/ KeeperLoop \/ KeeperDies \/ \E i \in Ids : Worker(i)

Spec == Init /\ [][Next]_vars

FrontFairness == WF_vars(Reader) /\ \A c \in Callers : WF_vars(Caller(c))

(* Both processes' goroutines run.  No call depends on its timeout, so     *)
(* none is assumed to fire.                                                *)
FairSpec ==
  /\ Spec /\ FrontFairness
  /\ WF_vars(KeeperLoop) /\ \A i \in Ids : WF_vars(Worker(i))

(* The front's goroutines run and the timeouts fire, but the keeper may    *)
(* stop making progress.                                                   *)
WedgedKeeperSpec ==
  Spec /\ FrontFairness /\ \A c \in Callers : WF_vars(GiveUp(c))

-----------------------------------------------------------------------------
(* The shape of every reachable state, part by part; the keeper never      *)
(* works on more requests than keeperInflightLimit.                        *)
ClientShape ==
  /\ nextID \in 0 .. MaxCalls /\ pending \subseteq Ids /\ closedErr \in BOOLEAN
  /\ box \in [Ids -> Outcomes \union {"empty"}]

CallerShape ==
  /\ pc \in [Callers -> {"idle", "send", "wait"}]
  /\ id \in [Callers -> Ids \union {None}]
  /\ \A c \in Callers : id[c] = None <=> pc[c] = "idle"
  /\ call \in [Ids -> {"unused", "open", "ok", "failed"}]

StreamShape ==
  /\ reader \in {"reading", "stopped"} /\ inHand \in Response \union {None}
  /\ open \in BOOLEAN /\ up \in Seq(Ids) /\ down \in Seq(Response)
  /\ Len(up) <= SocketRoom /\ Len(down) <= SocketRoom

KeeperShape ==
  /\ keeper \in BOOLEAN /\ held \in Ids \union {None}
  /\ running \subseteq Ids /\ replying \subseteq Response
  /\ runs \in [Ids -> Nat]

SlotsBounded ==
  IsFiniteSet(running) /\ IsFiniteSet(replying) /\ InFlight <= InflightLimit

RPCTypeOK == ClientShape /\ CallerShape /\ StreamShape /\ KeeperShape /\ SlotsBounded

(* No response ever waits for its channel: the reader's hand-over, and     *)
(* fail's under the mutex, always find the one-response buffer empty.      *)
HandOverNeverBlocks ==
  /\ inHand # None => box[inHand.id] = "empty"
  /\ \A i \in pending : box[i] = "empty"

(* No waiter is out of reach: it is registered, its response is being      *)
(* handed over, or it has one; and once the client is closed nobody is     *)
(* left registered.                                                        *)
NoWaiterForgotten ==
  /\ \A c \in Callers :
       pc[c] = "wait" => \/ id[c] \in pending
                         \/ inHand # None /\ inHand.id = id[c]
                         \/ box[id[c]] # "empty"
  /\ closedErr => pending = {}

(* No registration outlives its call, however the call ended.              *)
NoWaiterLeaked ==
  \A i \in pending : \E c \in Callers : pc[c] \in {"send", "wait"} /\ id[c] = i

(* Every custody call returns, whatever the other callers, the bounded     *)
(* stream and the bounded concurrency do, and when the keeper dies.        *)
CallsReturn == \A c \in Callers : pc[c] # "idle" ~> pc[c] = "idle"

(* keeperrpc.go on defaultKeeperCallTimeout: a call with the default       *)
(* timeout returns even when the keeper is wedged.                         *)
TimeoutBoundsCall == CallsReturn

(* The RPC keeps what its callers rely on: an operation runs at most once, *)
(* and a result is the result of one's own call.                           *)
Promise == INSTANCE KeeperCall WITH Ids <- Ids, call <- call, runs <- runs
ImplementsKeeperCall == Promise!Spec
=============================================================================
