-------------------------------- MODULE Hub --------------------------------
(***************************************************************************)
(* The WebSocket hub of src/internal/realtime/websocket.go.                *)
(*                                                                         *)
(* One goroutine (Hub.Run) owns the unbuffered channels register,          *)
(* unregister and broadcast.  Every connection has a goroutine that reads  *)
(* from its socket (readPump) and one that writes to it (writePump), fed   *)
(* by the buffered channel client.Send.  EmitToRoom starts one goroutine   *)
(* per emission, a ticker runs cleanupDeadClients, and event scripts and   *)
(* collection handlers send to broadcast.  clients and rooms are guarded   *)
(* by the RWMutex h.mu.                                                    *)
(*                                                                         *)
(* A multicast (a broadcast or a room emission) is a number: the order in  *)
(* which h.mu was acquired to deliver it.  Whatever a connection is sent   *)
(* alone (the connect message, a reply, an error) is Direct.               *)
(***************************************************************************)
EXTENDS Naturals, Sequences, Without

CONSTANTS Clients,    \* connections, one *Client each
          Rooms,      \* room names
          Scripts,    \* event-script runs: EmitToAll blocks the caller
          Changes,    \* EmitCollectionChange goroutines: give up after 50 ms
          None,       \* no client, no room
          SendCap,    \* capacity of client.Send (256 in the code)
          MaxIssued   \* bound on the emissions and replies of a behaviour

ASSUME HubAssumption ==
    /\ SendCap \in Nat \ {0}
    /\ MaxIssued \in Nat
    /\ Scripts \cap Changes = {}
    /\ Clients \cap (Scripts \cup Changes) = {}
    /\ None \notin Clients \cup Rooms

Direct == 0
Emitters == Scripts \cup Changes

VARIABLES
    clients,   \* h.clients
    rooms,     \* h.rooms; an absent room is the empty set
    mu,        \* h.mu: "free", "RLock" or "Lock"
    hpc,       \* where Hub.Run is
    hclient,   \* the client Hub.Run has received
    htodo,     \* clients the broadcast loop has still to visit
    hmsg,      \* the multicast it delivers, 0 outside the loop
    send,      \* client.Send, the messages queued in it
    closed,    \* close(client.Send) has happened
    myRooms,   \* client.Rooms
    conn,      \* client.Conn, as this server has it
    rpc,       \* where HandleWebSocket and then readPump are
    wpc,       \* where writePump is
    drain,     \* messages writePump has still to add to the frame
    got,       \* multicasts written to the socket, in order
    epc,       \* where a script or a change notification is
    pending,   \* EmitToRoom goroutines that wait for h.mu, per room
    emitRoom,  \* the room of the EmitToRoom goroutine that holds h.mu
    etodo,     \* clients it has still to visit
    emsg,      \* the multicast it delivers, 0 outside the goroutine
    dead,      \* its deadClients
    issued,    \* emissions and replies so far (for the bound only)
    seqno,     \* number of the latest multicast
    crash      \* "none", or where the panic was that ended the process

hubVars  == <<hpc, hclient, htodo, hmsg>>
mapVars  == <<clients, rooms, myRooms>>
chanVars == <<send, closed>>
pumpVars == <<conn, rpc, wpc, drain, got>>
emitVars == <<epc, pending>>
roomEmit == <<emitRoom, etodo, emsg, dead>>
vars == <<hubVars, mapVars, chanVars, pumpVars, emitVars, roomEmit, mu,
          issued, seqno, crash>>

TypeOK ==
    /\ clients \subseteq Clients
    /\ rooms \in [Rooms -> SUBSET Clients]
    /\ mu \in {"free", "RLock", "Lock"}
    /\ hpc \in {"select", "add", "connect", "drop", "rlock", "broadcast", "stuck"}
    /\ hclient \in Clients \cup {None}
    /\ htodo \subseteq Clients /\ hmsg \in Nat
    /\ send \in [Clients -> Seq(Nat)]
    /\ \A c \in Clients : Len(send[c]) <= SendCap
    /\ closed \in [Clients -> BOOLEAN]
    /\ myRooms \in [Clients -> SUBSET Rooms]
    /\ conn \in [Clients -> {"open", "closed"}]
    /\ rpc \in [Clients -> {"off", "register", "read", "reply", "emit",
                            "unregister", "done"}]
    /\ wpc \in [Clients -> {"off", "wait", "drain", "done"}]
    /\ drain \in [Clients -> Nat]
    /\ got \in [Clients -> Seq(Nat)]
    /\ epc \in [Emitters -> {"idle", "waiting"}]
    /\ pending \in [Rooms -> Nat]
    /\ emitRoom \in Rooms \cup {None}
    /\ etodo \subseteq Clients /\ emsg \in Nat /\ dead \subseteq Clients
    /\ issued \in Nat
    /\ seqno \in Nat
    /\ crash \in {"none", "connect", "drop", "broadcast", "reader", "emitter"}

Init ==
    /\ clients = {} /\ rooms = [r \in Rooms |-> {}] /\ mu = "free"
    /\ hpc = "select" /\ hclient = None /\ htodo = {} /\ hmsg = 0
    /\ send = [c \in Clients |-> <<>>]
    /\ closed = [c \in Clients |-> FALSE]
    /\ myRooms = [c \in Clients |-> {}]
    /\ conn = [c \in Clients |-> "open"]
    /\ rpc = [c \in Clients |-> "off"]
    /\ wpc = [c \in Clients |-> "off"]
    /\ drain = [c \in Clients |-> 0]
    /\ got = [c \in Clients |-> <<>>]
    /\ epc = [e \in Emitters |-> "idle"]
    /\ pending = [r \in Rooms |-> 0]
    /\ emitRoom = None /\ etodo = {} /\ emsg = 0 /\ dead = {}
    /\ issued = 0 /\ seqno = 0 /\ crash = "none"

---------------------------------------------------------------------------
(* client.Send *)

Full_OneTooMany(c) == Len(send[c]) > SendCap
Full(c) == Len(send[c]) >= SendCap
Put(c, m) == send' = [send EXCEPT ![c] = Append(@, m)]
Pop(c) == send' = [send EXCEPT ![c] = Tail(@)]
Written(c, m) == got' = IF m = Direct THEN got
                        ELSE [got EXCEPT ![c] = Append(@, m)]

(* A send on, or a close of, a closed channel panics; none of these        *)
(* goroutines recovers, so the process ends.                               *)
Panic(who) ==
    /\ crash' = who
    /\ UNCHANGED <<hubVars, mapVars, chanVars, pumpVars, emitVars, roomEmit,
                   mu,  issued, seqno>>

(* Run, default of the broadcast loop: the write that finds the queue full *)
DropFull_KeepsClient(c) ==
    closed' = [closed EXCEPT ![c] = TRUE] /\ UNCHANGED <<clients, send>>
DropFull(c) ==
    /\ closed' = [closed EXCEPT ![c] = TRUE]
    /\ clients' = clients \ {c}
    /\ UNCHANGED send

AddToRoom(c, r) ==
    /\ rooms' = [rooms EXCEPT ![r] = @ \cup {c}]
    /\ myRooms' = [myRooms EXCEPT ![c] = @ \cup {r}]

RemoveFromRoom_OneSide(c, r) ==
    myRooms' = [myRooms EXCEPT ![c] = @ \ {r}] /\ UNCHANGED rooms
RemoveFromRoom(c, r) ==
    /\ rooms' = [rooms EXCEPT ![r] = @ \ {c}]
    /\ myRooms' = [myRooms EXCEPT ![c] = @ \ {r}]

Forget_RoomOnly(c) == UNCHANGED clients
Forget(c) == clients' = clients \ {c}

Spend == issued < MaxIssued /\ issued' = issued + 1

---------------------------------------------------------------------------
(* HandleWebSocket and Hub.Run, case <-h.register *)

Upgrade(c) ==
    /\ rpc[c] = "off"
    /\ rpc' = [rpc EXCEPT ![c] = "register"]
    /\ UNCHANGED <<hubVars, mapVars, chanVars, conn, wpc, drain, got, emitVars,
                   roomEmit, mu,  issued, seqno, crash>>

AcceptRegister(c) ==
    /\ hpc = "select" /\ rpc[c] = "register"
    /\ hpc' = "add" /\ hclient' = c /\ UNCHANGED <<htodo, hmsg>>
    /\ rpc' = [rpc EXCEPT ![c] = "read"]
    /\ wpc' = [wpc EXCEPT ![c] = "wait"]
    /\ UNCHANGED <<mapVars, chanVars, conn, drain, got, emitVars, roomEmit, mu,
                    issued, seqno, crash>>

AddClient_KeepsLock ==
    /\ hpc = "add" /\ mu = "free" /\ mu' = "Lock"
    /\ clients' = clients \cup {hclient} /\ hpc' = "connect"
    /\ UNCHANGED <<hclient, htodo, hmsg, rooms, myRooms, chanVars, pumpVars,
                   emitVars, roomEmit, issued, seqno, crash>>
AddClient ==
    /\ hpc = "add" /\ mu = "free"
    /\ clients' = clients \cup {hclient}
    /\ hpc' = "connect"
    /\ UNCHANGED <<hclient, htodo, hmsg, rooms, myRooms, chanVars, pumpVars,
                   emitVars, roomEmit, mu, issued, seqno, crash>>

SendConnect ==
    /\ hpc = "connect"
    /\ IF closed[hclient] THEN Panic("connect")
       ELSE /\ ~Full(hclient)
            /\ Put(hclient, Direct)
            /\ hpc' = "select" /\ hclient' = None
            /\ UNCHANGED <<htodo, hmsg, mapVars, closed, pumpVars, emitVars, roomEmit, mu,
                            issued, seqno, crash>>

---------------------------------------------------------------------------
(* Hub.Run, case <-h.unregister *)

AcceptUnregister(c) ==
    /\ hpc = "select" /\ rpc[c] = "unregister"
    /\ hpc' = "drop" /\ hclient' = c /\ UNCHANGED <<htodo, hmsg>>
    /\ rpc' = [rpc EXCEPT ![c] = "done"]
    /\ conn' = [conn EXCEPT ![c] = "closed"]
    /\ UNCHANGED <<mapVars, chanVars, wpc, drain, got, emitVars, roomEmit, mu,
                    issued, seqno, crash>>

(* With h.mu held, removeFromRoom asks for h.mu again: for a client that is *)
(* still in a room Hub.Run waits for itself.                               *)
DropClient ==
    /\ hpc = "drop" /\ mu = "free"
    /\ IF hclient \notin clients
       THEN /\ hpc' = "select" /\ hclient' = None
            /\ UNCHANGED <<clients, closed, mu, crash>>
       ELSE IF closed[hclient]
       THEN /\ crash' = "drop"
            /\ UNCHANGED <<hpc, hclient, clients, closed, mu>>
       ELSE /\ clients' = clients \ {hclient}
            /\ closed' = [closed EXCEPT ![hclient] = TRUE]
            /\ hpc' = IF myRooms[hclient] = {} THEN "select" ELSE "stuck"
            /\ mu'  = IF myRooms[hclient] = {} THEN "free" ELSE "Lock"
            /\ hclient' = IF myRooms[hclient] = {} THEN None ELSE hclient
            /\ UNCHANGED crash
    /\ UNCHANGED <<htodo, hmsg, rooms, myRooms, send, pumpVars, emitVars,
                   roomEmit, issued, seqno>>

---------------------------------------------------------------------------
(* Hub.Run, case <-h.broadcast *)

AcceptBroadcast ==
    /\ hpc = "select" /\ hpc' = "rlock"
    /\ UNCHANGED <<hclient, htodo, hmsg, mapVars, chanVars, conn, wpc, drain,
                   got, pending, roomEmit, mu, issued, seqno, crash>>

AcceptFromEmitter(e) ==
    /\ epc[e] = "waiting" /\ epc' = [epc EXCEPT ![e] = "idle"]
    /\ AcceptBroadcast /\ UNCHANGED rpc

AcceptFromReader(c) ==
    /\ rpc[c] = "emit" /\ rpc' = [rpc EXCEPT ![c] = "read"]
    /\ AcceptBroadcast /\ UNCHANGED epc

StartLoop ==
    /\ hpc' = "broadcast" /\ htodo' = clients
    /\ seqno' = seqno + 1 /\ hmsg' = seqno + 1
    /\ UNCHANGED <<hclient, mapVars, chanVars, pumpVars, emitVars, roomEmit,
                   issued, crash>>

BeginBroadcast_NoLock == hpc = "rlock" /\ StartLoop /\ UNCHANGED mu
BeginBroadcast ==
    /\ hpc = "rlock" /\ mu = "free" /\ mu' = "RLock"
    /\ StartLoop

BroadcastTo(c) ==
    /\ hpc = "broadcast" /\ c \in htodo
    /\ IF closed[c] THEN Panic("broadcast")
       ELSE /\ htodo' = htodo \ {c}
            /\ IF Full(c)
               THEN DropFull(c)
               ELSE Put(c, hmsg) /\ UNCHANGED <<closed, clients>>
            /\ UNCHANGED <<hpc, hclient, hmsg, rooms, myRooms, pumpVars,
                           emitVars, roomEmit, mu, issued, seqno, crash>>

LeaveLoop ==
    /\ hpc = "broadcast" /\ htodo = {}
    /\ hpc' = "select" /\ hmsg' = 0
    /\ UNCHANGED <<hclient, htodo, mapVars, chanVars, pumpVars, emitVars,
                   roomEmit, issued, seqno, crash>>

EndBroadcast_KeepsLock == LeaveLoop /\ UNCHANGED mu
EndBroadcast == LeaveLoop /\ mu' = "free"

---------------------------------------------------------------------------
(* readPump and the message handlers *)

Reading(c) == rpc[c] = "read" /\ conn[c] = "open"

(* handleAuth, and every sendError: one direct message, a blocking send *)
ReadRequest(c) ==
    /\ Reading(c) /\ Spend
    /\ rpc' = [rpc EXCEPT ![c] = "reply"]
    /\ UNCHANGED <<hubVars, mapVars, chanVars, conn, wpc, drain, got, emitVars,
                   roomEmit, mu,  seqno, crash>>

Reply(c) ==
    /\ rpc[c] = "reply"
    /\ IF closed[c] THEN Panic("reader")
       ELSE /\ ~Full(c)
            /\ Put(c, Direct)
            /\ rpc' = [rpc EXCEPT ![c] = "read"]
            /\ UNCHANGED <<hubVars, mapVars, closed, conn, wpc, drain, got,
                           emitVars, roomEmit, mu,  issued, seqno, crash>>

Join(c, r) ==
    /\ Reading(c) /\ mu = "free"
    /\ AddToRoom(c, r)
    /\ UNCHANGED <<hubVars, clients, chanVars, pumpVars, emitVars, roomEmit, mu,
                    issued, seqno, crash>>

Leave(c, r) ==
    /\ Reading(c) /\ mu = "free"
    /\ RemoveFromRoom(c, r)
    /\ UNCHANGED <<hubVars, clients, chanVars, pumpVars, emitVars, roomEmit, mu,
                    issued, seqno, crash>>

ReadBroadcast(c) ==
    /\ Reading(c) /\ Spend
    /\ rpc' = [rpc EXCEPT ![c] = "emit"]
    /\ UNCHANGED <<hubVars, mapVars, chanVars, conn, wpc, drain, got, emitVars,
                   roomEmit, mu,  seqno, crash>>

(* EmitToRoom up to its go statement: nothing is started for an empty room *)
EmitToRoom(r) ==
    /\ mu # "Lock" /\ Spend
    /\ pending' = IF rooms[r] = {} THEN pending
                  ELSE [pending EXCEPT ![r] = @ + 1]
    /\ UNCHANGED <<hubVars, mapVars, chanVars, pumpVars, epc, roomEmit, mu, 
                   seqno, crash>>

ReadRoomEmit(c, r) == Reading(c) /\ EmitToRoom(r)

ReadError(c) ==
    /\ rpc[c] = "read"
    /\ rpc' = [rpc EXCEPT ![c] = "unregister"]
    /\ UNCHANGED <<hubVars, mapVars, chanVars, conn, wpc, drain, got, emitVars,
                   roomEmit, mu,  issued, seqno, crash>>

---------------------------------------------------------------------------
(* Event scripts and collection handlers *)

EmitBroadcast(e) ==
    /\ epc[e] = "idle" /\ Spend
    /\ epc' = [epc EXCEPT ![e] = "waiting"]
    /\ UNCHANGED <<hubVars, mapVars, chanVars, pumpVars, pending, roomEmit, mu,
                    seqno, crash>>

ScriptRoomEmit(s, r) == epc[s] = "idle" /\ EmitToRoom(r)

ChangeTimeout(e) ==
    /\ e \in Changes /\ epc[e] = "waiting"
    /\ epc' = [epc EXCEPT ![e] = "idle"]
    /\ UNCHANGED <<hubVars, mapVars, chanVars, pumpVars, pending, roomEmit, mu,
                    issued, seqno, crash>>

---------------------------------------------------------------------------
(* The goroutine of EmitToRoom *)

BeginRoomEmit(r) ==
    /\ pending[r] > 0 /\ mu = "free"
    /\ pending' = [pending EXCEPT ![r] = @ - 1]
    /\ IF rooms[r] = {}
       THEN UNCHANGED <<mu, emitRoom, etodo, emsg, seqno>>
       ELSE /\ mu' = "Lock"
            /\ emitRoom' = r /\ etodo' = rooms[r]
            /\ seqno' = seqno + 1 /\ emsg' = seqno + 1
    /\ UNCHANGED <<hubVars, mapVars, chanVars, pumpVars, epc, dead, issued,
                   crash>>

RoomEmitTo(c) ==
    /\ emitRoom # None /\ c \in etodo
    /\ IF closed[c] THEN Panic("emitter")
       ELSE /\ etodo' = etodo \ {c}
            /\ IF Full(c)
               THEN dead' = dead \cup {c} /\ UNCHANGED send
               ELSE Put(c, emsg) /\ UNCHANGED dead
            /\ UNCHANGED <<hubVars, mapVars, closed, pumpVars, emitVars,
                           emitRoom, emsg, mu, issued, seqno, crash>>

ReapDead(c) ==
    /\ emitRoom # None /\ etodo = {} /\ c \in dead
    /\ IF send[c] # <<>>
       THEN Pop(c) /\ UNCHANGED closed
       ELSE closed' = [closed EXCEPT ![c] = TRUE] /\ UNCHANGED send
    /\ Forget(c)
    /\ RemoveFromRoom(c, emitRoom)
    /\ dead' = dead \ {c}
    /\ UNCHANGED <<hubVars, pumpVars, emitVars, emitRoom, etodo, emsg, mu,
                   issued, seqno, crash>>

EndRoomEmit ==
    /\ emitRoom # None /\ etodo = {} /\ dead = {}
    /\ mu' = "free" /\ emitRoom' = None /\ emsg' = 0
    /\ UNCHANGED <<hubVars, mapVars, chanVars, pumpVars, emitVars, etodo, dead,
                   issued, seqno, crash>>

---------------------------------------------------------------------------
(* cleanupDeadClients, every 30 s *)

TakenForDead == {c \in clients : closed[c] \/ send[c] # <<>>}

RemoveTakenForDead ==
    /\ TakenForDead # {}
    /\ send' = [c \in Clients |-> IF c \in TakenForDead /\ send[c] # <<>>
                                  THEN Tail(send[c]) ELSE send[c]]
    /\ clients' = clients \ TakenForDead
    /\ rooms' = [r \in Rooms |-> rooms[r] \ {c \in TakenForDead : r \in myRooms[c]}]
    /\ UNCHANGED <<hubVars, myRooms, closed, pumpVars, emitVars, roomEmit, mu,
                    issued, seqno, crash>>

Cleanup_NoLock == RemoveTakenForDead
Cleanup == mu = "free" /\ RemoveTakenForDead

---------------------------------------------------------------------------
(* writePump *)

WriterTake(c) ==
    /\ wpc[c] = "wait" /\ send[c] # <<>> /\ conn[c] = "open"
    /\ Pop(c) /\ Written(c, Head(send[c]))
    /\ drain' = [drain EXCEPT ![c] = Len(send[c]) - 1]
    /\ wpc' = [wpc EXCEPT ![c] = "drain"]
    /\ UNCHANGED <<hubVars, mapVars, closed, conn, rpc, emitVars, roomEmit, mu,
                    issued, seqno, crash>>

(* the n messages counted before the loop; a closed channel yields nil *)
WriterDrain(c) ==
    /\ wpc[c] = "drain" /\ drain[c] > 0
    /\ IF send[c] # <<>> THEN Pop(c) /\ Written(c, Head(send[c]))
       ELSE closed[c] /\ UNCHANGED <<send, got>>
    /\ drain' = [drain EXCEPT ![c] = @ - 1]
    /\ UNCHANGED <<hubVars, mapVars, closed, conn, rpc, wpc, emitVars, roomEmit,
                   mu,  issued, seqno, crash>>

WriterFlush(c) ==
    /\ wpc[c] = "drain" /\ drain[c] = 0 /\ conn[c] = "open"
    /\ wpc' = [wpc EXCEPT ![c] = "wait"]
    /\ UNCHANGED <<hubVars, mapVars, chanVars, conn, rpc, drain, got, emitVars,
                   roomEmit, mu,  issued, seqno, crash>>

WriterExit(c) ==
    /\ wpc' = [wpc EXCEPT ![c] = "done"]
    /\ conn' = [conn EXCEPT ![c] = "closed"]
    /\ UNCHANGED <<hubVars, mapVars, closed, rpc, drain, got, emitVars, roomEmit,
                   mu,  issued, seqno, crash>>

(* an error from NextWriter, from w.Close or from the ping *)
WriterFail(c) ==
    /\ \/ wpc[c] = "wait" /\ send[c] # <<>> /\ Pop(c)
       \/ wpc[c] = "drain" /\ drain[c] = 0 /\ UNCHANGED send
       \/ wpc[c] = "wait" /\ UNCHANGED send
    /\ WriterExit(c)

WriterClosed(c) ==
    /\ wpc[c] = "wait" /\ send[c] = <<>> /\ closed[c]
    /\ UNCHANGED send
    /\ WriterExit(c)

---------------------------------------------------------------------------

HubStep ==
    \/ AddClient \/ SendConnect \/ DropClient
    \/ BeginBroadcast \/ EndBroadcast
    \/ \E c \in Clients : BroadcastTo(c)

RoomEmitStep ==
    \/ \E r \in Rooms : BeginRoomEmit(r)
    \/ \E c \in Clients : RoomEmitTo(c) \/ ReapDead(c)
    \/ EndRoomEmit

ReaderStep(c) ==
    \/ Upgrade(c) \/ AcceptRegister(c) \/ AcceptUnregister(c)
    \/ AcceptFromReader(c)
    \/ ReadRequest(c) \/ Reply(c) \/ ReadBroadcast(c) \/ ReadError(c)
    \/ \E r \in Rooms : Join(c, r) \/ Leave(c, r) \/ ReadRoomEmit(c, r)

WriterStep(c) ==
    \/ WriterTake(c) \/ WriterDrain(c) \/ WriterFlush(c) \/ WriterFail(c)
    \/ WriterClosed(c)

EmitterStep ==
    \/ \E e \in Emitters :
          EmitBroadcast(e) \/ AcceptFromEmitter(e) \/ ChangeTimeout(e)
    \/ \E s \in Scripts, r \in Rooms : ScriptRoomEmit(s, r)

Next ==
    /\ crash = "none"
    /\ \/ HubStep \/ RoomEmitStep \/ EmitterStep \/ Cleanup
       \/ \E c \in Clients : ReaderStep(c) \/ WriterStep(c)

Spec == Init /\ [][Next]_vars

(* Every goroutine that can run is scheduled.  A select picks at random     *)
(* among the cases that are ready, so an offer that is ready again and      *)
(* again is taken in the end: strong fairness of each rendezvous.  The      *)
(* network may keep a connection up for ever: a read or a write must fail   *)
(* only once this server has closed the connection.  The ticker of          *)
(* cleanupDeadClients comes back every 30 s, so what it would find at every *)
(* tick it finds: weak fairness.                                           *)
Live(A) == crash = "none" /\ A
Offered(c) == AcceptRegister(c) \/ AcceptUnregister(c) \/ AcceptFromReader(c)
ReaderMust(c) == Reply(c) \/ (conn[c] = "closed" /\ ReadError(c))
WriterMust(c) == \/ WriterTake(c) \/ WriterDrain(c) \/ WriterFlush(c)
                 \/ WriterClosed(c)
                 \/ conn[c] = "closed" /\ WriterFail(c)
Fairness ==
    /\ WF_vars(Live(HubStep)) /\ WF_vars(Live(RoomEmitStep))
    /\ \A e \in Emitters : SF_vars(Live(AcceptFromEmitter(e)))
    /\ \A c \in Clients : /\ SF_vars(Live(Offered(c)))
                          /\ WF_vars(Live(ReaderMust(c)))
                          /\ WF_vars(Live(WriterMust(c)))
    /\ WF_vars(Live(Cleanup))

FairSpec == Spec /\ Fairness

---------------------------------------------------------------------------
(* Safety *)

(* h.mu is held for reading exactly while Hub.Run delivers a broadcast, and *)
(* for writing by at most one goroutine: a room emission, or Hub.Run inside *)
(* the unregister case.  The maps are never changed by two goroutines.      *)
LockInv ==
    /\ mu = "RLock" <=> hpc = "broadcast"
    /\ mu = "Lock" <=> (emitRoom # None \/ hpc = "stuck")
    /\ ~(emitRoom # None /\ hpc = "stuck")

(* Whoever closes a Send channel takes its client out of h.clients before   *)
(* h.mu is released, although the broadcast loop does so under the read     *)
(* lock only and unregister, the loop and room emissions all close.  One    *)
(* case escapes: readPump already runs when Run adds the client, so it can  *)
(* join a room, overflow and be closed before it is added; Run's next step  *)
(* is then the connect message, which panics.                               *)
OpenWhileRegistered ==
    \A c \in clients : closed[c] => hpc = "connect" /\ hclient = c

(* The loop that delivers a broadcast never sends on a closed channel, and  *)
(* unregister never closes one twice: whatever panics in this file, it is   *)
(* neither of these.                                                        *)
HubLoopNeverPanics == crash \notin {"broadcast", "drop"}

(* A client that h.rooms lists knows that it is in the room: unregister and *)
(* cleanup find the rooms of a client only through client.Rooms.            *)
RoomsMirrored == \A r \in Rooms : \A c \in rooms[r] : r \in myRooms[c]

(* All connections see the multicasts in one order, that of h.mu, and none  *)
(* twice, however broadcasts, room emissions, cleanups and queues that      *)
(* overflow interleave.                                                     *)
InOrder ==
    \A c \in Clients : \A i, j \in DOMAIN got[c] :
        i < j => got[c][i] < got[c][j]

(* A room emission visits, and reaps, only clients that are in the room.    *)
EmitsToMembers == emitRoom # None => etodo \cup dead \subseteq rooms[emitRoom]

(* What the hub promises its connections: OrderedMulticast.tla. *)
Multicasts(q) == Without(q, {Direct})
Multicast == INSTANCE OrderedMulticast
    WITH Members <- Clients, Cap <- SendCap, n <- seqno,
         queue <- [c \in Clients |-> Multicasts(send[c])], log <- got
ImplementsMulticast == Multicast!Spec

---------------------------------------------------------------------------
(* Liveness, where no client joins a room *)

(* The connect message waits for a place in a queue that nobody empties any *)
(* more: its writer has gone, and the cleanup has already taken the client  *)
(* from h.clients and will not visit it again.                              *)
HubBlocked ==
    /\ hpc = "connect" /\ Full(hclient)
    /\ wpc[hclient] = "done" /\ hclient \notin clients

(* A reader that has lost its connection is let go by the hub, also when    *)
(* queues overflow, replies overtake the connect message and a writer dies  *)
(* while the hub waits for its queue: the cleanup then makes room.  Only a  *)
(* client that the cleanup took before its queue filled up blocks the hub.  *)
ReaderDeparts ==
    \A c \in Clients :
        rpc[c] = "unregister" ~> (rpc[c] = "done" \/ crash # "none" \/ HubBlocked)

(* EmitToAll returns to the event script that called it, in the same cases. *)
EmitToAllReturns ==
    \A s \in Scripts :
        epc[s] = "waiting" ~> (epc[s] = "idle" \/ crash # "none" \/ HubBlocked)

---------------------------------------------------------------------------
(* What the code's comments say, and the code does not do *)

(* websocket.go:145 "Remove client from all rooms", inside the unregister   *)
(* case of a loop that is to serve the next client: the case finishes.      *)
DropFinishes == hpc = "drop" ~> (hpc = "select" \/ crash # "none")

(* websocket.go:133 "Send connection confirmation", in the register case of *)
(* the same loop: the send on the bounded queue returns.                    *)
ConnectIsSent == hpc = "connect" ~> (hpc = "select" \/ crash # "none")

(* websocket.go:459 "Client's send channel is full or closed - mark for     *)
(* removal": a closed channel does not end the emission, and the process.   *)
ClosedIsMarked == crash # "emitter"

=============================================================================
