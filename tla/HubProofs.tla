----------------------------- MODULE HubProofs -----------------------------
(* What is proved of Hub, for every number of connections, rooms, scripts   *)
(* and messages and every capacity of the queues.                           *)
EXTENDS Hub, SequenceFacts

USE DEF hubVars, mapVars, chanVars, pumpVars, emitVars, roomEmit

---------------------------------------------------------------------------
(* The queues *)

QueueOK ==
    /\ send \in [Clients -> Seq(Nat)]
    /\ \A c \in Clients : Len(send[c]) <= SendCap

GotOK == got \in [Clients -> Seq(Nat)]

LEMMA PutQueue ==
    ASSUME QueueOK, NEW c \in Clients, NEW m \in Nat, ~Full(c), Put(c, m)
    PROVE  QueueOK'
  <1>1. Append(send[c], m) \in Seq(Nat) /\ Len(Append(send[c], m)) = Len(send[c]) + 1
    BY DEF QueueOK
  <1>2. Len(send[c]) \in Nat /\ Len(send[c]) < SendCap
    BY HubAssumption DEF QueueOK, Full
  <1>3. send' \in [Clients -> Seq(Nat)]
    BY <1>1 DEF QueueOK, Put
  <1>4. ASSUME NEW d \in Clients PROVE Len(send'[d]) <= SendCap
    BY <1>1, <1>2, HubAssumption DEF QueueOK, Put
  <1>5. QED
    BY <1>3, <1>4 DEF QueueOK

LEMMA PopQueue ==
    ASSUME QueueOK, NEW c \in Clients, send[c] # <<>>, Pop(c)
    PROVE  /\ QueueOK'
           /\ Head(send[c]) \in Nat
           /\ Len(send[c]) - 1 \in Nat
  <1>1. /\ send[c] \in Seq(Nat)
        /\ Tail(send[c]) \in Seq(Nat)
        /\ Head(send[c]) \in Nat
        /\ Len(send[c]) \in Nat /\ Len(send[c]) > 0
        /\ Len(Tail(send[c])) = Len(send[c]) - 1
    BY DEF QueueOK
  <1>2. send' \in [Clients -> Seq(Nat)]
    BY <1>1 DEF QueueOK, Pop
  <1>3. ASSUME NEW d \in Clients PROVE Len(send'[d]) <= SendCap
    BY <1>1, HubAssumption DEF QueueOK, Pop
  <1>4. QED
    BY <1>1, <1>2, <1>3 DEF QueueOK

LEMMA WrittenGot ==
    ASSUME GotOK, NEW c \in Clients, NEW m \in Nat, Written(c, m)
    PROVE  GotOK'
  BY DEF GotOK, Written

---------------------------------------------------------------------------
(* Types *)

(* The hub goroutine has a client in hand in the steps that use one. *)
HandInv == hpc \in {"add", "connect", "drop", "stuck"} => hclient \in Clients

TypeInv == TypeOK /\ HandInv

LEMMA TypeQueues == TypeInv => QueueOK /\ GotOK
  BY DEF TypeInv, TypeOK, QueueOK, GotOK

LEMMA InitType == Init => TypeInv
  BY HubAssumption DEF Init, TypeInv, TypeOK, HandInv

LEMMA EmissionType == ASSUME TypeInv, NEW r \in Rooms, EmitToRoom(r) PROVE TypeInv'
  <1>1. issued' \in Nat /\ pending' \in [Rooms -> Nat]
    BY DEF EmitToRoom, Spend, TypeInv, TypeOK
  <1>2. UNCHANGED <<hubVars, mapVars, chanVars, pumpVars, epc, roomEmit, mu, seqno, crash>>
    BY DEF EmitToRoom
  <1>3. QED
    BY <1>1, <1>2 DEF TypeInv, TypeOK, HandInv

LEMMA NextType == TypeInv /\ [Next]_vars => TypeInv'
  <1> SUFFICES ASSUME TypeInv, [Next]_vars PROVE TypeInv'
    OBVIOUS
  <1>1. QueueOK /\ GotOK
    BY TypeQueues
  <1> USE HubAssumption, <1>1 DEF TypeInv, TypeOK, HandInv
  <1>2. QED
  <2>1. ASSUME AddClient PROVE TypeInv'
    BY <2>1 DEF AddClient
  <2>2. ASSUME SendConnect PROVE TypeInv'
    <3>1. CASE closed[hclient]
      BY <2>2, <3>1 DEF SendConnect, Panic
    <3>2. CASE ~closed[hclient] /\ ~Full(hclient)
      <4>1. Direct \in Nat /\ hclient \in Clients
        BY <2>2 DEF SendConnect, Direct
      <4>2. QueueOK'
        BY <2>2, <3>2, <4>1, PutQueue DEF SendConnect
      <4>3. QED
        BY <2>2, <3>2, <4>2 DEF SendConnect, QueueOK
    <3>3. QED
      BY <2>2, <3>1, <3>2 DEF SendConnect
  <2>3. ASSUME DropClient PROVE TypeInv'
    BY <2>3 DEF DropClient
  <2>4. ASSUME BeginBroadcast PROVE TypeInv'
    BY <2>4 DEF BeginBroadcast, StartLoop
  <2>5. ASSUME EndBroadcast PROVE TypeInv'
    BY <2>5 DEF EndBroadcast, LeaveLoop
  <2>6. ASSUME EndRoomEmit PROVE TypeInv'
    BY <2>6 DEF EndRoomEmit
  <2>7. ASSUME Cleanup PROVE TypeInv'
    <3>1. /\ clients' \subseteq Clients /\ rooms' \in [Rooms -> SUBSET Clients]
          /\ UNCHANGED <<hubVars, myRooms, closed, pumpVars, emitVars, roomEmit, mu, issued,
                         seqno, crash>>
      BY <2>7 DEF Cleanup, RemoveTakenForDead
    <3>2. QueueOK'
      BY <2>7 DEF Cleanup, RemoveTakenForDead, QueueOK
    <3>3. QED
      BY <3>1, <3>2 DEF QueueOK
  <2>8. ASSUME NEW c \in Clients, BroadcastTo(c) PROVE TypeInv'
    <3>1. CASE closed[c]
      BY <2>8, <3>1 DEF BroadcastTo, Panic
    <3>2. CASE ~closed[c] /\ ~Full(c)
      <4>1. QueueOK'
        BY <2>8, <3>2, PutQueue DEF BroadcastTo
      <4>2. QED
        BY <2>8, <3>2, <4>1 DEF BroadcastTo, QueueOK
    <3>3. CASE ~closed[c] /\ Full(c)
      BY <2>8, <3>3 DEF BroadcastTo, DropFull
    <3>4. QED
      BY <3>1, <3>2, <3>3
  <2>9. ASSUME NEW c \in Clients, RoomEmitTo(c) PROVE TypeInv'
    <3>1. CASE closed[c]
      BY <2>9, <3>1 DEF RoomEmitTo, Panic
    <3>2. CASE ~closed[c] /\ ~Full(c)
      <4>1. QueueOK'
        BY <2>9, <3>2, PutQueue DEF RoomEmitTo
      <4>2. QED
        BY <2>9, <3>2, <4>1 DEF RoomEmitTo, QueueOK
    <3>3. CASE ~closed[c] /\ Full(c)
      BY <2>9, <3>3 DEF RoomEmitTo
    <3>4. QED
      BY <3>1, <3>2, <3>3
  <2>10. ASSUME NEW c \in Clients, ReapDead(c) PROVE TypeInv'
    <3>1. CASE send[c] # <<>>
      <4>1. QueueOK' /\ Head(send[c]) \in Nat /\ Len(send[c]) - 1 \in Nat
        BY <2>10, <3>1, PopQueue DEF ReapDead
      <4>2. QED
        BY <2>10, <3>1, <4>1 DEF ReapDead, Forget, RemoveFromRoom, QueueOK
    <3>2. CASE ~(send[c] # <<>>)
      BY <2>10, <3>2 DEF ReapDead, Forget, RemoveFromRoom
    <3>3. QED
      BY <3>1, <3>2
  <2>11. ASSUME NEW c \in Clients, Upgrade(c) PROVE TypeInv'
    BY <2>11 DEF Upgrade
  <2>12. ASSUME NEW c \in Clients, AcceptRegister(c) PROVE TypeInv'
    BY <2>12 DEF AcceptRegister
  <2>13. ASSUME NEW c \in Clients, AcceptUnregister(c) PROVE TypeInv'
    BY <2>13 DEF AcceptUnregister
  <2>14. ASSUME NEW c \in Clients, AcceptFromReader(c) PROVE TypeInv'
    BY <2>14 DEF AcceptFromReader, AcceptBroadcast
  <2>15. ASSUME NEW c \in Clients, ReadRequest(c) PROVE TypeInv'
    BY <2>15 DEF ReadRequest, Reading, Spend
  <2>16. ASSUME NEW c \in Clients, Reply(c) PROVE TypeInv'
    <3>1. CASE closed[c]
      BY <2>16, <3>1 DEF Reply, Panic
    <3>2. CASE ~closed[c] /\ ~Full(c)
      <4>1. Direct \in Nat /\ c \in Clients
        BY <2>16 DEF Reply, Direct
      <4>2. QueueOK'
        BY <2>16, <3>2, <4>1, PutQueue DEF Reply
      <4>3. QED
        BY <2>16, <3>2, <4>2 DEF Reply, QueueOK
    <3>3. QED
      BY <2>16, <3>1, <3>2 DEF Reply
  <2>17. ASSUME NEW c \in Clients, ReadBroadcast(c) PROVE TypeInv'
    BY <2>17 DEF ReadBroadcast, Reading, Spend
  <2>18. ASSUME NEW c \in Clients, ReadError(c) PROVE TypeInv'
    BY <2>18 DEF ReadError
  <2>19. ASSUME NEW c \in Clients, WriterTake(c) PROVE TypeInv'
    <3>1. CASE send[c] # <<>>
      <4>1. QueueOK' /\ Head(send[c]) \in Nat /\ Len(send[c]) - 1 \in Nat
        BY <2>19, <3>1, PopQueue DEF WriterTake
      <4>2. GotOK'
        BY <2>19, <3>1, <4>1, WrittenGot DEF WriterTake
      <4>3. drain' \in [Clients -> Nat]
        BY <2>19, <4>1 DEF WriterTake
      <4>4. QED
        BY <2>19, <3>1, <4>1, <4>2, <4>3 DEF WriterTake, QueueOK, GotOK
    <3>2. CASE send[c] = <<>>
      BY <2>19, <3>2 DEF WriterTake
    <3>3. QED
      BY <3>1, <3>2
  <2>20. ASSUME NEW c \in Clients, WriterDrain(c) PROVE TypeInv'
    <3>1. drain \in [Clients -> Nat] /\ drain[c] - 1 \in Nat
      BY <2>20 DEF WriterDrain
    <3>2. drain' \in [Clients -> Nat]
      BY <2>20, <3>1 DEF WriterDrain
    <3>3. CASE send[c] # <<>>
      <4>1. QueueOK' /\ Head(send[c]) \in Nat
        BY <2>20, <3>3, PopQueue DEF WriterDrain
      <4>2. GotOK'
        BY <2>20, <3>3, <4>1, WrittenGot DEF WriterDrain
      <4>3. QED
        BY <2>20, <3>2, <4>1, <4>2 DEF WriterDrain, QueueOK, GotOK
    <3>4. CASE send[c] = <<>>
      BY <2>20, <3>2, <3>4 DEF WriterDrain
    <3>5. QED
      BY <3>3, <3>4
  <2>21. ASSUME NEW c \in Clients, WriterFlush(c) PROVE TypeInv'
    BY <2>21 DEF WriterFlush
  <2>22. ASSUME NEW c \in Clients, WriterFail(c) PROVE TypeInv'
    <3>1. CASE send[c] # <<>> /\ Pop(c)
      <4>1. QueueOK'
        BY <2>22, <3>1, PopQueue
      <4>2. QED
        BY <2>22, <4>1 DEF WriterFail, WriterExit, QueueOK
    <3>2. CASE UNCHANGED send
      BY <2>22, <3>2 DEF WriterFail, WriterExit
    <3>3. QED
      BY <2>22, <3>1, <3>2 DEF WriterFail
  <2>23. ASSUME NEW c \in Clients, WriterClosed(c) PROVE TypeInv'
    BY <2>23 DEF WriterClosed, WriterExit
  <2>24. ASSUME NEW c \in Clients, NEW r \in Rooms, Join(c, r) PROVE TypeInv'
    <3>1. rooms' \in [Rooms -> SUBSET Clients]
      BY <2>24 DEF Join, AddToRoom
    <3>2. myRooms' \in [Clients -> SUBSET Rooms]
      BY <2>24 DEF Join, AddToRoom
    <3>3. QED
      BY <2>24, <3>1, <3>2 DEF Join
  <2>25. ASSUME NEW c \in Clients, NEW r \in Rooms, Leave(c, r) PROVE TypeInv'
    <3>1. rooms' \in [Rooms -> SUBSET Clients]
      BY <2>25 DEF Leave, RemoveFromRoom
    <3>2. myRooms' \in [Clients -> SUBSET Rooms]
      BY <2>25 DEF Leave, RemoveFromRoom
    <3>3. QED
      BY <2>25, <3>1, <3>2 DEF Leave
  <2>26. ASSUME NEW c \in Clients, NEW r \in Rooms, ReadRoomEmit(c, r) PROVE TypeInv'
    <3> HIDE DEF TypeInv
    <3>1. QED
      BY <2>26, EmissionType DEF ReadRoomEmit
  <2>27. ASSUME NEW r \in Rooms, BeginRoomEmit(r) PROVE TypeInv'
    <3>1. pending' \in [Rooms -> Nat]
      BY <2>27 DEF BeginRoomEmit
    <3>2. /\ emitRoom' \in Rooms \cup {None} /\ etodo' \subseteq Clients
          /\ emsg' \in Nat /\ seqno' \in Nat /\ mu' \in {"free", "Lock"}
      BY <2>27 DEF BeginRoomEmit
    <3>3. UNCHANGED <<hubVars, mapVars, chanVars, pumpVars, epc, dead, issued, crash>>
      BY <2>27 DEF BeginRoomEmit
    <3>4. QED
      BY <3>1, <3>2, <3>3
  <2>28. ASSUME NEW e \in Emitters, EmitBroadcast(e) PROVE TypeInv'
    BY <2>28 DEF EmitBroadcast, Spend
  <2>29. ASSUME NEW e \in Emitters, AcceptFromEmitter(e) PROVE TypeInv'
    BY <2>29 DEF AcceptFromEmitter, AcceptBroadcast
  <2>30. ASSUME NEW e \in Emitters, ChangeTimeout(e) PROVE TypeInv'
    BY <2>30 DEF ChangeTimeout
  <2>31. ASSUME NEW s \in Scripts, NEW r \in Rooms, ScriptRoomEmit(s, r) PROVE TypeInv'
    <3> HIDE DEF TypeInv
    <3>1. QED
      BY <2>31, EmissionType DEF ScriptRoomEmit
  <2>32. CASE UNCHANGED vars
    BY <2>32 DEF vars
  <2>33. QED
    BY <2>1, <2>2, <2>3, <2>4, <2>5, <2>6, <2>7, <2>8, <2>9, <2>10, <2>11,
       <2>12, <2>13, <2>14, <2>15, <2>16, <2>17, <2>18, <2>19, <2>20, <2>21,
       <2>22, <2>23, <2>24, <2>25, <2>26, <2>27, <2>28, <2>29, <2>30, <2>31,
       <2>32
       DEF Next, HubStep, RoomEmitStep, EmitterStep, ReaderStep, WriterStep

(* Every variable keeps its type, and no queue exceeds its capacity. *)
THEOREM TypeCorrect == Spec => []TypeOK
  <1>1. TypeInv => TypeOK
    BY DEF TypeInv
  <1>2. QED
    BY <1>1, InitType, NextType, PTL DEF Spec

---------------------------------------------------------------------------
(* What the pumps and the emitters leave alone *)

LEMMA WriterFrame ==
    ASSUME NEW c \in Clients, WriterStep(c)
    PROVE  UNCHANGED <<hubVars, mapVars, closed, emitVars, roomEmit, mu,
                       issued, seqno, crash>>
  BY DEF WriterStep, WriterTake, WriterDrain, WriterFlush, WriterFail,
         WriterClosed, WriterExit

LEMMA EmitterFrame ==
    ASSUME EmitterStep
    PROVE  /\ UNCHANGED <<hclient, htodo, hmsg, mapVars, chanVars, pumpVars,
                          roomEmit, mu, seqno, crash>>
           /\ hpc' = hpc \/ (hpc = "select" /\ hpc' = "rlock")
  BY DEF EmitterStep, EmitBroadcast, AcceptFromEmitter, AcceptBroadcast,
         ChangeTimeout, ScriptRoomEmit, EmitToRoom, Spend

LEMMA ReaderFrame ==
    ASSUME NEW c \in Clients, ReaderStep(c)
    PROVE  /\ UNCHANGED <<clients, closed, mu, roomEmit, htodo, hmsg, got, seqno>>
           /\ \/ UNCHANGED <<hpc, hclient>>
              \/ hpc = "select" /\ hpc' \in {"add", "drop", "rlock"}
           /\ crash' \in {crash, "reader"}
           /\ \/ UNCHANGED <<rooms, myRooms>>
              \/ mu = "free" /\ \E r \in Rooms : AddToRoom(c, r)
              \/ mu = "free" /\ \E r \in Rooms : RemoveFromRoom(c, r)
           /\ \/ UNCHANGED send
              \/ Put(c, Direct) /\ ~closed[c]
  <1>1. ASSUME NEW r \in Rooms, Join(c, r) \/ Leave(c, r) \/ ReadRoomEmit(c, r)
        PROVE  /\ UNCHANGED <<hpc, hclient, clients, closed, mu, roomEmit, htodo,
                              hmsg, got, send, seqno, crash>>
               /\ \/ UNCHANGED <<rooms, myRooms>>
                  \/ mu = "free" /\ AddToRoom(c, r)
                  \/ mu = "free" /\ RemoveFromRoom(c, r)
    BY <1>1 DEF Join, Leave, ReadRoomEmit, EmitToRoom
  <1>2. QED
    BY <1>1 DEF ReaderStep, Upgrade, AcceptRegister, AcceptUnregister,
         AcceptFromReader, AcceptBroadcast, ReadRequest, Reply, Panic,
         ReadBroadcast, ReadError

---------------------------------------------------------------------------
(* The lock, the registered clients and the rooms *)

(* The broadcast loop has still to visit registered clients only. *)
LoopInv == hpc = "broadcast" => htodo \subseteq clients

(* A room emission starts with no client marked dead. *)
DeadInv == emitRoom = None => dead = {}

SafeInv ==
    /\ LockInv
    /\ OpenWhileRegistered /\ LoopInv /\ HubLoopNeverPanics
    /\ RoomsMirrored /\ EmitsToMembers /\ DeadInv

LEMMA InitSafe == Init => SafeInv
  BY HubAssumption DEF Init, SafeInv, LockInv, OpenWhileRegistered, LoopInv,
     HubLoopNeverPanics, RoomsMirrored, EmitsToMembers, DeadInv

LEMMA NextLock == TypeInv /\ LockInv /\ [Next]_vars => LockInv'
  <1> SUFFICES ASSUME TypeInv, LockInv, [Next]_vars PROVE LockInv'
    OBVIOUS
  <1> USE DEF LockInv
  <1>1. ASSUME HubStep PROVE LockInv'
    BY <1>1 DEF HubStep, AddClient, SendConnect, DropClient, BeginBroadcast,
       StartLoop, EndBroadcast, LeaveLoop, BroadcastTo, Panic
  <1>2. ASSUME RoomEmitStep PROVE LockInv'
    <2>1. ASSUME NEW r \in Rooms, BeginRoomEmit(r) PROVE LockInv'
      BY <2>1, HubAssumption DEF BeginRoomEmit
    <2>2. ASSUME NEW c \in Clients, RoomEmitTo(c) \/ ReapDead(c) PROVE LockInv'
      BY <2>2 DEF RoomEmitTo, ReapDead, Panic
    <2>3. ASSUME EndRoomEmit PROVE LockInv'
      BY <2>3 DEF EndRoomEmit
    <2>4. QED
      BY <1>2, <2>1, <2>2, <2>3 DEF RoomEmitStep
  <1>3. ASSUME EmitterStep PROVE LockInv'
    BY <1>3, EmitterFrame
  <1>4. ASSUME Cleanup PROVE LockInv'
    BY <1>4 DEF Cleanup, RemoveTakenForDead
  <1>5. ASSUME NEW c \in Clients, ReaderStep(c) PROVE LockInv'
    BY <1>5, ReaderFrame
  <1>6. ASSUME NEW c \in Clients, WriterStep(c) PROVE LockInv'
    BY <1>6, WriterFrame
  <1>7. CASE UNCHANGED vars
    BY <1>7 DEF vars
  <1>8. QED
    BY <1>1, <1>2, <1>3, <1>4, <1>5, <1>6, <1>7 DEF Next

LEMMA NextOpen ==
    TypeInv /\ SafeInv /\ [Next]_vars =>
        OpenWhileRegistered' /\ LoopInv' /\ HubLoopNeverPanics'
  <1> DEFINE Open == OpenWhileRegistered /\ LoopInv /\ HubLoopNeverPanics
  <1> SUFFICES ASSUME TypeInv, SafeInv, [Next]_vars PROVE Open'
    OBVIOUS
  <1> USE DEF SafeInv, LockInv, OpenWhileRegistered, LoopInv, HubLoopNeverPanics
  <1>0. closed \in [Clients -> BOOLEAN] /\ clients \subseteq Clients
    BY DEF TypeInv, TypeOK
  <1>1. ASSUME HubStep PROVE Open'
    <2>1. ASSUME AddClient PROVE Open'
      BY <2>1 DEF AddClient
    <2>2. ASSUME SendConnect PROVE Open'
      BY <2>2 DEF SendConnect, Panic
    <2>3. ASSUME DropClient PROVE Open'
      BY <2>3, <1>0 DEF DropClient
    <2>4. ASSUME BeginBroadcast \/ EndBroadcast PROVE Open'
      BY <2>4 DEF BeginBroadcast, StartLoop, EndBroadcast, LeaveLoop
    <2>5. ASSUME NEW c \in Clients, BroadcastTo(c) PROVE Open'
      <3>1. c \in clients /\ ~closed[c]
        BY <2>5 DEF BroadcastTo
      <3>2. QED
        BY <2>5, <3>1, <1>0 DEF BroadcastTo, DropFull
    <2>6. QED
      BY <1>1, <2>1, <2>2, <2>3, <2>4, <2>5 DEF HubStep
  <1>2. ASSUME RoomEmitStep PROVE Open'
    <2>1. ASSUME NEW r \in Rooms, BeginRoomEmit(r) PROVE Open'
      BY <2>1 DEF BeginRoomEmit
    <2>2. ASSUME NEW c \in Clients, RoomEmitTo(c) PROVE Open'
      BY <2>2 DEF RoomEmitTo, Panic
    <2>3. ASSUME NEW c \in Clients, ReapDead(c) PROVE Open'
      BY <2>3, <1>0 DEF ReapDead, Forget
    <2>4. ASSUME EndRoomEmit PROVE Open'
      BY <2>4 DEF EndRoomEmit
    <2>5. QED
      BY <1>2, <2>1, <2>2, <2>3, <2>4 DEF RoomEmitStep
  <1>3. ASSUME EmitterStep PROVE Open'
    BY <1>3, EmitterFrame
  <1>4. ASSUME Cleanup PROVE Open'
    BY <1>4 DEF Cleanup, RemoveTakenForDead
  <1>5. ASSUME NEW c \in Clients, ReaderStep(c) PROVE Open'
    BY <1>5, ReaderFrame
  <1>6. ASSUME NEW c \in Clients, WriterStep(c) PROVE Open'
    BY <1>6, WriterFrame
  <1>7. CASE UNCHANGED vars
    BY <1>7 DEF vars
  <1>8. QED
    BY <1>1, <1>2, <1>3, <1>4, <1>5, <1>6, <1>7 DEF Next

LEMMA NextRooms ==
    TypeInv /\ SafeInv /\ [Next]_vars =>
        RoomsMirrored' /\ EmitsToMembers' /\ DeadInv'
  <1> DEFINE Kept == RoomsMirrored /\ EmitsToMembers /\ DeadInv
  <1> SUFFICES ASSUME TypeInv, SafeInv, [Next]_vars PROVE Kept'
    OBVIOUS
  <1> USE DEF SafeInv, LockInv, RoomsMirrored, EmitsToMembers, DeadInv
  <1>0. /\ rooms \in [Rooms -> SUBSET Clients] /\ myRooms \in [Clients -> SUBSET Rooms]
        /\ emitRoom \in Rooms \cup {None} /\ None \notin Rooms
    BY HubAssumption DEF TypeInv, TypeOK
  <1>1. ASSUME HubStep PROVE Kept'
    BY <1>1 DEF HubStep, AddClient, SendConnect, DropClient, BeginBroadcast,
       StartLoop, EndBroadcast, LeaveLoop, BroadcastTo, DropFull, Panic
  <1>2. ASSUME RoomEmitStep PROVE Kept'
    <2>1. ASSUME NEW r \in Rooms, BeginRoomEmit(r) PROVE Kept'
      BY <2>1, <1>0 DEF BeginRoomEmit
    <2>2. ASSUME NEW c \in Clients, RoomEmitTo(c) PROVE Kept'
      BY <2>2, <1>0 DEF RoomEmitTo, Panic
    <2>3. ASSUME NEW c \in Clients, ReapDead(c) PROVE Kept'
      BY <2>3, <1>0 DEF ReapDead, RemoveFromRoom
    <2>4. ASSUME EndRoomEmit PROVE Kept'
      BY <2>4 DEF EndRoomEmit
    <2>5. QED
      BY <1>2, <2>1, <2>2, <2>3, <2>4 DEF RoomEmitStep
  <1>3. ASSUME EmitterStep PROVE Kept'
    BY <1>3, EmitterFrame
  <1>4. ASSUME Cleanup PROVE Kept'
    BY <1>4, <1>0 DEF Cleanup, RemoveTakenForDead
  <1>5. ASSUME NEW c \in Clients, ReaderStep(c) PROVE Kept'
    <2>1. CASE UNCHANGED <<rooms, myRooms>>
      BY <1>5, <2>1, ReaderFrame
    <2>2. ASSUME mu = "free", NEW r \in Rooms, AddToRoom(c, r) \/ RemoveFromRoom(c, r)
          PROVE  Kept'
      BY <1>5, <2>2, <1>0, ReaderFrame DEF AddToRoom, RemoveFromRoom
    <2>3. QED
      BY <1>5, <2>1, <2>2, ReaderFrame
  <1>6. ASSUME NEW c \in Clients, WriterStep(c) PROVE Kept'
    BY <1>6, WriterFrame
  <1>7. CASE UNCHANGED vars
    BY <1>7 DEF vars
  <1>8. QED
    BY <1>1, <1>2, <1>3, <1>4, <1>5, <1>6, <1>7 DEF Next

LEMMA Safety == Spec => [](TypeInv /\ SafeInv)
  <1>1. TypeInv /\ SafeInv /\ [Next]_vars => SafeInv'
    BY NextLock, NextOpen, NextRooms DEF SafeInv
  <1>2. QED
    BY <1>1, InitType, NextType, InitSafe, PTL DEF Spec

(* The maps and the channels are never changed by two goroutines at a time: *)
(* h.mu is held as the code means it to be in every reachable state.        *)
THEOREM Locking == Spec => []LockInv
  <1>1. SafeInv => LockInv
    BY DEF SafeInv
  <1>2. QED
    BY <1>1, Safety, PTL

(* A registered client has an open Send channel, but for the one whose      *)
(* connect message is due.                                                  *)
THEOREM RegisteredOpen == Spec => []OpenWhileRegistered
  <1>1. SafeInv => OpenWhileRegistered
    BY DEF SafeInv
  <1>2. QED
    BY <1>1, Safety, PTL

(* Neither the broadcast loop nor unregister ever panics. *)
THEOREM LoopNeverPanics == Spec => []HubLoopNeverPanics
  <1>1. SafeInv => HubLoopNeverPanics
    BY DEF SafeInv
  <1>2. QED
    BY <1>1, Safety, PTL

(* h.rooms lists a client only in rooms that client.Rooms has. *)
THEOREM RoomMembership == Spec => []RoomsMirrored
  <1>1. SafeInv => RoomsMirrored
    BY DEF SafeInv
  <1>2. QED
    BY <1>1, Safety, PTL

(* A room emission visits and reaps members of its room only. *)
THEOREM EmissionMembers == Spec => []EmitsToMembers
  <1>1. SafeInv => EmitsToMembers
    BY DEF SafeInv
  <1>2. QED
    BY <1>1, Safety, PTL

---------------------------------------------------------------------------
(* The order of the multicasts.  g is what a connection has been written,   *)
(* q is what its queue still holds, Direct messages have no place in the    *)
(* order.                                                                   *)

Ordered(g, q) ==
    /\ \A i, j \in 1..Len(g) : i < j => g[i] < g[j]
    /\ \A i, j \in 1..Len(q) :
          i < j /\ q[i] # Direct /\ q[j] # Direct => q[i] < q[j]
    /\ \A i \in 1..Len(g), j \in 1..Len(q) : q[j] # Direct => g[i] < q[j]

Below(g, q, m) ==
    /\ \A i \in 1..Len(g) : g[i] < m
    /\ \A j \in 1..Len(q) : q[j] < m

(* Queueing a message that every earlier one precedes, or a direct one. *)
LEMMA OrderedAppend ==
    ASSUME NEW g \in Seq(Nat), NEW q \in Seq(Nat), NEW m \in Nat,
           Ordered(g, q), m = Direct \/ Below(g, q, m)
    PROVE  /\ Ordered(g, Append(q, m))
           /\ \A k \in Nat : Below(g, q, k) /\ m < k => Below(g, Append(q, m), k)
  <1>1. /\ Append(q, m) \in Seq(Nat)
        /\ Len(Append(q, m)) = Len(q) + 1
        /\ \A j \in 1..Len(q) : Append(q, m)[j] = q[j]
        /\ Append(q, m)[Len(q) + 1] = m
    OBVIOUS
  <1>2. \A j \in 1..(Len(q) + 1) : j \in 1..Len(q) \/ j = Len(q) + 1
    OBVIOUS
  <1>3. /\ \A j \in 1..Len(q) : q[j] \in Nat
        /\ \A i \in 1..Len(g) : g[i] \in Nat
        /\ Len(q) \in Nat /\ Len(g) \in Nat
    OBVIOUS
  <1> DEFINE a == Append(q, m)
  <1> HIDE DEF a
  <1>4. /\ Len(a) = Len(q) + 1 /\ a[Len(q) + 1] = m
        /\ \A j \in 1..Len(q) : a[j] = q[j]
    BY <1>1 DEF a
  <1>5. \A i, j \in 1..Len(a) : i < j /\ a[i] # Direct /\ a[j] # Direct => a[i] < a[j]
    <2> SUFFICES ASSUME NEW i \in 1..Len(a), NEW j \in 1..Len(a), i < j,
                        a[i] # Direct, a[j] # Direct
                 PROVE  a[i] < a[j]
      OBVIOUS
    <2>1. i \in 1..Len(q)
      BY <1>3, <1>4
    <2>2. CASE j \in 1..Len(q)
      BY <1>4, <2>1, <2>2 DEF Ordered
    <2>3. CASE j = Len(q) + 1
      BY <1>4, <2>1, <2>3 DEF Below
    <2>4. QED
      BY <1>2, <1>4, <2>2, <2>3
  <1>6. \A i \in 1..Len(g), j \in 1..Len(a) : a[j] # Direct => g[i] < a[j]
    <2> SUFFICES ASSUME NEW i \in 1..Len(g), NEW j \in 1..Len(a), a[j] # Direct
                 PROVE  g[i] < a[j]
      OBVIOUS
    <2>1. CASE j \in 1..Len(q)
      BY <1>4, <2>1 DEF Ordered
    <2>2. CASE j = Len(q) + 1
      BY <1>4, <2>2 DEF Below
    <2>3. QED
      BY <1>2, <1>4, <2>1, <2>2
  <1>7. Ordered(g, a)
    BY <1>5, <1>6 DEF Ordered
  <1>8. ASSUME NEW k \in Nat, Below(g, q, k), m < k PROVE Below(g, a, k)
    BY <1>2, <1>4, <1>8 DEF Below
  <1>9. QED
    BY <1>7, <1>8 DEF a

LEMMA TailIndices ==
    ASSUME NEW q \in Seq(Nat), q # <<>>
    PROVE  /\ Tail(q) \in Seq(Nat) /\ Len(Tail(q)) = Len(q) - 1
           /\ \A j \in 1..Len(Tail(q)) : j + 1 \in 1..Len(q) /\ Tail(q)[j] = q[j + 1]
           /\ Head(q) = q[1] /\ 1 \in 1..Len(q) /\ Head(q) \in Nat
  OBVIOUS

(* Receiving from the queue, whatever becomes of the message. *)
LEMMA OrderedTail ==
    ASSUME NEW g \in Seq(Nat), NEW q \in Seq(Nat), q # <<>>, Ordered(g, q)
    PROVE  /\ Ordered(g, Tail(q))
           /\ \A k \in Nat : Below(g, q, k) => Below(g, Tail(q), k)
  <1> DEFINE t == Tail(q)
  <1>1. /\ t \in Seq(Nat)
        /\ \A j \in 1..Len(t) : j \in Nat /\ j + 1 \in 1..Len(q) /\ t[j] = q[j + 1]
    BY TailIndices
  <1> HIDE DEF t
  <1>2. \A i, j \in 1..Len(t) : i < j /\ t[i] # Direct /\ t[j] # Direct => t[i] < t[j]
    <2> SUFFICES ASSUME NEW i \in 1..Len(t), NEW j \in 1..Len(t), i < j,
                        t[i] # Direct, t[j] # Direct
                 PROVE  t[i] < t[j]
      OBVIOUS
    <2>1. i + 1 < j + 1
      BY <1>1
    <2>2. QED
      BY <1>1, <2>1 DEF Ordered
  <1>3. \A i \in 1..Len(g), j \in 1..Len(t) : t[j] # Direct => g[i] < t[j]
    BY <1>1 DEF Ordered
  <1>4. Ordered(g, t)
    BY <1>2, <1>3 DEF Ordered
  <1>5. ASSUME NEW k \in Nat, Below(g, q, k) PROVE Below(g, t, k)
    BY <1>1, <1>5 DEF Below
  <1>6. QED
    BY <1>4, <1>5 DEF t

(* Writing the head of the queue to the socket. *)
LEMMA OrderedWrite ==
    ASSUME NEW g \in Seq(Nat), NEW q \in Seq(Nat), q # <<>>, Head(q) # Direct,
           Ordered(g, q)
    PROVE  /\ Ordered(Append(g, Head(q)), Tail(q))
           /\ \A k \in Nat : Below(g, q, k) => Below(Append(g, Head(q)), Tail(q), k)
  <1> DEFINE t == Tail(q)
             h == Head(q)
             a == Append(g, h)
  <1>1. /\ t \in Seq(Nat)
        /\ \A j \in 1..Len(t) : j \in Nat /\ j + 1 \in 1..Len(q) /\ 1 < j + 1
                                /\ t[j] = q[j + 1]
        /\ h = q[1] /\ 1 \in 1..Len(q) /\ h \in Nat
    BY TailIndices
  <1>2. /\ a \in Seq(Nat) /\ Len(a) = Len(g) + 1 /\ a[Len(g) + 1] = h
        /\ \A i \in 1..Len(g) : a[i] = g[i]
    BY <1>1
  <1>3. \A i \in 1..(Len(g) + 1) : i \in 1..Len(g) \/ i = Len(g) + 1
    OBVIOUS
  <1>4. Ordered(g, t) /\ \A k \in Nat : Below(g, q, k) => Below(g, t, k)
    BY OrderedTail
  <1>5. /\ h # Direct
        /\ Len(g) \in Nat
        /\ \A i \in 1..Len(g) : g[i] < h
    BY <1>1 DEF Ordered
  <1> HIDE DEF t, h, a
  <1>6. \A i, j \in 1..Len(a) : i < j => a[i] < a[j]
    <2> SUFFICES ASSUME NEW i \in 1..Len(a), NEW j \in 1..Len(a), i < j
                 PROVE  a[i] < a[j]
      OBVIOUS
    <2>1. i \in 1..Len(g)
      BY <1>2, <1>5
    <2>2. CASE j \in 1..Len(g)
      BY <1>2, <1>4, <2>1, <2>2 DEF Ordered
    <2>3. CASE j = Len(g) + 1
      BY <1>2, <1>5, <2>1, <2>3
    <2>4. QED
      BY <1>2, <1>3, <2>2, <2>3
  <1>7. ASSUME NEW j \in 1..Len(t), t[j] # Direct PROVE h < t[j]
    BY <1>1, <1>5, <1>7 DEF Ordered
  <1>8. \A i \in 1..Len(a), j \in 1..Len(t) : t[j] # Direct => a[i] < t[j]
    BY <1>2, <1>3, <1>4, <1>7 DEF Ordered
  <1>9. Ordered(a, t)
    BY <1>4, <1>6, <1>8 DEF Ordered
  <1>10. ASSUME NEW k \in Nat, Below(g, q, k) PROVE Below(a, t, k)
    <2>1. h < k /\ \A i \in 1..Len(g) : g[i] < k
      BY <1>1, <1>10 DEF Below
    <2>2. \A i \in 1..Len(a) : a[i] < k
      BY <1>2, <1>3, <2>1
    <2>3. QED
      BY <1>4, <1>10, <2>2 DEF Below
  <1>11. QED
    BY <1>9, <1>10 DEF a, t, h

(* What every step but a delivery does to a connection. *)
Keeps(g, q, g2, q2) ==
    \/ g2 = g /\ q2 = q
    \/ q # <<>> /\ g2 = g /\ q2 = Tail(q)
    \/ q # <<>> /\ Head(q) # Direct /\ g2 = Append(g, Head(q)) /\ q2 = Tail(q)
    \/ g2 = g /\ q2 = Append(q, Direct)

LEMMA KeepsOrder ==
    ASSUME NEW g \in Seq(Nat), NEW q \in Seq(Nat), NEW g2, NEW q2,
           Ordered(g, q), Keeps(g, q, g2, q2)
    PROVE  /\ Ordered(g2, q2)
           /\ \A k \in Nat : k > 0 /\ Below(g, q, k) => Below(g2, q2, k)
  <1>1. CASE g2 = g /\ q2 = q
    BY <1>1
  <1>2. CASE q # <<>> /\ g2 = g /\ q2 = Tail(q)
    BY <1>2, OrderedTail
  <1>3. CASE q # <<>> /\ Head(q) # Direct /\ g2 = Append(g, Head(q)) /\ q2 = Tail(q)
    BY <1>3, OrderedWrite
  <1>4. CASE g2 = g /\ q2 = Append(q, Direct)
    <2>1. /\ Ordered(g, Append(q, Direct))
          /\ \A k \in Nat : Below(g, q, k) /\ Direct < k => Below(g, Append(q, Direct), k)
      BY OrderedAppend DEF Direct
    <2>2. QED
      BY <1>4, <2>1 DEF Direct
  <1>5. QED
    BY <1>1, <1>2, <1>3, <1>4 DEF Keeps

KeepsAll == \A d \in Clients : Keeps(got[d], send[d], got'[d], send'[d])

(* What a step may do to the queues and the sockets: nothing, take up a     *)
(* multicast, queue a direct message, write the head of a queue to its      *)
(* socket, lose the heads of some queues, or deliver the multicast.         *)
Quiet == UNCHANGED <<send, got, seqno>>
Begins == UNCHANGED <<send, got>> /\ seqno' = seqno + 1
Answers(c) == Put(c, Direct) /\ UNCHANGED <<got, seqno>>
Writes(c) == /\ send[c] # <<>> /\ Pop(c) /\ Written(c, Head(send[c]))
             /\ UNCHANGED seqno
Loses(S) ==
    /\ \A c \in S : send[c] # <<>>
    /\ send' = [c \in Clients |-> IF c \in S THEN Tail(send[c]) ELSE send[c]]
    /\ UNCHANGED <<got, seqno>>
Delivers(c) ==
    /\ ~closed[c] /\ ~Full(c)
    /\ \/ BroadcastTo(c) /\ Put(c, hmsg)
       \/ RoomEmitTo(c) /\ Put(c, emsg)

Traffic ==
    \/ Quiet \/ Begins
    \/ \E c \in Clients : Answers(c) \/ Writes(c) \/ Delivers(c)
    \/ \E S \in SUBSET Clients : Loses(S)

LEMMA NextTraffic == TypeInv /\ [Next]_vars => Traffic
  <1> SUFFICES ASSUME TypeInv, [Next]_vars PROVE Traffic
    OBVIOUS
  <1>0. QueueOK /\ GotOK
    BY TypeQueues
  <1>1. ASSUME Quiet PROVE Traffic
    BY <1>1 DEF Traffic
  <1>2. ASSUME NEW c \in Clients, Answers(c) \/ Writes(c) \/ Delivers(c) PROVE Traffic
    BY <1>2 DEF Traffic
  <1>3. ASSUME NEW c \in Clients, send[c] # <<>>, Pop(c), UNCHANGED <<got, seqno>>
        PROVE  Traffic
    <2>1. send' = [d \in Clients |-> IF d \in {c} THEN Tail(send[d]) ELSE send[d]]
      BY <1>0, <1>3 DEF Pop, QueueOK
    <2>2. Loses({c})
      BY <1>3, <2>1 DEF Loses
    <2>3. QED
      BY <2>2 DEF Traffic
  <1>4. ASSUME HubStep PROVE Traffic
    <2>1. ASSUME AddClient \/ DropClient \/ EndBroadcast PROVE Traffic
      BY <1>1, <2>1 DEF AddClient, DropClient, EndBroadcast, LeaveLoop, Quiet
    <2>2. ASSUME BeginBroadcast PROVE Traffic
      BY <2>2 DEF BeginBroadcast, StartLoop, Traffic, Begins
    <2>3. ASSUME SendConnect PROVE Traffic
      <3>1. hclient \in Clients
        BY <2>3 DEF SendConnect, TypeInv, HandInv
      <3>2. Quiet \/ Answers(hclient)
        BY <2>3 DEF SendConnect, Panic, Quiet, Answers
      <3>3. QED
        BY <1>1, <1>2, <3>1, <3>2
    <2>4. ASSUME NEW c \in Clients, BroadcastTo(c) PROVE Traffic
      <3>1. Quiet \/ Delivers(c)
        BY <2>4 DEF BroadcastTo, DropFull, Panic, Quiet, Delivers
      <3>2. QED
        BY <1>1, <1>2, <3>1
    <2>5. QED
      BY <1>4, <2>1, <2>2, <2>3, <2>4 DEF HubStep
  <1>5. ASSUME RoomEmitStep PROVE Traffic
    <2>1. ASSUME EndRoomEmit PROVE Traffic
      BY <1>1, <2>1 DEF EndRoomEmit, Quiet
    <2>2. ASSUME NEW r \in Rooms, BeginRoomEmit(r) PROVE Traffic
      BY <2>2 DEF BeginRoomEmit, Traffic, Quiet, Begins
    <2>3. ASSUME NEW c \in Clients, RoomEmitTo(c) PROVE Traffic
      <3>1. Quiet \/ Delivers(c)
        BY <2>3 DEF RoomEmitTo, Panic, Quiet, Delivers
      <3>2. QED
        BY <1>1, <1>2, <3>1
    <2>4. ASSUME NEW c \in Clients, ReapDead(c) PROVE Traffic
      BY <1>1, <1>3, <2>4 DEF ReapDead, Quiet
    <2>5. QED
      BY <1>5, <2>1, <2>2, <2>3, <2>4 DEF RoomEmitStep
  <1>6. ASSUME EmitterStep PROVE Traffic
    BY <1>1, <1>6, EmitterFrame DEF Quiet
  <1>7. ASSUME Cleanup PROVE Traffic
    <2> DEFINE S == {c \in TakenForDead : send[c] # <<>>}
    <2>1. S \in SUBSET Clients
      BY DEF TakenForDead, TypeInv, TypeOK
    <2>2. Loses(S)
      BY <1>7 DEF Cleanup, RemoveTakenForDead, Loses
    <2>3. QED
      BY <2>1, <2>2 DEF Traffic
  <1>8. ASSUME NEW c \in Clients, ReaderStep(c) PROVE Traffic
    <2>1. Quiet \/ Answers(c)
      BY <1>8, ReaderFrame DEF Quiet, Answers
    <2>2. QED
      BY <1>1, <1>2, <2>1
  <1>9. ASSUME NEW c \in Clients, WriterStep(c) PROVE Traffic
    <2>1. ASSUME WriterTake(c) \/ WriterDrain(c) PROVE Traffic
      <3>1. Quiet \/ Writes(c)
        BY <2>1 DEF WriterTake, WriterDrain, Quiet, Writes
      <3>2. QED
        BY <1>1, <1>2, <3>1
    <2>2. ASSUME WriterFail(c) \/ WriterFlush(c) \/ WriterClosed(c) PROVE Traffic
      BY <1>1, <1>3, <2>2 DEF WriterFail, WriterExit, WriterFlush, WriterClosed, Quiet
    <2>3. QED
      BY <1>9, <2>1, <2>2 DEF WriterStep
  <1>10. CASE UNCHANGED vars
    BY <1>1, <1>10 DEF vars, Quiet
  <1>11. QED
    BY <1>4, <1>5, <1>6, <1>7, <1>8, <1>9, <1>10 DEF Next

(* Every step but a delivery keeps what the connections have and are to     *)
(* have in order.                                                           *)
LEMMA NextKeeps ==
    TypeInv /\ [Next]_vars => KeepsAll \/ \E c \in Clients : Delivers(c)
  <1> SUFFICES ASSUME TypeInv, [Next]_vars, ~ \E c \in Clients : Delivers(c)
               PROVE  KeepsAll
    OBVIOUS
  <1>0. QueueOK /\ GotOK
    BY TypeQueues
  <1>1. ASSUME Quiet \/ Begins PROVE KeepsAll
    BY <1>1 DEF KeepsAll, Keeps, Quiet, Begins
  <1>2. ASSUME NEW c \in Clients, Answers(c) PROVE KeepsAll
    BY <1>0, <1>2 DEF KeepsAll, Keeps, Answers, Put, QueueOK
  <1>3. ASSUME NEW c \in Clients, Writes(c) PROVE KeepsAll
    BY <1>0, <1>3 DEF KeepsAll, Keeps, Writes, Pop, Written, QueueOK, GotOK
  <1>4. ASSUME NEW S \in SUBSET Clients, Loses(S) PROVE KeepsAll
    BY <1>0, <1>4 DEF KeepsAll, Keeps, Loses, QueueOK
  <1>5. QED
    BY <1>1, <1>2, <1>3, <1>4, NextTraffic DEF Traffic

(* What a connection has, or is to have, precedes the multicast that is     *)
(* about to reach it; the latest multicast is the one being delivered.      *)
OrderInv ==
    /\ \A c \in Clients : /\ Ordered(got[c], send[c])
                          /\ Below(got[c], send[c], seqno + 1)
    /\ hpc = "broadcast" =>
          /\ hmsg = seqno /\ seqno > 0
          /\ \A c \in htodo : Below(got[c], send[c], seqno)
    /\ emitRoom # None =>
          /\ emsg = seqno /\ seqno > 0
          /\ \A c \in etodo : Below(got[c], send[c], seqno)

LEMMA InitOrder == Init => OrderInv
  BY DEF Init, OrderInv, Ordered, Below

(* No new multicast is taken up, and the loops have no more left to do. *)
Still ==
    /\ UNCHANGED seqno
    /\ hpc' = "broadcast" => hpc = "broadcast" /\ hmsg' = hmsg /\ htodo' \subseteq htodo
    /\ emitRoom' # None => emitRoom # None /\ emsg' = emsg /\ etodo' \subseteq etodo

LEMMA LoopFrame ==
    TypeInv /\ [Next]_vars =>
        \/ BeginBroadcast
        \/ \E r \in Rooms : BeginRoomEmit(r) /\ rooms[r] # {}
        \/ Still
  <1> SUFFICES ASSUME TypeInv, [Next]_vars, ~BeginBroadcast,
                      ~ \E r \in Rooms : BeginRoomEmit(r) /\ rooms[r] # {}
               PROVE  Still
    OBVIOUS
  <1> USE DEF Still
  <1>1. ASSUME HubStep PROVE Still
    BY <1>1 DEF HubStep, AddClient, SendConnect, DropClient, EndBroadcast,
       LeaveLoop, BroadcastTo, Panic
  <1>2. ASSUME RoomEmitStep PROVE Still
    BY <1>2 DEF RoomEmitStep, BeginRoomEmit, RoomEmitTo, ReapDead, EndRoomEmit,
       Panic
  <1>3. ASSUME EmitterStep PROVE Still
    BY <1>3, EmitterFrame
  <1>4. ASSUME Cleanup PROVE Still
    BY <1>4 DEF Cleanup, RemoveTakenForDead
  <1>5. ASSUME NEW c \in Clients, ReaderStep(c) PROVE Still
    BY <1>5, ReaderFrame
  <1>6. ASSUME NEW c \in Clients, WriterStep(c) PROVE Still
    BY <1>6, WriterFrame
  <1>7. CASE UNCHANGED vars
    BY <1>7 DEF vars
  <1>8. QED
    BY <1>1, <1>2, <1>3, <1>4, <1>5, <1>6, <1>7 DEF Next

LEMMA BelowNext ==
    ASSUME NEW g \in Seq(Nat), NEW q \in Seq(Nat), NEW k \in Nat, Below(g, q, k)
    PROVE  Below(g, q, k + 1)
  <1>1. /\ \A i \in 1..Len(g) : g[i] \in Nat
        /\ \A i \in 1..Len(q) : q[i] \in Nat
    OBVIOUS
  <1>2. QED
    BY <1>1 DEF Below

(* A delivery: the one client it reaches gets the latest multicast. *)
LEMMA Deliver ==
    ASSUME TypeInv, OrderInv, NEW c \in Clients, Below(got[c], send[c], seqno),
           seqno > 0, Put(c, seqno), UNCHANGED <<got, seqno>>
    PROVE  /\ \A d \in Clients : /\ Ordered(got'[d], send'[d])
                                 /\ Below(got'[d], send'[d], seqno' + 1)
           /\ \A d \in Clients \ {c} : send'[d] = send[d]
  <1>1. /\ got \in [Clients -> Seq(Nat)] /\ send \in [Clients -> Seq(Nat)]
        /\ seqno \in Nat
    BY DEF TypeInv, TypeOK
  <1>2. send'[c] = Append(send[c], seqno) /\ \A d \in Clients \ {c} : send'[d] = send[d]
    BY <1>1 DEF Put
  <1>3. /\ Ordered(got[c], send[c])
        /\ got[c] \in Seq(Nat) /\ send[c] \in Seq(Nat)
        /\ Below(got[c], send[c], seqno + 1)
    BY <1>1 DEF OrderInv
  <1>4. /\ Ordered(got[c], Append(send[c], seqno))
        /\ \A k \in Nat : Below(got[c], send[c], k) /\ seqno < k
                          => Below(got[c], Append(send[c], seqno), k)
    BY <1>1, <1>3, OrderedAppend
  <1>5. Below(got[c], Append(send[c], seqno), seqno + 1)
    BY <1>1, <1>3, <1>4
  <1>6. QED
    BY <1>2, <1>4, <1>5 DEF OrderInv

LEMMA NextOrder == TypeInv /\ SafeInv /\ OrderInv /\ [Next]_vars => OrderInv'
  <1> SUFFICES ASSUME TypeInv, SafeInv, OrderInv, [Next]_vars PROVE OrderInv'
    OBVIOUS
  <1>0. /\ got \in [Clients -> Seq(Nat)] /\ send \in [Clients -> Seq(Nat)]
        /\ seqno \in Nat
        /\ clients \subseteq Clients /\ htodo \subseteq Clients /\ etodo \subseteq Clients
        /\ rooms \in [Rooms -> SUBSET Clients]
        /\ LockInv
    BY DEF TypeInv, TypeOK, SafeInv
  <1>1. ASSUME NEW c \in Clients, ~closed[c], ~Full(c), BroadcastTo(c), Put(c, hmsg)
        PROVE  OrderInv'
    <2>1. /\ hmsg = seqno /\ seqno > 0 /\ Below(got[c], send[c], seqno)
          /\ emitRoom = None
      BY <1>0, <1>1 DEF BroadcastTo, OrderInv, LockInv
    <2>2. /\ UNCHANGED <<got, seqno, hpc, hmsg, emitRoom>>
          /\ htodo' = htodo \ {c}
      BY <1>1 DEF BroadcastTo
    <2>3. /\ \A d \in Clients : /\ Ordered(got'[d], send'[d])
                                /\ Below(got'[d], send'[d], seqno' + 1)
          /\ \A d \in Clients \ {c} : send'[d] = send[d]
      BY <1>1, <2>1, <2>2, Deliver
    <2>4. QED
      BY <1>0, <2>1, <2>2, <2>3 DEF OrderInv
  <1>2. ASSUME NEW c \in Clients, ~closed[c], ~Full(c), RoomEmitTo(c), Put(c, emsg)
        PROVE  OrderInv'
    <2>1. /\ emsg = seqno /\ seqno > 0 /\ Below(got[c], send[c], seqno)
          /\ hpc # "broadcast"
      BY <1>0, <1>2 DEF RoomEmitTo, OrderInv, LockInv
    <2>2. /\ UNCHANGED <<got, seqno, hpc, emitRoom, emsg>>
          /\ etodo' = etodo \ {c}
      BY <1>2 DEF RoomEmitTo
    <2>3. /\ \A d \in Clients : /\ Ordered(got'[d], send'[d])
                                /\ Below(got'[d], send'[d], seqno' + 1)
          /\ \A d \in Clients \ {c} : send'[d] = send[d]
      BY <1>2, <2>1, <2>2, Deliver
    <2>4. QED
      BY <1>0, <2>1, <2>2, <2>3 DEF OrderInv
  <1>3. ASSUME BeginBroadcast PROVE OrderInv'
    <2>1. /\ UNCHANGED <<got, send, emitRoom>> /\ emitRoom = None
          /\ seqno' = seqno + 1 /\ hmsg' = seqno' /\ htodo' = clients
      BY <1>0, <1>3 DEF BeginBroadcast, StartLoop, LockInv
    <2>2. \A c \in Clients : Below(got[c], send[c], seqno' + 1)
      BY <1>0, <2>1, BelowNext DEF OrderInv
    <2>3. QED
      BY <1>0, <2>1, <2>2 DEF OrderInv
  <1>4. ASSUME NEW r \in Rooms, BeginRoomEmit(r), rooms[r] # {} PROVE OrderInv'
    <2>1. /\ UNCHANGED <<got, send, hpc>> /\ hpc # "broadcast"
          /\ seqno' = seqno + 1 /\ emsg' = seqno' /\ etodo' = rooms[r]
          /\ etodo' \subseteq Clients
      BY <1>0, <1>4 DEF BeginRoomEmit, LockInv
    <2>2. \A c \in Clients : Below(got[c], send[c], seqno' + 1)
      BY <1>0, <2>1, BelowNext DEF OrderInv
    <2>3. QED
      BY <1>0, <2>1, <2>2 DEF OrderInv
  <1>5. ASSUME KeepsAll, Still PROVE OrderInv'
    <2>1. ASSUME NEW c \in Clients
          PROVE  /\ Ordered(got'[c], send'[c])
                 /\ \A k \in Nat : k > 0 /\ Below(got[c], send[c], k)
                                   => Below(got'[c], send'[c], k)
      <3>1. /\ got[c] \in Seq(Nat) /\ send[c] \in Seq(Nat)
            /\ Ordered(got[c], send[c])
            /\ Keeps(got[c], send[c], got'[c], send'[c])
        BY <1>0, <1>5 DEF OrderInv, KeepsAll
      <3>2. QED
        BY <3>1, KeepsOrder
    <2>2. /\ seqno' = seqno
          /\ \A c \in Clients : Below(got'[c], send'[c], seqno + 1)
      BY <1>0, <1>5, <2>1 DEF OrderInv, Still
    <2>3. ASSUME hpc' = "broadcast"
          PROVE  /\ hmsg' = seqno /\ seqno > 0
                 /\ \A c \in htodo' : Below(got'[c], send'[c], seqno)
      BY <1>0, <1>5, <2>1, <2>3 DEF OrderInv, Still
    <2>4. ASSUME emitRoom' # None
          PROVE  /\ emsg' = seqno /\ seqno > 0
                 /\ \A c \in etodo' : Below(got'[c], send'[c], seqno)
      BY <1>0, <1>5, <2>1, <2>4 DEF OrderInv, Still
    <2>5. QED
      BY <2>1, <2>2, <2>3, <2>4 DEF OrderInv
  <1>6. KeepsAll \/ \E c \in Clients : Delivers(c)
    BY NextKeeps
  <1>7. QED
    BY <1>1, <1>2, <1>3, <1>4, <1>5, <1>6, LoopFrame DEF Delivers

(* Every connection sees the multicasts in the order in which h.mu was      *)
(* taken to deliver them, and none twice.                                   *)
THEOREM MulticastOrder == Spec => []InOrder
  <1>1. TypeInv /\ OrderInv => InOrder
    <2> SUFFICES ASSUME TypeInv, OrderInv, NEW c \in Clients,
                        NEW i \in DOMAIN got[c], NEW j \in DOMAIN got[c], i < j
                 PROVE  got[c][i] < got[c][j]
      BY DEF InOrder
    <2>1. got[c] \in Seq(Nat)
      BY DEF TypeInv, TypeOK
    <2>2. DOMAIN got[c] = 1..Len(got[c])
      BY <2>1
    <2>3. QED
      BY <2>2 DEF OrderInv, Ordered
  <1>2. Init => OrderInv
    BY InitOrder
  <1>3. TypeInv /\ SafeInv /\ OrderInv /\ [Next]_vars => OrderInv'
    BY NextOrder
  <1>4. QED
    BY <1>1, <1>2, <1>3, Safety, PTL DEF Spec

---------------------------------------------------------------------------
(* The hub implements the ordered multicast: its queues without the direct  *)
(* messages are the queues of OrderedMulticast.                             *)

Queue == [c \in Clients |-> Multicasts(send[c])]

LEMMA DirectHidden ==
    ASSUME NEW q \in Seq(Nat)
    PROVE  /\ Multicasts(q) \in Seq(Nat) /\ Len(Multicasts(q)) <= Len(q)
           /\ Multicasts(Append(q, Direct)) = Multicasts(q)
           /\ \A m \in Nat : m # Direct =>
                 Multicasts(Append(q, m)) = Append(Multicasts(q), m)
           /\ q # <<>> /\ Head(q) = Direct => Multicasts(Tail(q)) = Multicasts(q)
           /\ q # <<>> /\ Head(q) # Direct =>
                 /\ Multicasts(q) # <<>> /\ Head(Multicasts(q)) = Head(q)
                 /\ Multicasts(Tail(q)) = Tail(Multicasts(q))
  <1>1. Multicasts(q) \in Seq(Nat) /\ Len(Multicasts(q)) <= Len(q)
    BY WithoutSeq, WithoutLen DEF Multicasts
  <1>2. ASSUME NEW m \in Nat
        PROVE  Multicasts(Append(q, m)) =
                  IF m = Direct THEN Multicasts(q) ELSE Append(Multicasts(q), m)
    BY WithoutAppend DEF Multicasts
  <1>3. Direct \in Nat
    BY DEF Direct
  <1>4. q # <<>> /\ Head(q) = Direct => Multicasts(Tail(q)) = Multicasts(q)
    BY WithoutTail DEF Multicasts
  <1>5. q # <<>> /\ Head(q) # Direct =>
           /\ Multicasts(q) # <<>> /\ Head(Multicasts(q)) = Head(q)
           /\ Multicasts(Tail(q)) = Tail(Multicasts(q))
    BY WithoutTail DEF Multicasts
  <1>6. QED
    BY <1>1, <1>2, <1>3, <1>4, <1>5

(* What precedes every message of a queue precedes its multicasts.          *)
LEMMA OlderMulticasts ==
    ASSUME NEW g \in Seq(Nat), NEW q \in Seq(Nat), NEW k \in Nat, Below(g, q, k)
    PROVE  /\ \A i \in DOMAIN Multicasts(q) : Multicasts(q)[i] < k
           /\ \A i \in DOMAIN g : g[i] < k
  <1>1. \A i \in 1..Len(Multicasts(q)) : \E j \in 1..Len(q) : Multicasts(q)[i] = q[j]
    BY WithoutElements DEF Multicasts
  <1>2. Multicasts(q) \in Seq(Nat)
    BY DirectHidden
  <1>3. DOMAIN Multicasts(q) = 1..Len(Multicasts(q)) /\ DOMAIN g = 1..Len(g)
    BY <1>2
  <1>4. QED
    BY <1>1, <1>3 DEF Below

LEMMA InitMulticast == Init => Multicast!Init
  BY WithoutEmpty DEF Init, Multicast!Init, Multicasts

(* The step of the abstract hub that each kind of traffic is. *)
MulticastStep == Multicast!Next \/ UNCHANGED <<seqno, Queue, got>>

LEMMA WritesStep ==
    ASSUME TypeInv, NEW c \in Clients, Writes(c)
    PROVE  MulticastStep
  <1>1. /\ send \in [Clients -> Seq(Nat)] /\ send[c] \in Seq(Nat) /\ send[c] # <<>>
        /\ send' = [send EXCEPT ![c] = Tail(@)] /\ seqno' = seqno
        /\ Written(c, Head(send[c])) /\ got \in [Clients -> Seq(Nat)]
    BY DEF TypeInv, TypeOK, Writes, Pop
  <1>2. CASE Head(send[c]) = Direct
    <2>1. \A d \in Clients : Multicasts(send'[d]) = Multicasts(send[d])
      BY <1>1, <1>2, DirectHidden
    <2>2. got' = got
      BY <1>1, <1>2 DEF Written
    <2>3. QED
      BY <1>1, <2>1, <2>2 DEF MulticastStep, Queue
  <1>3. CASE Head(send[c]) # Direct
    <2>1. /\ Queue[c] # <<>> /\ Head(Queue[c]) = Head(send[c])
          /\ Multicasts(Tail(send[c])) = Tail(Queue[c])
      BY <1>1, <1>3, DirectHidden DEF Queue
    <2>2. Queue' = [Queue EXCEPT ![c] = Tail(@)]
      BY <1>1, <2>1 DEF Queue
    <2>3. got' = [got EXCEPT ![c] = Append(@, Head(Queue[c]))]
      BY <1>1, <1>3, <2>1 DEF Written
    <2>4. Multicast!Deliver(c)
      BY <1>1, <2>1, <2>2, <2>3 DEF Multicast!Deliver, Queue
    <2>5. QED
      BY <2>4 DEF MulticastStep, Multicast!Next
  <1>4. QED
    BY <1>2, <1>3

LEMMA LosesStep ==
    ASSUME TypeInv, NEW S \in SUBSET Clients, Loses(S)
    PROVE  MulticastStep
  <1> DEFINE M == {c \in S : Head(send[c]) # Direct}
  <1>1. /\ send \in [Clients -> Seq(Nat)]
        /\ \A c \in S : send[c] # <<>>
        /\ send' = [c \in Clients |-> IF c \in S THEN Tail(send[c]) ELSE send[c]]
        /\ UNCHANGED <<got, seqno>>
    BY DEF TypeInv, TypeOK, Loses
  <1>2. ASSUME NEW c \in M
        PROVE  Queue[c] # <<>> /\ Multicasts(send'[c]) = Tail(Queue[c])
    BY <1>1, DirectHidden DEF Queue
  <1>3. ASSUME NEW c \in Clients \ M PROVE Multicasts(send'[c]) = Queue[c]
    BY <1>1, DirectHidden DEF Queue
  <1>4. Queue' = [c \in Clients |-> IF c \in M THEN Tail(Queue[c]) ELSE Queue[c]]
    BY <1>2, <1>3 DEF Queue
  <1>5. Multicast!Lose(M)
    BY <1>1, <1>2, <1>4 DEF Multicast!Lose, Queue
  <1>6. M \in SUBSET Clients
    OBVIOUS
  <1>7. QED
    BY <1>5, <1>6 DEF MulticastStep, Multicast!Next

LEMMA DeliversStep ==
    ASSUME TypeInv, SafeInv, OrderInv, NEW c \in Clients, Delivers(c)
    PROVE  MulticastStep
  <1>1. /\ send \in [Clients -> Seq(Nat)] /\ send[c] \in Seq(Nat)
        /\ got \in [Clients -> Seq(Nat)] /\ got[c] \in Seq(Nat)
        /\ seqno \in Nat /\ UNCHANGED <<got, seqno>>
    BY DEF TypeInv, TypeOK, Delivers, BroadcastTo, RoomEmitTo
  <1>2. /\ seqno # Direct /\ Below(got[c], send[c], seqno)
        /\ send' = [send EXCEPT ![c] = Append(@, seqno)]
    BY <1>1 DEF Delivers, BroadcastTo, RoomEmitTo, OrderInv, Put, Direct
  <1>3. Len(Queue[c]) < SendCap
    <2>1. Len(Queue[c]) \in Nat /\ Len(Queue[c]) <= Len(send[c])
      BY <1>1, DirectHidden DEF Queue
    <2>2. Len(send[c]) \in Nat /\ Len(send[c]) < SendCap
      BY <1>1, HubAssumption DEF Delivers, Full
    <2>3. QED
      BY <2>1, <2>2, HubAssumption
  <1>4. Multicasts(Append(send[c], seqno)) = Append(Queue[c], seqno)
    BY <1>1, <1>2, DirectHidden DEF Queue
  <1>5. Queue' = [Queue EXCEPT ![c] = Append(@, seqno)]
    BY <1>1, <1>2, <1>4 DEF Queue
  <1>6. /\ \A i \in DOMAIN Queue[c] : Queue[c][i] < seqno
        /\ \A i \in DOMAIN got[c] : got[c][i] < seqno
    BY <1>1, <1>2, OlderMulticasts DEF Queue
  <1>7. Multicast!Offer(c)
    BY <1>1, <1>3, <1>5, <1>6 DEF Multicast!Offer, Multicast!Older, Queue
  <1>8. QED
    BY <1>7 DEF MulticastStep, Multicast!Next

LEMMA NextMulticast ==
    TypeInv /\ SafeInv /\ OrderInv /\ [Next]_vars => [Multicast!Next]_(Multicast!vars)
  <1> SUFFICES ASSUME TypeInv, SafeInv, OrderInv, [Next]_vars
               PROVE  MulticastStep
    BY DEF MulticastStep, Multicast!vars, Queue
  <1>1. CASE Quiet
    BY <1>1 DEF Quiet, MulticastStep, Queue
  <1>2. CASE Begins
    <2>1. Multicast!Begin
      BY <1>2 DEF Begins, Multicast!Begin
    <2>2. QED
      BY <2>1 DEF MulticastStep, Multicast!Next
  <1>3. ASSUME NEW c \in Clients, Answers(c) PROVE MulticastStep
    <2>1. /\ send \in [Clients -> Seq(Nat)]
          /\ send' = [send EXCEPT ![c] = Append(@, Direct)]
          /\ UNCHANGED <<got, seqno>>
      BY <1>3 DEF Answers, Put, TypeInv, TypeOK
    <2>2. \A d \in Clients : Multicasts(send'[d]) = Multicasts(send[d])
      BY <2>1, DirectHidden
    <2>3. QED
      BY <2>1, <2>2 DEF MulticastStep, Queue
  <1>4. QED
    BY <1>1, <1>2, <1>3, NextTraffic, WritesStep, LosesStep, DeliversStep
       DEF Traffic

(* Whatever the goroutines, the lock, the rooms, cleanup and overflow do,   *)
(* the hub does what the ordered multicast does: a connection is offered a  *)
(* multicast at most once, while it is in progress, and what reaches it     *)
(* does so in the common order.                                             *)
THEOREM HubRefinesMulticast == Spec => ImplementsMulticast
  <1>1. Init => Multicast!Init /\ OrderInv
    BY InitMulticast, InitOrder
  <1>2. TypeInv /\ SafeInv /\ OrderInv /\ [Next]_vars => OrderInv'
    BY NextOrder
  <1>3. QED
    BY <1>1, <1>2, NextMulticast, Safety, PTL DEF Spec, ImplementsMulticast, Multicast!Spec

=============================================================================
