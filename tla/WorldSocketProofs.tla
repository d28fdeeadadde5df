-------------------------- MODULE WorldSocketProofs --------------------------
(***************************************************************************)
(* Proofs about WorldSocket, for any size of buffers and packets.          *)
(*                                                                         *)
(* The network thread works for a connection with one read at a time, and  *)
(* it has either a read under way, a message in hand, or a question to the *)
(* database that it asked on behalf of the client; only the question for   *)
(* the permissions is asked while reading goes on (OneReader).  Hence one  *)
(* session (SessionMadeOnce).  _worldSession is set to null by whoever     *)
(* closes the socket, before the world thread may delete the session; only *)
(* the network thread, on its own way to OnClose, leaves the pointer       *)
(* dangling, and does not follow it there (Pointer).  That the pointer is  *)
(* not null while a second CMSG_AUTH_SESSION is logged does not hold (run  *)
(* world_socket_duplicate), and nothing here rests on it.                  *)
(*                                                                         *)
(* The packets lie in a row from the wire back to _bufferQueue (LaidOut);  *)
(* an action moves packets from the front of one place to the end of the   *)
(* next, until the connection breaks and nothing is sent (StreamInv).      *)
(***************************************************************************)
EXTENDS WorldSocket, TLAPS

\* The types of the variables that say who does what.
ControlTypes ==
    /\ proxy \in {"idle", "started", "finished", "failed"}
    /\ closed \in BOOLEAN /\ closing \in BOOLEAN /\ reading \in Nat /\ made \in Nat
    /\ authed \in BOOLEAN /\ worldSession \in BOOLEAN
    /\ callbacks \in {<<>>, <<"ip">>, <<"auth">>, <<"permissions">>}
    /\ session \in {"none", "made", "added", "active", "deleted"}
    /\ netpc \in {"idle", "pack", "check", "write", "callbacks", "data", "using", "logging", "close",
                "crashed"}
    /\ worldpc \in {"idle", "send", "close", "refuse", "delete"}

\* The network thread has a message of the client in hand.
InMessage == netpc \in {"data", "using", "logging"}
\* It waits for an answer before it reads on.
AskedFirst == callbacks \in {<<"ip">>, <<"auth">>}

OneReader ==
    /\ reading <= 1
    /\ reading = 1 => ~InMessage /\ ~AskedFirst
    /\ InMessage => ~AskedFirst
    /\ where \in {"incoming", "new"} =>
          /\ netpc = "idle" /\ callbacks = <<>> /\ session = "none"
          /\ proxy # "started" => reading = 0
    /\ proxy = "started" => session = "none" /\ callbacks = <<>> /\ BehindProxy
    /\ where = "sockets" \/ InMessage => proxy # "started"
    /\ netpc \in {"pack", "check", "write", "callbacks"} => where = "sockets"

SessionMadeOnce ==
    /\ made = IF session = "none" THEN 0 ELSE 1
    /\ authed <=> session # "none"
    /\ worldSession => session # "none"
    /\ session # "none" => ~closing /\ ~AskedFirst
    /\ closing => callbacks = <<>> /\ reading = 0 /\ ~InMessage
    /\ session = "made" <=> callbacks = <<"permissions">>

Pointer ==
    /\ netpc = "using" => worldSession
    /\ worldSession /\ closed => netpc = "close" \/ worldpc \in {"close", "refuse"}
    /\ session # "none" => closed \/ worldSession
    /\ session \in {"none", "made", "deleted"} => worldpc = "idle"
    /\ worldpc \in {"refuse", "delete"} => session = "added"
    /\ worldpc \in {"send", "close"} => session = "active"
    /\ worldpc \in {"close", "refuse", "delete"} \/ session = "deleted" => closed
    /\ netpc = "close" => closed
    /\ netpc \in {"write", "callbacks"} /\ session \in {"none", "made"} => ~closed \/ closing

SocketInv == ControlTypes /\ OneReader /\ SessionMadeOnce /\ Pointer

-----------------------------------------------------------------------------
\* A new socket has the invariant.
LEMMA SocketInit == Init => SocketInv
  <1> SUFFICES ASSUME Init PROVE SocketInv
    OBVIOUS
  <1> USE DEF Init
  <1>1. ControlTypes
    BY DEF ControlTypes
  <1>2. OneReader
    BY DEF OneReader, InMessage, AskedFirst
  <1>3. SessionMadeOnce
    BY DEF SessionMadeOnce, AskedFirst
  <1>4. Pointer
    BY DEF Pointer
  <1>5. QED
    BY <1>1, <1>2, <1>3, <1>4 DEF SocketInv

\* Every step of the network thread, the world thread and the peer keeps it.
LEMMA SocketNext == SocketInv /\ [Next]_vars => SocketInv'
  <1> SUFFICES ASSUME SocketInv, [Next]_vars PROVE SocketInv'
    OBVIOUS
  <1> USE DEF SocketInv, ControlTypes, OneReader, SessionMadeOnce, Pointer, InMessage, AskedFirst,
        threadVars, socketVars, sendVars, authVars, sessionVars, IsOpen
  <1>1. CASE AddSocket
    BY <1>1 DEF AddSocket
  <1>2. CASE ProcessProxyProtocol
    <2> USE <1>2 DEF ProcessProxyProtocol
    <2>1. CASE proxy' \in {"finished", "failed"} /\ reading' = reading - 1 /\ UNCHANGED closed
      BY <2>1
    <2>2. CASE UNCHANGED <<proxy, reading, closed>>
      BY <2>2
    <2>3. CASE closed' = TRUE /\ reading' = reading - 1 /\ UNCHANGED proxy
      BY <2>3
    <2>4. QED
      BY <2>1, <2>2, <2>3
  <1>3. CASE WriteHandlerWrapper
    BY <1>3 DEF WriteHandlerWrapper, HandleQueue, Pop
  <1>4. CASE ReadHandlerInternal
    <2> USE <1>4 DEF ReadHandlerInternal
    <2>1. CASE CloseSocket
      BY <2>1 DEF CloseSocket
    <2>2. CASE netpc' = (IF IsOpen THEN "data" ELSE "idle") /\ UNCHANGED closed
      BY <2>2
    <2>3. QED
      BY <2>1, <2>2
  <1>5. CASE AddNewSockets
    <2> USE <1>5 DEF AddNewSockets
    <2>1. CASE Leave /\ UNCHANGED <<proxy, reading, callbacks>>
      BY <2>1 DEF Leave
    <2>2. CASE /\ BehindProxy => proxy = "finished"
               /\ where' = "sockets" /\ callbacks' = Append(callbacks, "ip") /\ UNCHANGED <<proxy, reading>>
      <3>1. callbacks' = <<"ip">>
        BY <2>2
      <3>2. QED
        BY <2>2, <3>1
    <2>3. CASE IsOpen /\ BehindProxy /\ proxy = "idle" /\ proxy' = "started" /\ AsyncRead /\ UNCHANGED <<where, callbacks>>
      BY <2>3 DEF AsyncRead
    <2>4. QED
      BY <2>1, <2>2, <2>3, SocketAssumption DEF SocketAssumption
  <1>6. CASE Update_Pack \/ Update_Queue
    BY <1>6 DEF Update_Pack, Update_Queue, Dequeue
  <1>7. CASE Update_Check
    BY <1>7 DEF Update_Check, Leave
  <1>8. CASE Update_Write
    <2>1. ControlTypes'
      BY <1>8 DEF Update_Write, HandleQueue, Pop
    <2>2. OneReader'
      BY <1>8 DEF Update_Write, HandleQueue, Pop
    <2>3. SessionMadeOnce'
      BY <1>8 DEF Update_Write, HandleQueue, Pop
    <2>4. Pointer'
      BY <1>8 DEF Update_Write, HandleQueue, Pop
    <2>5. QED
      BY <2>1, <2>2, <2>3, <2>4
  <1>9. CASE Update_Callbacks
    <2> USE <1>9 DEF Update_Callbacks
    <2>1. CASE UNCHANGED <<socketVars, sendVars, authVars, sessionVars>>
      BY <2>1
    <2> DEFINE Answered == callbacks' = IF made' > made THEN Append(Tail(callbacks), "permissions")
                                                       ELSE Tail(callbacks)
    <2>2. CASE callbacks = <<"ip">> /\ CheckIpCallback /\ Answered
      <3>1. callbacks' = <<>> /\ session = "none"
        BY <2>2 DEF CheckIpCallback
      <3>2. CASE Refuse(crypt)
        BY <2>2, <3>1, <3>2 DEF CheckIpCallback, Refuse
      <3>3. CASE AsyncRead /\ UNCHANGED <<closed, closing>>
        BY <2>2, <3>1, <3>3 DEF CheckIpCallback, AsyncRead
      <3>4. QED
        BY <2>2, <3>2, <3>3 DEF CheckIpCallback
    <2>3. CASE callbacks = <<"auth">> /\ HandleAuthSessionCallback /\ Answered
      <3>1. session = "none" /\ made = 0 /\ reading = 0
        BY <2>3
      <3>2. CASE UNCHANGED <<authed, sessionVars>> /\ Refuse(crypt')
        <4>1. callbacks' = <<>>
          BY <2>3, <3>2
        <4>2. QED
          BY <2>3, <3>1, <3>2, <4>1 DEF Refuse
      <3>3. CASE /\ AsyncRead /\ authed' = TRUE /\ worldSession' = TRUE
                 /\ session' = "made" /\ made' = made + 1 /\ UNCHANGED <<closed, closing>>
        <4>1. callbacks' = <<"permissions">>
          BY <2>3, <3>1, <3>3
        <4>2. QED
          BY <2>3, <3>1, <3>3, <4>1 DEF AsyncRead
      <3>4. QED
        BY <2>3, <3>2, <3>3 DEF HandleAuthSessionCallback
    <2>4. CASE callbacks = <<"permissions">> /\ LoadSessionPermissionsCallback /\ Answered
      <3>1. callbacks' = <<>>
        BY <2>4 DEF LoadSessionPermissionsCallback
      <3>2. QED
        BY <2>4, <3>1 DEF LoadSessionPermissionsCallback
    <2>5. QED
      BY <2>1, <2>2, <2>3, <2>4
  <1>10. CASE HandleAuthSession
    <2> USE <1>10 DEF HandleAuthSession
    <2>1. callbacks = <<>> /\ session = "none" /\ ~closing
      OBVIOUS
    <2>2. callbacks' = <<"auth">>
      BY <2>1
    <2>3. ControlTypes' /\ OneReader'
      BY <2>1, <2>2
    <2>4. SessionMadeOnce'
      BY <2>1, <2>2
    <2>5. Pointer'
      BY <2>1
    <2>6. QED
      BY <2>3, <2>4, <2>5
  <1>11. CASE ReadHandler_Error
    BY <1>11 DEF ReadHandler_Error, CloseSocket
  <1>12. CASE ReadDataHandler_Lock
    BY <1>12 DEF ReadDataHandler_Lock
  <1>13. CASE ReadDataHandler_Unlock
    BY <1>13 DEF ReadDataHandler_Unlock, AsyncRead
  <1>14. CASE CloseSocket_OnClose
    BY <1>14 DEF CloseSocket_OnClose, OnClose
  <1>15. CASE SendPacket_Test
    BY <1>15 DEF SendPacket_Test
  <1>16. CASE KickPlayer
    <2>1. ControlTypes'
      BY <1>16 DEF KickPlayer
    <2>2. OneReader'
      BY <1>16 DEF KickPlayer
    <2>3. SessionMadeOnce'
      BY <1>16 DEF KickPlayer
    <2>4. Pointer'
      BY <1>16 DEF KickPlayer
    <2>5. QED
      BY <2>1, <2>2, <2>3, <2>4
  <1>17. CASE AddSession_
    <2> USE <1>17 DEF AddSession_
    <2>1. CASE session' = "active" /\ UNCHANGED <<closed, worldpc>>
      BY <2>1
    <2>2. CASE closed' = TRUE /\ worldpc' = (IF closed THEN "delete" ELSE "refuse") /\ UNCHANGED session
      BY <2>2
    <2>3. QED
      BY <2>1, <2>2
  <1>18. CASE SendPacket_Enqueue
    BY <1>18 DEF SendPacket_Enqueue
  <1>19. CASE KickPlayer_OnClose
    BY <1>19 DEF KickPlayer_OnClose, OnClose
  <1>20. CASE DeleteSession
    BY <1>20 DEF DeleteSession
  <1>21. CASE UNCHANGED vars
    BY <1>21 DEF vars
  <1>22. CASE ReadDataHandler_Duplicate
    BY <1>22 DEF ReadDataHandler_Duplicate
  <1>23. CASE ReadDataHandler_Log
    <2> USE <1>23 DEF ReadDataHandler_Log
    <2>1. CASE worldSession /\ CloseSocket
      BY <2>1 DEF CloseSocket
    <2>2. CASE netpc' = "crashed" /\ UNCHANGED closed
      BY <2>2
    <2>3. QED
      BY <2>1, <2>2
  <1>24. QED
    BY <1>1, <1>2, <1>3, <1>4, <1>5, <1>6, <1>7, <1>8, <1>9, <1>10, <1>11, <1>12, <1>13, <1>14,
       <1>15, <1>16, <1>17, <1>18, <1>19, <1>20, <1>21, <1>22, <1>23 DEF Next, NetworkLoop, WorldLoop, Gone

\* The invariant of WorldSocket holds in every state.
LEMMA SocketInvariant == Spec => []SocketInv
  BY SocketInit, SocketNext, PTL DEF Spec

-----------------------------------------------------------------------------
\* The network thread never follows _worldSession (in ReadDataHandler, under
\* _worldSessionLock) to a session that World::UpdateSessions has deleted, and
\* where it has tested the pointer, nobody sets it to null before it is done.
THEOREM SessionOutlivesUse == Spec => []SessionAlive
  <1>1. SocketInv => SessionAlive
    BY DEF SocketInv, ControlTypes, Pointer, SessionMadeOnce, SessionAlive
  <1>2. QED
    BY <1>1, SocketInvariant, PTL

\* LoadSessionPermissionsCallback may follow _worldSession without a test.
THEOREM PermissionsSafe == Spec => []PermissionsFindSession
  <1>1. SocketInv => PermissionsFindSession
    BY DEF SocketInv, ControlTypes, Pointer, SessionMadeOnce, PermissionsFindSession
  <1>2. QED
    BY <1>1, SocketInvariant, PTL

\* However often the client sends CMSG_AUTH_SESSION, one session is made, one
\* query is pending and one read is under way.
THEOREM OneSession == Spec => []AuthenticatedOnce
  <1>1. SocketInv => AuthenticatedOnce
    BY DEF SocketInv, ControlTypes, OneReader, SessionMadeOnce, InMessage, AskedFirst, AuthenticatedOnce
  <1>2. QED
    BY <1>1, SocketInvariant, PTL

-----------------------------------------------------------------------------
(* The stream of packets.  What was enqueued is, from front to back, what  *)
(* was sent, the buffers of _writeQueue, the buffer Update is filling, and *)
(* what is still in _bufferQueue.  start[k] packets are in front of buffer *)
(* k of _writeQueue.                                                       *)

\* The packets of s are those of `all` behind the first `from`.
At(s, from, all) == from + Len(s) <= Len(all) /\ \A j \in 1..Len(s) : s[j] = all[from + j]

Layout(start, onWire, queue, filling, waiting, all) ==
    /\ start[1] = Len(onWire)
    /\ \A k \in 1..Len(queue) : start[k + 1] = start[k] + Len(queue[k]) /\ At(queue[k], start[k], all)
    /\ At(filling, start[Len(queue) + 1], all)
    /\ At(waiting, start[Len(queue) + 1] + Len(filling), all)
    /\ Len(all) = start[Len(queue) + 1] + Len(filling) + Len(waiting)
    /\ At(onWire, 0, all)

LaidOut(onWire, queue, filling, waiting, all) ==
    \E start \in [1..(Len(queue) + 1) -> Nat] : Layout(start, onWire, queue, filling, waiting, all)

LEMMA LaidEnd ==
  ASSUME NEW queue \in Seq(Seq(Packet)), NEW start \in [1..(Len(queue) + 1) -> Nat]
  PROVE  start[Len(queue) + 1] \in Nat
  <1>1. Len(queue) \in Nat
    OBVIOUS
  <1>2. Len(queue) + 1 \in 1..(Len(queue) + 1)
    BY <1>1
  <1>3. QED
    BY <1>2

\* A packet that is enqueued is the last of all.
LEMMA LaidEnqueue ==
  ASSUME NEW onWire \in Seq(Packet), NEW queue \in Seq(Seq(Packet)), NEW filling \in Seq(Packet),
         NEW waiting \in Seq(Packet), NEW all \in Seq(Packet), NEW p \in Packet,
         LaidOut(onWire, queue, filling, waiting, all)
  PROVE  LaidOut(onWire, queue, filling, Append(waiting, p), Append(all, p))
  <1>1. PICK start \in [1..(Len(queue) + 1) -> Nat] : Layout(start, onWire, queue, filling, waiting, all)
    BY DEF LaidOut
  <1>2. PICK from \in Nat : from = start[Len(queue) + 1]
    BY LaidEnd
  <1>3. ASSUME NEW s \in Seq(Packet), NEW f \in Nat, At(s, f, all)
        PROVE  At(s, f, Append(all, p))
    <2>1. /\ Len(Append(all, p)) = Len(all) + 1 /\ Len(all) \in Nat /\ Len(s) \in Nat
          /\ \A j \in 1..Len(all) : Append(all, p)[j] = all[j]
      OBVIOUS
    <2>2. f + Len(s) <= Len(all) /\ \A j \in 1..Len(s) : s[j] = all[f + j]
      BY <1>3 DEF At
    <2>3. \A j \in 1..Len(s) : f + j \in 1..Len(all)
      BY <1>3, <2>1, <2>2
    <2>4. \A j \in 1..Len(s) : s[j] = Append(all, p)[f + j]
      BY <2>1, <2>2, <2>3
    <2>5. f + Len(s) <= Len(Append(all, p))
      BY <1>3, <2>1, <2>2
    <2>6. QED
      BY <2>4, <2>5, Zenon DEF At
  <1>4. /\ At(waiting, from + Len(filling), all) /\ At(filling, from, all) /\ At(onWire, 0, all)
        /\ Len(all) = from + Len(filling) + Len(waiting)
    BY <1>1, <1>2 DEF Layout
  <1> DEFINE more == Append(waiting, p)
             every == Append(all, p)
  <1>5. PICK w \in Nat : w = Len(waiting)
    OBVIOUS
  <1>6. PICK at \in Nat : at = from + Len(filling)
    OBVIOUS
  <1>7. /\ Len(more) = w + 1 /\ more[w + 1] = p /\ \A j \in 1..w : more[j] = waiting[j]
        /\ Len(all) = at + w /\ Len(every) = at + w + 1 /\ every[at + w + 1] = p
        /\ \A j \in 1..(at + w) : every[j] = all[j]
    <2>1. Len(more) = w + 1 /\ more[w + 1] = p /\ \A j \in 1..w : more[j] = waiting[j]
      BY <1>5
    <2>2. Len(all) = at + w
      BY <1>4, <1>5, <1>6
    <2>3. Len(every) = at + w + 1 /\ every[at + w + 1] = p /\ \A j \in 1..(at + w) : every[j] = all[j]
      <3>1. PICK l \in Nat : l = at + w /\ l = Len(all)
        BY <1>5, <1>6, <2>2
      <3>2. Len(every) = l + 1 /\ every[l + 1] = p /\ \A j \in 1..l : every[j] = all[j]
        BY <3>1
      <3>3. QED
        BY <3>1, <3>2
    <2>4. QED
      BY <2>1, <2>2, <2>3
  <1>8. \A j \in 1..w : waiting[j] = all[at + j]
    BY <1>4, <1>5, <1>6 DEF At
  <1> HIDE DEF more, every
  <1>9. At(more, at, every)
    <2>1. SUFFICES ASSUME NEW j \in 1..(w + 1) PROVE more[j] = every[at + j]
      BY <1>5, <1>6, <1>7 DEF At
    <2>2. CASE j = w + 1
      BY <1>5, <1>6, <1>7, <2>2
    <2>3. CASE j \in 1..w
      <3>1. at + j \in 1..(at + w)
        BY <1>5, <1>6, <2>3
      <3>2. QED
        BY <1>7, <1>8, <2>3, <3>1
    <2>4. j = w + 1 \/ j \in 1..w
      BY <1>5, <2>1
    <2>5. QED
      BY <2>2, <2>3, <2>4
  <1>10. ASSUME NEW k \in 1..Len(queue)
        PROVE  start[k + 1] = start[k] + Len(queue[k]) /\ At(queue[k], start[k], every)
    <2>1. queue[k] \in Seq(Packet)
      OBVIOUS
    <2>2. k \in 1..(Len(queue) + 1)
      OBVIOUS
    <2>3. start[k] \in Nat
      BY <2>2
    <2>4. QED
      BY <1>1, <1>3, <2>1, <2>3 DEF Layout, every
  <1>11. At(filling, from, every) /\ At(onWire, 0, every)
    BY <1>3, <1>4 DEF every
  <1>12. Len(every) = at + Len(more)
    BY <1>5, <1>6, <1>7
  <1>13. Layout(start, onWire, queue, filling, more, every)
    BY <1>1, <1>2, <1>9, <1>10, <1>11, <1>12, <1>6 DEF Layout
  <1>14. QED
    BY <1>13 DEF LaidOut, more, every

\* The first packet of _bufferQueue goes into the buffer of Update.
LEMMA LaidFill ==
  ASSUME NEW onWire \in Seq(Packet), NEW queue \in Seq(Seq(Packet)), NEW filling \in Seq(Packet),
         NEW waiting \in Seq(Packet), NEW all \in Seq(Packet), waiting # <<>>,
         LaidOut(onWire, queue, filling, waiting, all)
  PROVE  LaidOut(onWire, queue, Append(filling, Head(waiting)), Tail(waiting), all)
  <1>1. PICK start \in [1..(Len(queue) + 1) -> Nat] : Layout(start, onWire, queue, filling, waiting, all)
    BY DEF LaidOut
  <1>2. PICK from \in Nat : from = start[Len(queue) + 1]
    BY LaidEnd
  <1>3. At(filling, from, all) /\ At(waiting, from + Len(filling), all)
        /\ Len(all) = from + Len(filling) + Len(waiting)
    BY <1>1, <1>2 DEF Layout
  <1> DEFINE p == Head(waiting)
  <1>4. p \in Packet /\ p = waiting[1] /\ Len(waiting) \in Nat \ {0} /\ Len(Tail(waiting)) = Len(waiting) - 1
    OBVIOUS
  <1>5. p = all[from + Len(filling) + 1]
    BY <1>3, <1>4 DEF At
  <1> HIDE DEF p
  <1>6. At(Append(filling, p), from, all)
    <2>0. /\ Len(Append(filling, p)) = Len(filling) + 1 /\ Append(filling, p)[Len(filling) + 1] = p
          /\ \A j \in 1..Len(filling) : Append(filling, p)[j] = filling[j]
          /\ Len(filling) \in Nat /\ Len(waiting) \in Nat \ {0}
      BY <1>4
    <2>1. SUFFICES ASSUME NEW j \in 1..(Len(filling) + 1) PROVE Append(filling, p)[j] = all[from + j]
      BY <1>3, <2>0 DEF At
    <2>2. CASE j = Len(filling) + 1
      BY <1>5, <2>0, <2>2
    <2>3. CASE j \in 1..Len(filling)
      <3>1. filling[j] = all[from + j]
        BY <1>3, <2>3 DEF At
      <3>2. QED
        BY <2>0, <2>3, <3>1
    <2>4. j = Len(filling) + 1 \/ j \in 1..Len(filling)
      BY <2>0, <2>1
    <2>5. QED
      BY <2>1, <2>2, <2>3, <2>4, Zenon
  <1>7. At(Tail(waiting), from + Len(Append(filling, p)), all)
    <2>1. SUFFICES ASSUME NEW j \in 1..(Len(waiting) - 1)
                   PROVE  Tail(waiting)[j] = all[from + (Len(filling) + 1) + j]
      BY <1>3, <1>4 DEF At
    <2>2. Tail(waiting)[j] = waiting[j + 1] /\ j + 1 \in 1..Len(waiting)
      BY <1>4
    <2>3. waiting[j + 1] = all[(from + Len(filling)) + (j + 1)]
      BY <1>3, <2>2 DEF At
    <2>4. QED
      BY <2>2, <2>3
  <1>8. Len(all) = from + Len(Append(filling, p)) + Len(Tail(waiting))
    BY <1>3, <1>4
  <1>9. Layout(start, onWire, queue, Append(filling, p), Tail(waiting), all)
    BY <1>1, <1>2, <1>6, <1>7, <1>8 DEF Layout
  <1>10. QED
    BY <1>9 DEF LaidOut, p

\* The buffer of Update, full or not, is the last of _writeQueue.
LEMMA LaidQueue ==
  ASSUME NEW onWire \in Seq(Packet), NEW queue \in Seq(Seq(Packet)), NEW filling \in Seq(Packet),
         NEW waiting \in Seq(Packet), NEW all \in Seq(Packet),
         LaidOut(onWire, queue, filling, waiting, all)
  PROVE  LaidOut(onWire, Append(queue, filling), <<>>, waiting, all)
  <1>1. PICK start \in [1..(Len(queue) + 1) -> Nat] : Layout(start, onWire, queue, filling, waiting, all)
    BY DEF LaidOut
  <1>2. PICK n \in Nat : n = Len(queue)
    OBVIOUS
  <1>3. PICK len \in Nat : len = Len(filling)
    OBVIOUS
  <1>4. start[n + 1] \in Nat
    BY <1>2, LaidEnd
  <1> DEFINE q == Append(queue, filling)
             st == [k \in 1..(n + 2) |-> IF k = n + 2 THEN start[n + 1] + len ELSE start[k]]
  <1>5. Len(q) = n + 1 /\ q[n + 1] = filling /\ \A k \in 1..n : q[k] = queue[k]
    BY <1>2
  <1>6. st \in [1..(Len(q) + 1) -> Nat]
    <2>1. Len(q) + 1 = n + 2
      BY <1>5
    <2>2. ASSUME NEW k \in 1..(n + 2) PROVE (IF k = n + 2 THEN start[n + 1] + len ELSE start[k]) \in Nat
      <3>1. CASE k = n + 2
        BY <3>1, <1>4
      <3>2. CASE k # n + 2
        <4>1. k \in 1..(Len(queue) + 1)
          BY <1>2, <3>2
        <4>2. QED
          BY <3>2, <4>1
      <3>3. QED
        BY <3>1, <3>2
    <2>3. QED
      BY <2>1, <2>2
  <1>7. st[1] = start[1] /\ st[n + 1] = start[n + 1] /\ st[n + 2] = start[n + 1] + len
    OBVIOUS
  <1>8. \A k \in 1..n : st[k] = start[k] /\ st[k + 1] = start[k + 1]
    OBVIOUS
  <1>9. At(filling, start[n + 1], all) /\ At(waiting, start[n + 1] + len, all)
        /\ Len(all) = start[n + 1] + len + Len(waiting)
    BY <1>1, <1>2, <1>3 DEF Layout
  <1> HIDE DEF q, st
  <1>10. ASSUME NEW k \in 1..Len(q)
         PROVE  st[k + 1] = st[k] + Len(q[k]) /\ At(q[k], st[k], all)
    <2>1. CASE k = n + 1
      <3>1. k + 1 = n + 2
        BY <2>1, <1>2
      <3>2. QED
        BY <2>1, <3>1, <1>3, <1>5, <1>7, <1>9
    <2>2. CASE k \in 1..n
      BY <2>2, <1>1, <1>2, <1>5, <1>8 DEF Layout
    <2>3. QED
      BY <1>5, <1>2, <2>1, <2>2
  <1>11. Len(q) + 1 = n + 2 /\ Len(<<>>) = 0
    BY <1>5, <1>2
  <1>12. At(<<>>, st[Len(q) + 1], all)
    BY <1>3, <1>4, <1>7, <1>9, <1>11 DEF At
  <1>13. start[n + 1] + len + 0 = start[n + 1] + len
    BY <1>3, <1>4
  <1>14. At(waiting, st[Len(q) + 1] + Len(<<>>), all) /\ Len(all) = st[Len(q) + 1] + Len(<<>>) + Len(waiting)
    BY <1>7, <1>9, <1>11, <1>13
  <1>15. st[1] = Len(onWire) /\ At(onWire, 0, all)
    BY <1>1, <1>7 DEF Layout
  <1>16. Layout(st, onWire, q, <<>>, waiting, all)
    BY <1>10, <1>12, <1>14, <1>15 DEF Layout
  <1>17. QED
    BY <1>6, <1>16 DEF LaidOut, q

\* The first buffer of _writeQueue, empty or not, is the next to be sent.
LEMMA LaidSend ==
  ASSUME NEW onWire \in Seq(Packet), NEW queue \in Seq(Seq(Packet)), NEW filling \in Seq(Packet),
         NEW waiting \in Seq(Packet), NEW all \in Seq(Packet), queue # <<>>,
         LaidOut(onWire, queue, filling, waiting, all)
  PROVE  LaidOut(onWire \o Head(queue), Tail(queue), filling, waiting, all)
  <1>1. PICK start \in [1..(Len(queue) + 1) -> Nat] : Layout(start, onWire, queue, filling, waiting, all)
    BY DEF LaidOut
  <1>2. PICK n \in Nat : Len(queue) = n + 1
    <2>1. Len(queue) \in Nat \ {0}
      OBVIOUS
    <2>2. Len(queue) - 1 \in Nat /\ Len(queue) = (Len(queue) - 1) + 1
      BY <2>1
    <2>3. QED
      BY <2>2
  <1>3. PICK first \in Seq(Packet) : first = Head(queue)
    OBVIOUS
  <1> DEFINE q == Tail(queue)
             st == [k \in 1..(n + 1) |-> start[k + 1]]
  <1>4. Len(q) = n /\ queue[1] = first /\ \A k \in 1..n : q[k] = queue[k + 1]
    BY <1>2, <1>3
  <1>5. st \in [1..(Len(q) + 1) -> Nat] /\ \A k \in 1..(n + 1) : st[k] = start[k + 1]
    <2>1. \A k \in 1..(n + 1) : k + 1 \in 1..(Len(queue) + 1)
      BY <1>2
    <2>2. \A k \in 1..(n + 1) : start[k + 1] \in Nat
      BY <2>1
    <2>3. st \in [1..(n + 1) -> Nat]
      BY <2>2
    <2> HIDE DEF q
    <2>4. QED
      BY <1>4, <2>3
  <1> HIDE DEF q, st
  <1>6. start[2] = start[1] + Len(first) /\ At(first, start[1], all) /\ start[1] = Len(onWire)
    <2>1. 1 \in 1..Len(queue) /\ 1 + 1 = 2
      BY <1>2
    <2>2. start[1 + 1] = start[1] + Len(queue[1]) /\ At(queue[1], start[1], all) /\ start[1] = Len(onWire)
      BY <1>1, <2>1 DEF Layout
    <2>3. QED
      BY <1>4, <2>1, <2>2
  <1>7. st[1] = Len(onWire \o first)
    BY <1>5, <1>6
  <1>8. At(onWire \o first, 0, all)
    <2>1. At(onWire, 0, all) /\ At(first, Len(onWire), all)
      BY <1>1, <1>6 DEF Layout
    <2>2. SUFFICES ASSUME NEW j \in 1..(Len(onWire) + Len(first)) PROVE (onWire \o first)[j] = all[0 + j]
      BY <2>1 DEF At
    <2>3. CASE j <= Len(onWire)
      BY <2>1, <2>3 DEF At
    <2>4. CASE j > Len(onWire)
      <3>1. j - Len(onWire) \in 1..Len(first) /\ Len(onWire) + (j - Len(onWire)) = j /\ 0 + j = j
        BY <2>4
      <3>2. (onWire \o first)[j] = first[j - Len(onWire)]
        BY <2>4
      <3>3. first[j - Len(onWire)] = all[Len(onWire) + (j - Len(onWire))]
        BY <2>1, <3>1 DEF At
      <3>4. QED
        BY <3>1, <3>2, <3>3
    <2>5. QED
      BY <2>3, <2>4
  <1>9. ASSUME NEW k \in 1..Len(q)
        PROVE  st[k + 1] = st[k] + Len(q[k]) /\ At(q[k], st[k], all)
    <2>1. k + 1 \in 1..Len(queue) /\ k + 1 \in 1..(n + 1) /\ k \in 1..(n + 1)
      BY <1>2, <1>4
    <2>2. start[(k + 1) + 1] = start[k + 1] + Len(queue[k + 1]) /\ At(queue[k + 1], start[k + 1], all)
      BY <1>1, <2>1 DEF Layout
    <2>3. QED
      BY <1>4, <1>5, <2>1, <2>2
  <1>10. st[Len(q) + 1] = start[Len(queue) + 1]
    BY <1>2, <1>4, <1>5
  <1>11. Layout(st, onWire \o first, q, filling, waiting, all)
    BY <1>1, <1>7, <1>8, <1>9, <1>10 DEF Layout
  <1>12. QED
    BY <1>3, <1>5, <1>11 DEF LaidOut, q

StreamTypes ==
    /\ bufferQueue \in Seq(Packet) /\ buffer \in Seq(Packet) /\ writeQueue \in Seq(Seq(Packet))
    /\ broken \in BOOLEAN /\ wire \in Seq(Packet) /\ sent \in Seq(Packet) /\ crypt \in BOOLEAN

\* While the connection is whole every packet has its place; once it is broken
\* nothing is sent any more.
Stream ==
    /\ At(wire, 0, sent)
    /\ ~broken => LaidOut(wire, writeQueue, buffer, bufferQueue, sent)

StreamInv == StreamTypes /\ Stream

\* An empty connection.
LEMMA StreamInit == Init => StreamInv
  <1> SUFFICES ASSUME Init PROVE StreamInv
    OBVIOUS
  <1>1. <<>> \in Seq(Packet) /\ <<>> \in Seq(Seq(Packet))
    OBVIOUS
  <1>2. StreamTypes
    BY <1>1 DEF Init, StreamTypes
  <1> DEFINE st == [k \in 1..1 |-> 0]
  <1>3. Layout(st, <<>>, <<>>, <<>>, <<>>, <<>>)
    BY DEF Layout, At
  <1>4. st \in [1..(Len(<<>>) + 1) -> Nat]
    OBVIOUS
  <1>5. LaidOut(<<>>, <<>>, <<>>, <<>>, <<>>)
    BY <1>3, <1>4 DEF LaidOut
  <1>6. At(<<>>, 0, <<>>)
    BY DEF At
  <1>7. QED
    BY <1>2, <1>5, <1>6 DEF Init, StreamInv, Stream

\* The buffers behind the variables of StreamInv are untouched.
LEMMA StreamSame ==
  ASSUME StreamInv, crypt' \in BOOLEAN, UNCHANGED sendVars
  PROVE  StreamInv'
  BY DEF StreamInv, StreamTypes, Stream, sendVars

\* Both threads enqueue through SendPacket.
LEMMA StreamEnqueue ==
  ASSUME StreamInv, NEW size \in Nat, NEW encrypt \in BOOLEAN, SendPacket(size, encrypt),
         crypt' \in BOOLEAN, UNCHANGED <<buffer, writeQueue, broken, wire>>
  PROVE  StreamInv'
  <1> DEFINE p == [n |-> Len(sent) + 1, size |-> size, encrypted |-> encrypt]
  <1>1. CASE UNCHANGED <<bufferQueue, sent>>
    BY <1>1, StreamSame DEF sendVars
  <1>2. CASE bufferQueue' = Append(bufferQueue, p) /\ sent' = Append(sent, p)
    <2>1. p \in Packet
      BY DEF StreamInv, StreamTypes, Packet
    <2> HIDE DEF p
    <2>2. StreamTypes'
      BY <1>2, <2>1 DEF StreamInv, StreamTypes
    <2>3. At(wire, 0, Append(sent, p))
      BY <2>1 DEF At, StreamInv, StreamTypes, Stream
    <2>4. ~broken => LaidOut(wire, writeQueue, buffer, Append(bufferQueue, p), Append(sent, p))
      BY <2>1, LaidEnqueue DEF StreamInv, StreamTypes, Stream
    <2>5. Stream'
      BY <1>2, <2>3, <2>4 DEF Stream
    <2>6. QED
      BY <2>2, <2>5 DEF StreamInv
  <1>3. QED
    BY <1>1, <1>2 DEF SendPacket

\* What Pack does to the layout: fill, queue and fill, or queue and queue again.
LEMMA StreamPack ==
  ASSUME StreamInv, Update_Pack
  PROVE  StreamInv'
  <1> DEFINE p == Head(bufferQueue)
             rest == Tail(bufferQueue)
  <1>1. p \in Packet /\ rest \in Seq(Packet) /\ bufferQueue # <<>>
    BY DEF Update_Pack, StreamInv, StreamTypes
  <1>2. <<>> \in Seq(Packet) /\ Append(<<>>, p) = <<p>> /\ <<p>> \in Seq(Packet)
    BY <1>1
  <1>3. /\ bufferQueue' = rest /\ UNCHANGED <<broken, wire, sent, crypt>>
        /\ \/ buffer' = Append(buffer, p) /\ writeQueue' = writeQueue
           \/ buffer' = <<p>> /\ writeQueue' = Append(writeQueue, buffer)
           \/ buffer' = <<>> /\ writeQueue' = writeQueue \o <<buffer, <<p>>>>
    BY DEF Update_Pack, Pack, authVars
  <1> HIDE DEF p, rest
  <1>4. \/ buffer' = Append(buffer, p) /\ writeQueue' = writeQueue
        \/ buffer' = <<p>> /\ writeQueue' = Append(writeQueue, buffer)
        \/ buffer' = <<>> /\ writeQueue' = Append(Append(writeQueue, buffer), <<p>>)
    <2>1. writeQueue \o <<buffer, <<p>>>> = Append(Append(writeQueue, buffer), <<p>>)
      BY <1>2 DEF StreamInv, StreamTypes
    <2>2. QED
      BY <1>3, <2>1
  <1>5. StreamTypes'
    <2> USE DEF StreamInv, StreamTypes
    <2>1. bufferQueue' \in Seq(Packet) /\ broken' \in BOOLEAN /\ wire' \in Seq(Packet)
          /\ sent' \in Seq(Packet) /\ crypt' \in BOOLEAN
      BY <1>1, <1>3
    <2>2. Append(buffer, p) \in Seq(Packet) /\ Append(writeQueue, buffer) \in Seq(Seq(Packet))
      BY <1>1
    <2>3. Append(Append(writeQueue, buffer), <<p>>) \in Seq(Seq(Packet))
      BY <1>2, <2>2
    <2>4. buffer' \in Seq(Packet) /\ writeQueue' \in Seq(Seq(Packet))
      BY <1>2, <1>4, <2>2, <2>3
    <2>5. QED
      BY <2>1, <2>4
  <1>6. ASSUME ~broken
        PROVE  LaidOut(wire, writeQueue', buffer', rest, sent)
    <2> USE DEF StreamInv, StreamTypes, Stream
    <2>1. LaidOut(wire, writeQueue, Append(buffer, p), rest, sent)
      BY <1>1, <1>6, LaidFill DEF p, rest
    <2>2. LaidOut(wire, Append(writeQueue, buffer), <<>>, bufferQueue, sent)
      BY <1>6, LaidQueue
    <2>3. Append(writeQueue, buffer) \in Seq(Seq(Packet))
      OBVIOUS
    <2>4. LaidOut(wire, Append(writeQueue, buffer), Append(<<>>, p), rest, sent)
      BY <1>1, <1>2, <2>2, <2>3, LaidFill DEF p, rest
    <2>5. LaidOut(wire, Append(writeQueue, buffer), <<p>>, rest, sent)
      BY <1>2, <2>4
    <2>6. LaidOut(wire, Append(Append(writeQueue, buffer), <<p>>), <<>>, rest, sent)
      BY <1>1, <1>2, <2>3, <2>5, LaidQueue
    <2>7. QED
      BY <1>4, <2>1, <2>5, <2>6
  <1>7. Stream'
    BY <1>3, <1>6 DEF Stream, StreamInv
  <1>8. QED
    BY <1>5, <1>7 DEF StreamInv

\* The last buffer is queued.
LEMMA StreamQueue ==
  ASSUME StreamInv, Update_Queue
  PROVE  StreamInv'
  <1>1. <<>> \in Seq(Packet)
    OBVIOUS
  <1>2. /\ UNCHANGED <<bufferQueue, broken, wire, sent, crypt>> /\ buffer' = <<>>
        /\ writeQueue' = IF buffer = <<>> THEN writeQueue ELSE Append(writeQueue, buffer)
    BY DEF Update_Queue, authVars
  <1>3. StreamTypes'
    BY <1>1, <1>2 DEF StreamInv, StreamTypes
  <1>4. ASSUME ~broken
        PROVE  LaidOut(wire, writeQueue', <<>>, bufferQueue, sent)
    <2>1. LaidOut(wire, Append(writeQueue, buffer), <<>>, bufferQueue, sent)
      BY <1>4, LaidQueue DEF StreamInv, StreamTypes, Stream
    <2>2. QED
      BY <1>2, <1>4, <2>1 DEF StreamInv, StreamTypes, Stream
  <1>5. Stream'
    BY <1>2, <1>4 DEF Stream, StreamInv
  <1>6. QED
    BY <1>3, <1>5 DEF StreamInv

\* HandleQueue sends the first buffer, or loses it with the connection.
LEMMA StreamWrite ==
  ASSUME StreamInv, NEW more \in BOOLEAN, HandleQueue(more),
         UNCHANGED <<bufferQueue, buffer, sent, crypt>>
  PROVE  StreamInv'
  <1>1. CASE UNCHANGED <<writeQueue, broken, wire>>
    BY <1>1, StreamSame DEF sendVars, StreamInv, StreamTypes
  <1>2. CASE /\ writeQueue # <<>> /\ writeQueue' = Tail(writeQueue) /\ ~broken /\ UNCHANGED broken
             /\ wire' = wire \o Head(writeQueue)
    <2>1. LaidOut(wire \o Head(writeQueue), Tail(writeQueue), buffer, bufferQueue, sent)
      BY <1>2, LaidSend DEF StreamInv, StreamTypes, Stream
    <2>2. StreamTypes'
      <3>1. Head(writeQueue) \in Seq(Packet) /\ Tail(writeQueue) \in Seq(Seq(Packet))
        BY <1>2 DEF StreamInv, StreamTypes
      <3>2. QED
        BY <1>2, <3>1 DEF StreamInv, StreamTypes
    <2>3. At(wire \o Head(writeQueue), 0, sent)
      BY <2>1 DEF LaidOut, Layout
    <2>4. Stream'
      BY <1>2, <2>1, <2>3 DEF Stream
    <2>5. QED
      BY <2>2, <2>4 DEF StreamInv
  <1>3. CASE /\ writeQueue # <<>> /\ writeQueue' = Tail(writeQueue) /\ broken' = TRUE /\ UNCHANGED wire
    BY <1>3 DEF StreamInv, StreamTypes, Stream
  <1>4. QED
    BY <1>1, <1>2, <1>3 DEF HandleQueue, Pop

\* Every action keeps the packets in their places.
LEMMA StreamNext == StreamInv /\ [Next]_vars => StreamInv'
  <1> SUFFICES ASSUME StreamInv, [Next]_vars PROVE StreamInv'
    OBVIOUS
  <1>1. crypt \in BOOLEAN /\ PacketSizes \subseteq Nat /\ 1 \in Nat
    BY SocketAssumption DEF StreamInv, StreamTypes, SocketAssumption
  <1>2. CASE AddSocket \/ ProcessProxyProtocol \/ AddNewSockets \/ Update_Check \/ ReadHandlerInternal
             \/ HandleAuthSession \/ ReadHandler_Error \/ ReadDataHandler_Duplicate \/ ReadDataHandler_Log
             \/ ReadDataHandler_Lock \/ CloseSocket_OnClose
    <2>1. UNCHANGED <<sendVars, crypt>>
      BY <1>2 DEF AddSocket, ProcessProxyProtocol, AddNewSockets, Update_Check, ReadHandlerInternal,
            HandleAuthSession, ReadHandler_Error, ReadDataHandler_Duplicate, ReadDataHandler_Log,
            ReadDataHandler_Lock, CloseSocket_OnClose, authVars
    <2>2. QED
      BY <1>1, <2>1, StreamSame
  <1>3. CASE SendPacket_Test \/ KickPlayer \/ AddSession_ \/ KickPlayer_OnClose \/ DeleteSession
    <2>1. UNCHANGED <<sendVars, crypt>>
      BY <1>3 DEF SendPacket_Test, KickPlayer, AddSession_, KickPlayer_OnClose, DeleteSession, authVars
    <2>2. QED
      BY <1>1, <2>1, StreamSame
  <1>4. CASE UNCHANGED vars
    BY <1>1, <1>4, StreamSame DEF vars, authVars
  <1>5. CASE Update_Pack
    BY <1>5, StreamPack
  <1>6. CASE Update_Queue
    BY <1>6, StreamQueue
  <1>7. CASE Update_Write \/ WriteHandlerWrapper
    <2>1. PICK more \in BOOLEAN : HandleQueue(more)
      BY <1>7 DEF Update_Write, WriteHandlerWrapper
    <2>2. UNCHANGED <<bufferQueue, buffer, sent, crypt>>
      BY <1>7 DEF Update_Write, WriteHandlerWrapper, authVars
    <2>3. QED
      BY <2>1, <2>2, StreamWrite
  <1>8. CASE Update_Callbacks
    <2>1. CASE UNCHANGED <<socketVars, sendVars, authVars, sessionVars>>
      BY <1>1, <2>1, StreamSame DEF authVars
    <2>2. CASE CheckIpCallback
      <3>1. SendPacket(1, crypt) /\ UNCHANGED <<crypt, buffer, writeQueue, broken, wire>>
        BY <1>8, <2>2 DEF Update_Callbacks, CheckIpCallback, Refuse, sendVars
      <3>2. QED
        BY <1>1, <3>1, StreamEnqueue
    <2>3. CASE HandleAuthSessionCallback
      <3>1. UNCHANGED <<buffer, writeQueue, broken, wire>> /\ crypt' \in BOOLEAN
        BY <1>1, <1>8, <2>3 DEF Update_Callbacks, HandleAuthSessionCallback, sendVars, authVars
      <3>2. CASE SendPacket(1, crypt')
        BY <1>1, <3>1, <3>2, StreamEnqueue
      <3>3. CASE UNCHANGED <<bufferQueue, sent>>
        BY <3>1, <3>3, StreamSame DEF sendVars
      <3>4. QED
        BY <2>3, <3>2, <3>3 DEF HandleAuthSessionCallback, Refuse
    <2>4. CASE LoadSessionPermissionsCallback
      <3>1. UNCHANGED <<sendVars, crypt>>
        BY <1>8, <2>4 DEF Update_Callbacks, LoadSessionPermissionsCallback, sendVars, authVars
      <3>2. QED
        BY <1>1, <3>1, StreamSame
    <2>5. QED
      BY <1>8, <2>1, <2>2, <2>3, <2>4 DEF Update_Callbacks
  <1>9. CASE ReadDataHandler_Unlock
    <2>1. UNCHANGED <<crypt, buffer, writeQueue, broken, wire>>
      BY <1>9 DEF ReadDataHandler_Unlock, authVars
    <2>2. CASE SendPacket(1, crypt)
      BY <1>1, <2>1, <2>2, StreamEnqueue
    <2>3. CASE UNCHANGED <<bufferQueue, sent>>
      BY <1>1, <2>1, <2>3, StreamSame DEF sendVars
    <2>4. QED
      BY <1>9, <2>2, <2>3 DEF ReadDataHandler_Unlock
  <1>10. CASE SendPacket_Enqueue
    <2>1. PICK size \in PacketSizes : SendPacket(size, crypt)
      BY <1>10 DEF SendPacket_Enqueue
    <2>2. UNCHANGED <<crypt, buffer, writeQueue, broken, wire>>
      BY <1>10 DEF SendPacket_Enqueue, authVars
    <2>3. QED
      BY <1>1, <2>1, <2>2, StreamEnqueue
  <1>11. QED
    BY <1>2, <1>3, <1>4, <1>5, <1>6, <1>7, <1>8, <1>9, <1>10 DEF Next, NetworkLoop, WorldLoop, Gone

LEMMA StreamInvariant == Spec => []StreamInv
  BY StreamInit, StreamNext, PTL DEF Spec

\* The client gets the packets in the order in which they were enqueued and
\* none twice or left out, whatever their sizes, however WorldSocket::Update
\* cuts them into buffers while the world thread goes on enqueueing, and
\* wherever HandleQueue stops.
THEOREM StreamOrdered == Spec => []StreamInOrder
  <1>1. StreamInv => StreamInOrder
    <2> SUFFICES ASSUME StreamInv PROVE StreamInOrder
      OBVIOUS
    <2>1. /\ wire \in Seq(Packet) /\ sent \in Seq(Packet) /\ Len(wire) <= Len(sent)
          /\ \A j \in 1..Len(wire) : wire[j] = sent[j]
      BY DEF StreamInv, StreamTypes, Stream, At
    <2>2. PICK l \in Nat : l = Len(wire)
      BY <2>1
    <2>3. /\ SubSeq(wire, 1, l) \in Seq(Packet) /\ Len(SubSeq(wire, 1, l)) = l
          /\ \A j \in 1..l : SubSeq(wire, 1, l)[j] = wire[j]
      BY <2>1, <2>2
    <2>4. /\ SubSeq(sent, 1, l) \in Seq(Packet) /\ Len(SubSeq(sent, 1, l)) = l
          /\ \A j \in 1..l : SubSeq(sent, 1, l)[j] = sent[j]
      BY <2>1, <2>2
    <2>5. SubSeq(wire, 1, l) = SubSeq(sent, 1, l)
      BY <2>1, <2>2, <2>3, <2>4
    <2>6. QED
      BY <2>1, <2>2, <2>5 DEF StreamInOrder, IsPrefix
  <1>2. QED
    BY <1>1, StreamInvariant, PTL

\* No packet is lost while the connection is whole: what was enqueued is sent,
\* or still has its place in one of the queues between the two threads.
THEOREM NothingLost ==
  Spec => [](~broken => LaidOut(wire, writeQueue, buffer, bufferQueue, sent))
  <1>1. StreamInv => (~broken => LaidOut(wire, writeQueue, buffer, bufferQueue, sent))
    BY DEF StreamInv, Stream
  <1>2. QED
    BY <1>1, StreamInvariant, PTL

-----------------------------------------------------------------------------
(* The types of the other variables.                                       *)

\* _connections counts the socket while it is in a list of the thread.
ConnectionCounted == connections = IF where \in {"new", "sockets"} THEN 1 ELSE 0

OtherTypes ==
    /\ where \in {"incoming", "new", "sockets", "removed"}
    /\ ConnectionCounted
    /\ buffered \in 0..MaxBuffered /\ writing \in BOOLEAN /\ opcode \in Opcodes
    /\ buffer # <<>> => netpc = "pack"

LEMMA OtherNext == SocketInv /\ StreamInv /\ OtherTypes /\ [Next]_vars => OtherTypes'
  <1> SUFFICES ASSUME SocketInv, StreamInv, OtherTypes, [Next]_vars PROVE OtherTypes'
    OBVIOUS
  <1> USE SocketAssumption DEF SocketAssumption, OtherTypes, ConnectionCounted, Opcodes, threadVars, socketVars, sendVars
  <1>1. CASE AddSocket \/ Update_Check
    BY <1>1 DEF AddSocket, Update_Check, Leave, SocketInv, OneReader
  <1>2. CASE AddNewSockets
    BY <1>2 DEF AddNewSockets, Leave
  <1>3. CASE ProcessProxyProtocol \/ HandleAuthSession \/ ReadHandler_Error
             \/ ReadDataHandler_Duplicate \/ ReadDataHandler_Log \/ ReadDataHandler_Lock
             \/ CloseSocket_OnClose
    BY <1>3 DEF ProcessProxyProtocol, HandleAuthSession, ReadHandler_Error, ReadDataHandler_Duplicate,
          ReadDataHandler_Log, ReadDataHandler_Lock, CloseSocket_OnClose
  <1>4. CASE SendPacket_Test \/ KickPlayer \/ AddSession_ \/ KickPlayer_OnClose \/ DeleteSession
             \/ SendPacket_Enqueue
    BY <1>4 DEF SendPacket_Test, KickPlayer, AddSession_, KickPlayer_OnClose, DeleteSession,
          SendPacket_Enqueue
  <1>5. CASE UNCHANGED vars
    BY <1>5 DEF vars
  <1>6. CASE Update_Pack \/ Update_Queue
    BY <1>6 DEF Update_Pack, Update_Queue
  <1>7. CASE Update_Write \/ WriteHandlerWrapper
    BY <1>7 DEF Update_Write, WriteHandlerWrapper, HandleQueue, Pop
  <1>8. CASE Update_Callbacks
    BY <1>8 DEF Update_Callbacks
  <1>9. CASE ReadHandlerInternal
    BY <1>9 DEF ReadHandlerInternal
  <1>10. CASE ReadDataHandler_Unlock
    BY <1>10 DEF ReadDataHandler_Unlock
  <1>11. QED
    BY <1>1, <1>2, <1>3, <1>4, <1>5, <1>6, <1>7, <1>8, <1>9, <1>10 DEF Next, NetworkLoop, WorldLoop, Gone

LEMMA OtherInvariant == Spec => []OtherTypes
  <1>1. Init => OtherTypes
    <2>1. MaxBuffered \in Nat
      BY SocketAssumption DEF SocketAssumption
    <2>2. 0 \in 0..MaxBuffered
      BY <2>1
    <2>3. QED
      BY <2>2 DEF Init, OtherTypes, ConnectionCounted, Opcodes
  <1>2. QED
    BY <1>1, OtherNext, SocketInvariant, StreamInvariant, PTL DEF Spec

\* Every variable has its type in every state, and _connections counts the
\* socket exactly while it is in _newSockets or _sockets: whichever way it goes
\* (not started, bad proxy header, closed by either thread), it is counted out
\* once.
THEOREM SocketTypes == Spec => [](TypeOK /\ ConnectionCounted)
  <1>1. SocketInv /\ StreamInv /\ OtherTypes => TypeOK /\ ConnectionCounted
    <2> SUFFICES ASSUME SocketInv, StreamInv, OtherTypes PROVE TypeOK /\ ConnectionCounted
      OBVIOUS
    <2>1. callbacks \in Seq({"ip", "auth", "permissions"})
      <3> DEFINE Queries == {"ip", "auth", "permissions"}
      <3>1. <<>> \in Seq(Queries) /\ \A q \in Queries : <<q>> \in Seq(Queries)
        OBVIOUS
      <3>2. callbacks = <<>> \/ \E q \in Queries : callbacks = <<q>>
        BY DEF SocketInv, ControlTypes
      <3>3. QED
        BY <3>1, <3>2
    <2>2. QED
      BY <2>1 DEF SocketInv, ControlTypes, StreamInv, StreamTypes, OtherTypes, ConnectionCounted, TypeOK
  <1>2. QED
    BY <1>1, SocketInvariant, StreamInvariant, OtherInvariant, PTL

=============================================================================
