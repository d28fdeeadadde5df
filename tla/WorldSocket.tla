---------------------------- MODULE WorldSocket ----------------------------
(***************************************************************************)
(* One client connection: Socket and WorldSocket, the NetworkThread that   *)
(* owns them, and the WorldSession the world thread runs for the client.   *)
(*                                                                         *)
(* Everything but three things happens on the network thread: the world    *)
(* thread enqueues packets (_bufferQueue, the FIFO that MPSCQueue          *)
(* implements), closes the socket of a session it kicks, and deletes the   *)
(* session.  _closed and _closing are atomics; _worldSessionLock protects  *)
(* the pointer _worldSession, which the network thread follows while it    *)
(* holds the lock: with a test of the pointer for most messages (netpc =   *)
(* "using"), without one to log a second CMSG_AUTH_SESSION ("logging").  A *)
(* null pointer followed ends the process ("crashed").                     *)
(*                                                                         *)
(* Packets are numbered in the order they are enqueued and carry a size    *)
(* and whether their header is encrypted; a client message is its opcode.  *)
(***************************************************************************)
EXTENDS Naturals, Sequences, SequencesExt

CONSTANTS
    SendBufferSize,     \* _sendBufferSize
    PacketSizes,        \* sizes of the packets the world thread sends
    BehindProxy,        \* Network.EnableProxyProtocol
    MaxBuffered,        \* messages that fit into _readBuffer behind another
    MaxSent             \* bound on the packets enqueued

ASSUME SocketAssumption ==
    /\ SendBufferSize \in Nat \ {0} /\ PacketSizes \subseteq Nat \ {0}
    /\ BehindProxy \in BOOLEAN /\ {MaxBuffered, MaxSent} \subseteq Nat

VARIABLES
    where,          \* "incoming", or the container of NetworkThread it is in
    connections,    \* _connections, as far as this socket is counted
    proxy,          \* _proxyState
    closed, closing,\* _closed and _closing
    reading,        \* async_read_some calls under way
    buffered,       \* messages in _readBuffer that were not handled yet
    writing,        \* _isWritingAsync
    bufferQueue,    \* _bufferQueue
    buffer,         \* the local buffer of WorldSocket::Update, as its packets
    writeQueue,     \* _writeQueue, a buffer being the packets in it
    broken,         \* the peer is gone: writing fails from now on (external)
    wire,           \* the packets sent completely
    sent,           \* history: every packet that was enqueued
    callbacks,      \* the queries in _queryProcessor
    authed, crypt,  \* _authed and _authCrypt.IsInitialized()
    worldSession,   \* _worldSession is not null
    session,        \* what became of the WorldSession object
    made,           \* how many were made
    netpc, opcode,  \* the network thread, and the message it handles
    worldpc         \* the world thread

socketVars == <<closed, closing, reading, buffered, writing>>
sendVars == <<bufferQueue, buffer, writeQueue, broken, wire, sent>>
threadVars == <<where, connections, proxy>>
authVars == <<callbacks, authed, crypt>>
sessionVars == <<worldSession, session, made>>
vars == <<threadVars, socketVars, sendVars, authVars, sessionVars, netpc, opcode, worldpc>>

Packet == [n : Nat, size : Nat, encrypted : BOOLEAN]
Opcodes == {"malformed", "auth", "ping", "other"}

TypeOK ==
    /\ where \in {"incoming", "new", "sockets", "removed"} /\ connections \in 0..1
    /\ proxy \in {"idle", "started", "finished", "failed"}
    /\ closed \in BOOLEAN /\ closing \in BOOLEAN /\ reading \in Nat
    /\ buffered \in 0..MaxBuffered /\ writing \in BOOLEAN
    /\ bufferQueue \in Seq(Packet) /\ buffer \in Seq(Packet) /\ writeQueue \in Seq(Seq(Packet))
    /\ broken \in BOOLEAN /\ wire \in Seq(Packet) /\ sent \in Seq(Packet)
    /\ callbacks \in Seq({"ip", "auth", "permissions"})
    /\ authed \in BOOLEAN /\ crypt \in BOOLEAN
    /\ worldSession \in BOOLEAN /\ made \in Nat
    /\ session \in {"none", "made", "added", "active", "deleted"}
    /\ netpc \in {"idle", "pack", "check", "write", "callbacks", "data", "using", "logging", "close",
                "crashed"}
    /\ opcode \in Opcodes
    /\ worldpc \in {"idle", "send", "close", "refuse", "delete"}

Init ==
    /\ where = "incoming" /\ connections = 0 /\ proxy = "idle"
    /\ closed = FALSE /\ closing = FALSE /\ reading = 0 /\ buffered = 0
    /\ writing = FALSE
    /\ bufferQueue = <<>> /\ buffer = <<>> /\ writeQueue = <<>> /\ broken = FALSE
    /\ wire = <<>> /\ sent = <<>>
    /\ callbacks = <<>> /\ authed = FALSE /\ crypt = FALSE
    /\ worldSession = FALSE /\ session = "none" /\ made = 0
    /\ netpc = "idle" /\ opcode = "other" /\ worldpc = "idle"

IsOpen == ~closed /\ ~closing

\* AsyncRead, from a handler during which no read is under way.
AsyncRead == reading' = IF IsOpen THEN reading + 1 ELSE reading

\* SendPacket, the part behind the test of IsOpen.  Packets beyond MaxSent are
\* not followed.
SendPacket(size, encrypt) ==
    LET p == [n |-> Len(sent) + 1, size |-> size, encrypted |-> encrypt] IN
    IF Len(sent) < MaxSent
    THEN bufferQueue' = Append(bufferQueue, p) /\ sent' = Append(sent, p)
    ELSE UNCHANGED <<bufferQueue, sent>>

-----------------------------------------------------------------------------
(* NetworkThread                                                           *)

\* The acceptor hands a connection over.
AddSocket ==
    /\ where = "incoming"
    /\ where' = "new"
    /\ connections' = connections + 1
    /\ UNCHANGED <<proxy, socketVars, sendVars, authVars, sessionVars, netpc, opcode, worldpc>>

Leave == where' = "removed" /\ connections' = connections - 1

\* AddNewSockets: a socket that is still open is started, behind a proxy only
\* after the header of the proxy was read.  Start asks for the bans of the
\* address.
AddNewSockets ==
    /\ netpc = "idle" /\ where = "new"
    /\ \/ /\ ~IsOpen \/ (BehindProxy /\ proxy = "failed")
          /\ Leave
          /\ UNCHANGED <<proxy, reading, callbacks>>
       \/ /\ IsOpen /\ (BehindProxy => proxy = "finished")
          /\ where' = "sockets"
          /\ callbacks' = Append(callbacks, "ip")
          /\ UNCHANGED <<connections, proxy, reading>>
       \/ /\ IsOpen /\ BehindProxy /\ proxy = "idle"
          /\ proxy' = "started"
          /\ AsyncRead
          /\ UNCHANGED <<where, connections, callbacks>>
    /\ UNCHANGED <<closed, closing, buffered, writing, sendVars, authed, crypt, sessionVars,
                   netpc, opcode, worldpc>>

\* ProcessProxyProtocol: the header is bad, complete, or not all there yet; or
\* reading failed and the socket is closed.
ProcessProxyProtocol ==
    /\ netpc = "idle" /\ proxy = "started" /\ reading > 0
    /\ \/ /\ proxy' \in {"finished", "failed"}
          /\ reading' = reading - 1
          /\ UNCHANGED closed
       \/ UNCHANGED <<proxy, reading, closed>>
       \/ /\ closed' = TRUE
          /\ reading' = reading - 1
          /\ UNCHANGED proxy
    /\ UNCHANGED <<where, connections, closing, buffered, writing, sendVars, authVars,
                   sessionVars, netpc, opcode, worldpc>>

-----------------------------------------------------------------------------
(* Update                                                                  *)

SizeOf(packets) == FoldSeq(LAMBDA p, s : p.size + s, 0, packets)

\* Mutant: a large packet overtakes the buffer in front of it.
PackLargeFirst(acc, p) ==
    IF SizeOf(acc.buffer) + p.size <= SendBufferSize
    THEN [acc EXCEPT !.buffer = Append(@, p)]
    ELSE IF p.size <= SendBufferSize
         THEN [queue |-> Append(acc.queue, acc.buffer), buffer |-> <<p>>]
         ELSE [acc EXCEPT !.queue = Append(@, <<p>>)]

\* One packet more: it goes into the buffer; a buffer without room for it is
\* queued (even an empty one); a packet larger than any buffer gets its own.
Pack(acc, p) ==
    IF SizeOf(acc.buffer) + p.size <= SendBufferSize
    THEN [acc EXCEPT !.buffer = Append(@, p)]
    ELSE IF p.size <= SendBufferSize
         THEN [queue |-> Append(acc.queue, acc.buffer), buffer |-> <<p>>]
         ELSE [queue |-> acc.queue \o <<acc.buffer, <<p>>>>, buffer |-> <<>>]

\* WorldSocket::Update looks into _bufferQueue, for the first time or again.
Dequeue == netpc = "pack" \/ (netpc = "idle" /\ where = "sockets")

\* It empties _bufferQueue, into which the world thread may write meanwhile,
\* one packet after the other.
Update_Pack ==
    /\ Dequeue /\ bufferQueue # <<>>
    /\ LET packed == Pack([queue |-> writeQueue, buffer |-> buffer], Head(bufferQueue))
       IN writeQueue' = packed.queue /\ buffer' = packed.buffer
    /\ bufferQueue' = Tail(bufferQueue)
    /\ netpc' = "pack"
    /\ UNCHANGED <<threadVars, socketVars, broken, wire, sent, authVars, sessionVars,
                   opcode, worldpc>>

\* Nothing is left: what is in the buffer is queued.
Update_Queue ==
    /\ Dequeue /\ bufferQueue = <<>>
    /\ writeQueue' = IF buffer = <<>> THEN writeQueue ELSE Append(writeQueue, buffer)
    /\ buffer' = <<>>
    /\ netpc' = "check"
    /\ UNCHANGED <<threadVars, socketVars, bufferQueue, broken, wire, sent, authVars, sessionVars,
                   opcode, worldpc>>

\* Mutant: a closed socket is removed only after its callbacks were processed.
CheckLate ==
    /\ netpc = "check"
    /\ netpc' = IF writing \/ (writeQueue = <<>> /\ ~closing) THEN "callbacks" ELSE "write"
    /\ UNCHANGED <<threadVars, socketVars, sendVars, authVars, sessionVars, opcode, worldpc>>

\* Socket::Update: a closed socket leaves the network thread.
Update_Check ==
    /\ netpc = "check"
    /\ \/ closed /\ Leave /\ netpc' = "idle"
       \/ /\ ~closed
          /\ netpc' = IF writing \/ (writeQueue = <<>> /\ ~closing) THEN "callbacks" ELSE "write"
          /\ UNCHANGED <<where, connections>>
    /\ UNCHANGED <<proxy, socketVars, sendVars, authVars, sessionVars, opcode, worldpc>>

\* HandleQueue pops the front buffer; a socket marked for closing is closed
\* with its last buffer.  It is so marked only while there is no session, so
\* that OnClose has nothing to do.
Pop ==
    /\ writeQueue' = Tail(writeQueue)
    /\ closed' = (closed \/ (closing /\ Len(writeQueue) = 1))
    /\ writing' = FALSE

\* CloseSocket sets _closed first and then shuts the connection down: until
\* then the network thread can still write.
ShutDown == closed /\ worldpc \notin {"close", "refuse"}

\* HandleQueue, called while _isWritingAsync is false: the front buffer cannot
\* be sent in full now, is sent (an empty one ends the loop), or is lost with
\* the connection.  `more` is what it returns.
HandleQueue(more) ==
    \/ /\ writeQueue = <<>> /\ ~more
       /\ writing' = FALSE
       /\ UNCHANGED <<writeQueue, closed, broken, wire>>
    \/ /\ writeQueue # <<>> /\ Head(writeQueue) # <<>> /\ ~broken /\ ~ShutDown /\ ~more
       /\ writing' = TRUE
       /\ UNCHANGED <<writeQueue, closed, broken, wire>>
    \/ /\ writeQueue # <<>> /\ ~broken /\ ~ShutDown
       /\ Pop
       /\ wire' = wire \o Head(writeQueue)
       /\ more = (Head(writeQueue) # <<>> /\ Len(writeQueue) > 1)
       /\ UNCHANGED broken
    \/ /\ writeQueue # <<>> /\ ~more
       /\ Pop
       /\ broken' = TRUE
       /\ UNCHANGED wire

Update_Write ==
    /\ netpc = "write"
    /\ \E more \in BOOLEAN :
        /\ HandleQueue(more)
        /\ netpc' = IF more THEN "write" ELSE "callbacks"
    /\ UNCHANGED <<threadVars, closing, reading, buffered, bufferQueue, buffer, sent, authVars,
                   sessionVars, opcode, worldpc>>

\* The socket has become writable again; the result of HandleQueue is ignored.
WriteHandlerWrapper ==
    /\ netpc = "idle" /\ writing
    /\ \E more \in BOOLEAN : HandleQueue(more)
    /\ UNCHANGED <<threadVars, closing, reading, buffered, bufferQueue, buffer, sent, authVars,
                   sessionVars, netpc, opcode, worldpc>>

-----------------------------------------------------------------------------
(* Authentication: the callbacks of _queryProcessor                        *)

\* SendAuthResponseError, then DelayedCloseSocket, which looks at _writeQueue
\* only.
Refuse(encrypt) ==
    /\ SendPacket(1, encrypt)
    /\ closing' = TRUE
    /\ closed' = (writeQueue = <<>>)
    /\ UNCHANGED reading

CheckIpCallback ==
    /\ \/ Refuse(crypt)
       \/ AsyncRead /\ SendPacket(1, crypt) /\ UNCHANGED <<closed, closing>>
    /\ UNCHANGED <<authed, crypt, sessionVars>>

\* The account is unknown; it is known but may not log in, which the client is
\* told with an encrypted header; or the session is made, its permissions are
\* asked for and reading goes on.
HandleAuthSessionCallback ==
    \/ /\ crypt' \in {crypt, TRUE}
       /\ Refuse(crypt')
       /\ UNCHANGED <<authed, sessionVars>>
    \/ /\ AsyncRead
       /\ authed' = TRUE /\ crypt' = TRUE
       /\ worldSession' = TRUE /\ session' = "made" /\ made' = made + 1
       /\ UNCHANGED <<closed, closing, bufferQueue, sent>>

\* The session goes to the world, or there is none and the process crashes.
LoadSessionPermissionsCallback ==
    /\ worldSession
    /\ session' = "added"
    /\ UNCHANGED <<closed, closing, reading, bufferQueue, sent, authed, crypt,
                   worldSession, made>>

\* ProcessReadyCallbacks: nothing is ready, or the first callback is.  There
\* never is more than one.
Update_Callbacks ==
    /\ netpc = "callbacks"
    /\ netpc' = "idle"
    /\ \/ UNCHANGED <<socketVars, sendVars, authVars, sessionVars>>
       \/ /\ callbacks # <<>>
          /\ \/ Head(callbacks) = "ip" /\ CheckIpCallback
             \/ Head(callbacks) = "auth" /\ HandleAuthSessionCallback
             \/ Head(callbacks) = "permissions" /\ LoadSessionPermissionsCallback
          /\ callbacks' = IF made' > made THEN Append(Tail(callbacks), "permissions")
                                          ELSE Tail(callbacks)
          /\ UNCHANGED <<buffered, writing, buffer, writeQueue, broken, wire>>
    /\ UNCHANGED <<threadVars, opcode, worldpc>>

-----------------------------------------------------------------------------
(* Reading                                                                 *)

\* CloseSocket on the network thread, up to OnClose.
CloseSocket ==
    /\ closed' = TRUE
    /\ netpc' = IF closed THEN "idle" ELSE "close"

\* ReadHandlerInternal: reading failed, or there is a message and the socket
\* still open.
ReadHandlerInternal ==
    /\ netpc = "idle" /\ proxy # "started" /\ reading > 0
    /\ reading' = reading - 1
    /\ \/ CloseSocket /\ UNCHANGED opcode
       \/ /\ netpc' = IF IsOpen THEN "data" ELSE "idle"
          /\ opcode' \in Opcodes
          /\ UNCHANGED closed
    /\ buffered' \in buffered..MaxBuffered
    /\ UNCHANGED <<threadVars, closing, writing, sendVars, authVars, sessionVars, worldpc>>

\* Mutant: reading goes on while the account is looked up.
AuthKeepsReading ==
    /\ netpc = "data" /\ opcode = "auth" /\ ~authed
    /\ callbacks' = Append(callbacks, "auth")
    /\ AsyncRead
    /\ netpc' = "idle"
    /\ UNCHANGED <<threadVars, closed, closing, buffered, writing, sendVars, authed, crypt,
                   sessionVars, opcode, worldpc>>

\* HandleAuthSession: the query is sent and nothing read before its answer.
HandleAuthSession ==
    /\ netpc = "data" /\ opcode = "auth" /\ ~authed
    /\ callbacks' = Append(callbacks, "auth")
    /\ netpc' = "idle"
    /\ UNCHANGED <<threadVars, socketVars, sendVars, authed, crypt, sessionVars, opcode, worldpc>>

\* A message that leads to an error: malformed, over-speed pings, an opcode
\* without handler, a second CMSG_AUTH_SESSION that is not logged since the
\* lock is not to be had at once (or the logger is off).
ReadHandler_Error ==
    /\ netpc = "data"
    /\ CloseSocket
    /\ UNCHANGED <<threadVars, closing, reading, buffered, writing, sendVars, authVars, sessionVars,
                   opcode, worldpc>>

\* A second CMSG_AUTH_SESSION: the lock is tried and had.
ReadDataHandler_Duplicate ==
    /\ netpc = "data" /\ opcode = "auth" /\ authed
    /\ netpc' = "logging"
    /\ UNCHANGED <<threadVars, socketVars, sendVars, authVars, sessionVars, opcode, worldpc>>

\* Who sent it is asked of the session, the pointer not being tested; then it
\* is an error.
ReadDataHandler_Log ==
    /\ netpc = "logging"
    /\ IF worldSession THEN CloseSocket ELSE netpc' = "crashed" /\ UNCHANGED closed
    /\ UNCHANGED <<threadVars, closing, reading, buffered, writing, sendVars, authVars, sessionVars,
                   opcode, worldpc>>

\* The other messages are for the session: the lock is taken and the pointer
\* tested.
ReadDataHandler_Lock ==
    /\ netpc = "data" /\ opcode \in {"ping", "other"}
    /\ worldSession
    /\ netpc' = "using"
    /\ UNCHANGED <<threadVars, socketVars, sendVars, authVars, sessionVars, opcode, worldpc>>

\* The session has the message, the lock is released, a ping answered; then
\* the next message in the buffer is handled or the next read started.
ReadDataHandler_Unlock ==
    /\ netpc = "using"
    /\ IF opcode = "ping" /\ IsOpen
       THEN SendPacket(1, crypt) ELSE UNCHANGED <<bufferQueue, sent>>
    /\ IF buffered = 0
       THEN netpc' = "idle" /\ AsyncRead /\ UNCHANGED <<opcode, buffered>>
       ELSE netpc' = "data" /\ opcode' \in Opcodes /\ buffered' = buffered - 1 /\ UNCHANGED reading
    /\ UNCHANGED <<threadVars, closed, closing, writing, buffer, writeQueue, broken, wire,
                   authVars, sessionVars, worldpc>>

\* Mutant: OnClose does not take the lock.
OnClose_Unlocked == worldSession' = FALSE

\* WorldSocket::OnClose.
OnClose ==
    /\ netpc \notin {"using", "logging"}
    /\ worldSession' = FALSE

CloseSocket_OnClose ==
    /\ netpc = "close"
    /\ netpc' = "idle"
    /\ OnClose
    /\ UNCHANGED <<threadVars, socketVars, sendVars, authVars, session, made, opcode, worldpc>>

-----------------------------------------------------------------------------
(* The world thread                                                        *)

\* AddSession_: the session is taken in, or kicked and deleted because the
\* account is on a loading screen with another one.
AddSession_ ==
    /\ worldpc = "idle" /\ session = "added"
    /\ \/ session' = "active" /\ UNCHANGED <<closed, worldpc>>
       \/ /\ closed' = TRUE
          /\ worldpc' = IF closed THEN "delete" ELSE "refuse"
          /\ UNCHANGED session
    /\ UNCHANGED <<threadVars, closing, reading, buffered, writing, sendVars, authVars, worldSession,
                   made, netpc, opcode>>

\* SendPacket: IsOpen is tested, and the packet enqueued later.
SendPacket_Test ==
    /\ worldpc = "idle" /\ session = "active"
    /\ IsOpen
    /\ worldpc' = "send"
    /\ UNCHANGED <<threadVars, socketVars, sendVars, authVars, sessionVars, netpc, opcode>>

SendPacket_Enqueue ==
    /\ worldpc = "send"
    /\ worldpc' = "idle"
    /\ \E size \in PacketSizes : SendPacket(size, crypt)
    /\ UNCHANGED <<threadVars, socketVars, buffer, writeQueue, broken, wire, authVars, sessionVars,
                   netpc, opcode>>

\* KickPlayer, and the idle timer of WorldSession::Update: CloseSocket.
KickPlayer ==
    /\ worldpc = "idle" /\ session = "active"
    /\ ~closed
    /\ closed' = TRUE
    /\ worldpc' = "close"
    /\ UNCHANGED <<threadVars, closing, reading, buffered, writing, sendVars, authVars, sessionVars,
                   netpc, opcode>>

KickPlayer_OnClose ==
    /\ worldpc \in {"close", "refuse"}
    /\ OnClose
    /\ worldpc' = IF worldpc = "close" THEN "idle" ELSE "delete"
    /\ UNCHANGED <<threadVars, socketVars, sendVars, authVars, session, made, netpc, opcode>>

\* Mutant: only a session that was refused is deleted.
DeleteRefusedOnly ==
    /\ worldpc = "delete"
    /\ session' = "deleted"
    /\ worldpc' = "idle"
    /\ UNCHANGED <<threadVars, socketVars, sendVars, authVars, worldSession, made, netpc, opcode>>

\* WorldSession::Update gives the socket up when it is closed (and the player
\* gone or the time expired), and World::UpdateSessions deletes the session.
DeleteSession ==
    /\ \/ worldpc = "idle" /\ session = "active" /\ ~IsOpen
       \/ worldpc = "delete"
    /\ session' = "deleted"
    /\ worldpc' = "idle"
    /\ UNCHANGED <<threadVars, socketVars, sendVars, authVars, worldSession, made, netpc, opcode>>

-----------------------------------------------------------------------------
\* What the network thread does in its loop without being asked to.
NetworkLoop ==
    \/ AddNewSockets
    \/ Update_Pack \/ Update_Queue \/ Update_Check \/ Update_Write \/ Update_Callbacks
    \/ HandleAuthSession \/ ReadHandler_Error \/ ReadDataHandler_Duplicate \/ ReadDataHandler_Log
    \/ ReadDataHandler_Lock \/ ReadDataHandler_Unlock
    \/ CloseSocket_OnClose

\* Both threads are threads of one process.
Alive == netpc # "crashed"

WorldLoop ==
    /\ Alive
    /\ AddSession_ \/ SendPacket_Enqueue \/ KickPlayer_OnClose \/ DeleteSession

Gone == (where = "removed" \/ ~Alive) /\ UNCHANGED vars

Next ==
    \/ AddSocket \/ ProcessProxyProtocol \/ WriteHandlerWrapper \/ ReadHandlerInternal
    \/ NetworkLoop
    \/ Alive /\ SendPacket_Test
    \/ Alive /\ KickPlayer
    \/ WorldLoop
    \/ Gone

Spec == Init /\ [][Next]_vars

\* Both loops go on; a client need not send or read anything, and nobody need
\* be kicked.
FairSpec == Spec /\ WF_vars(NetworkLoop) /\ WF_vars(WorldLoop)

-----------------------------------------------------------------------------
(* Properties                                                              *)

\* While the network thread holds _worldSessionLock, a pointer it found not to
\* be null stays so, and a pointer that is not null, tested or not, points to
\* a session that exists, although the world thread may kick and delete it at
\* any time.
SessionAlive ==
    /\ netpc = "using" => worldSession
    /\ netpc \in {"using", "logging"} /\ worldSession => session \in {"made", "added", "active"}

\* "locking just to safely log offending user": with the lock taken, there is
\* a session whose player can be logged.
LoggedSafely == netpc = "logging" => worldSession

\* LoadSessionPermissionsCallback, which neither takes the lock nor tests the
\* pointer, finds the session: when the client has gone meanwhile, Update has
\* returned before the callbacks.
PermissionsFindSession ==
    netpc = "callbacks" /\ callbacks # <<>> /\ Head(callbacks) = "permissions" => worldSession

\* One read at a time, none while the account is looked up, and so one query
\* and one session however often the client sends CMSG_AUTH_SESSION.
AuthenticatedOnce ==
    /\ reading <= 1 /\ made <= 1 /\ Len(callbacks) <= 1
    /\ callbacks # <<>> /\ callbacks[1] = "auth" => reading = 0 /\ netpc # "data"

\* The client gets the packets in the order they were enqueued, without a gap,
\* so that its cipher stays in step: buffers, packets larger than a buffer,
\* partial writes and errors do not change the order.
StreamInOrder == IsPrefix(wire, sent)

\* A socket that was closed leaves the network thread, whoever closed it,
\* unless the process crashes.
ClosedIsRemoved == closed ~> where = "removed" \/ ~Alive

\* A session known to the world is deleted once its socket is closed, unless
\* the process crashes.
SessionEnds == session \in {"added", "active"} /\ closed ~> session = "deleted" \/ ~Alive

\* "Marks the socket for closing after write buffer becomes empty": when the
\* connection itself is all right, what was sent before is written first.
ClosedAfterWriting ==
    closing /\ closed /\ ~broken => wire = sent

=============================================================================
