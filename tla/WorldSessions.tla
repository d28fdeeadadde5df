---------------------------- MODULE WorldSessions ----------------------------
(***************************************************************************)
(* World::UpdateSessions and the sessions it runs: who is let in, who      *)
(* waits in the login queue, how a character is loaded, played, logged out *)
(* and saved, and how a session ends.                                      *)
(*                                                                         *)
(* The world thread alternates between a pass of UpdateSessions (it adds   *)
(* the sessions the network thread has put into addSessQueue, then updates *)
(* every session of m_sessions) and the update of the maps, in which the   *)
(* characters get on.  Network threads add sessions and close sockets, and *)
(* the worker of the character database executes its queue, at any time.   *)
(*                                                                         *)
(* An account has one character, whose data is a counter of its progress.  *)
(* CharacterDatabase.WorkerThreads is 1, its default, so the queue of the  *)
(* pool is executed in order (DatabaseWorkerPool!TakenInOrder).            *)
(***************************************************************************)
EXTENDS Naturals, Sequences, FiniteSets, SequencesExt

CONSTANTS
    Accounts,
    Sessions,       \* WorldSession objects
    Account,        \* the account of each session
    SkipQueue,      \* the accounts that have RBAC_PERM_SKIP_QUEUE
    PlayerLimit,    \* m_playerLimit, 0 for none
    Tolerance,      \* CONFIG_INTERVAL_DISCONNECT_TOLERANCE is not zero
    LoggingIn,      \* bound: the accounts whose client asks to log in
    MaxProgress,    \* bound on the progress of a character
    None            \* no session, no character

ASSUME SessionsAssumption ==
    /\ IsFiniteSet(Sessions) /\ IsFiniteSet(Accounts)
    /\ Account \in [Sessions -> Accounts] /\ SkipQueue \subseteq Accounts
    /\ PlayerLimit \in Nat /\ Tolerance \in BOOLEAN
    /\ LoggingIn \subseteq Accounts /\ MaxProgress \in Nat
    /\ None \notin Accounts \cup Sessions \cup Nat

VARIABLES
    life,           \* of each session: what became of the object
    addSessQueue,
    sessions,       \* m_sessions
    queued,         \* m_QueuedPlayer
    disconnects,    \* the accounts of m_disconnects
    socket,         \* of each session: m_Socket open, closed, or null
    forceExit,      \* the sessions whose forceExit,
    inQueue,        \* ... whose m_inQueue,
    loading,        \* ... and whose m_playerLoading is set
    initHolder,     \* of each session: the query holder of InitializeSession
    loginHolder,    \* of each session: the LoginQueryHolder
    loaded,         \* of each session: the row in its LoginQueryHolder
    player,         \* of each session: _player
    dbQueue,        \* the queue of the character database
    stored,         \* of each account: the row in the database (external)
    progress,       \* history: the latest state of each character
    worldpc, todo, cur, \* the world thread, the accounts it has still to update
                    \* in this pass, and the one it is updating
    stopping        \* KickAll was called

worldVars == <<addSessQueue, sessions, queued, disconnects>>
sessionVars == <<life, socket, forceExit, inQueue>>
loginVars == <<loading, initHolder, loginHolder, loaded, player>>
dbVars == <<dbQueue, stored, progress>>
threadVars == <<worldpc, todo, cur, stopping>>
vars == <<worldVars, sessionVars, loginVars, dbVars, threadVars>>

Holder == {"none", "asked", "ready"}
Row == 0..MaxProgress
Operation == [kind : {"init", "login"}, of : Sessions, row : {0}]
             \cup [kind : {"save"}, of : Accounts, row : Row]

TypeOK ==
    /\ life \in [Sessions -> {"new", "adding", "live", "gone"}]
    /\ addSessQueue \in Seq(Sessions) /\ queued \in Seq(Sessions)
    /\ sessions \in [Accounts -> Sessions \cup {None}]
    /\ disconnects \subseteq Accounts
    /\ socket \in [Sessions -> {"open", "closed", "null"}]
    /\ forceExit \subseteq Sessions /\ inQueue \subseteq Sessions /\ loading \subseteq Sessions
    /\ initHolder \in [Sessions -> Holder] /\ loginHolder \in [Sessions -> Holder]
    /\ loaded \in [Sessions -> Row]
    /\ player \in [Sessions -> Row \cup {None}]
    /\ dbQueue \in Seq(Operation)
    /\ stored \in [Accounts -> Row] /\ progress \in [Accounts -> Row]
    /\ worldpc \in {"maps", "add", "next", "packets", "finish", "stopped"}
    /\ todo \subseteq Accounts /\ cur \in Accounts \cup {None} /\ stopping \in BOOLEAN

Init ==
    /\ life = [s \in Sessions |-> "new"]
    /\ addSessQueue = <<>> /\ queued = <<>>
    /\ sessions = [a \in Accounts |-> None] /\ disconnects = {}
    /\ socket = [s \in Sessions |-> "open"]
    /\ forceExit = {} /\ inQueue = {} /\ loading = {}
    /\ initHolder = [s \in Sessions |-> "none"]
    /\ loginHolder = [s \in Sessions |-> "none"]
    /\ loaded = [s \in Sessions |-> 0]
    /\ player = [s \in Sessions |-> None]
    /\ dbQueue = <<>>
    /\ stored = [a \in Accounts |-> 0] /\ progress = [a \in Accounts |-> 0]
    /\ worldpc = "maps" /\ todo = {} /\ cur = None /\ stopping = FALSE

-----------------------------------------------------------------------------
(* Network threads and the worker of the character database                *)

\* WorldSocket::LoadSessionPermissionsCallback hands the session over.
AddSession(s) ==
    /\ life[s] = "new"
    /\ life' = [life EXCEPT ![s] = "adding"]
    /\ addSessQueue' = Append(addSessQueue, s)
    /\ UNCHANGED <<sessions, queued, disconnects, socket, forceExit, inQueue,
                   loginVars, dbVars, threadVars>>

\* The client goes away, or the connection is idle for too long.
CloseSocket(s) ==
    /\ life[s] \in {"adding", "live"} /\ socket[s] = "open"
    /\ socket' = [socket EXCEPT ![s] = "closed"]
    /\ UNCHANGED <<worldVars, life, forceExit, inQueue, loginVars, dbVars, threadVars>>

\* What the worker does for a holder that nobody waits for any more is lost
\* with the holder.
DbExecute ==
    /\ dbQueue # <<>>
    /\ dbQueue' = Tail(dbQueue)
    /\ LET op == Head(dbQueue) IN
       \/ /\ op.kind = "save"
          /\ stored' = [stored EXCEPT ![op.of] = op.row]
          /\ UNCHANGED <<initHolder, loginHolder, loaded>>
       \/ /\ op.kind = "init"
          /\ initHolder' = [initHolder EXCEPT ![op.of] = IF @ = "asked" THEN "ready" ELSE @]
          /\ UNCHANGED <<stored, loginHolder, loaded>>
       \/ /\ op.kind = "login"
          /\ loginHolder' = [loginHolder EXCEPT ![op.of] = IF @ = "asked" THEN "ready" ELSE @]
          /\ loaded' = [loaded EXCEPT ![op.of] =
                            IF loginHolder[op.of] = "asked" THEN stored[Account[op.of]] ELSE @]
          /\ UNCHANGED <<stored, initHolder>>
    /\ UNCHANGED <<worldVars, sessionVars, loading, player, progress, threadVars>>

-----------------------------------------------------------------------------
(* Helpers: m_sessions, the login queue, and what a session has to say to  *)
(* the database.                                                           *)

Online == {s \in Sessions : sessions[Account[s]] = s}
GetActiveAndQueuedSessionCount == Cardinality(Online)

\* Mutant: the session that leaves the queue is still counted.
RemoveQueuedPlayerMiscounts(sess, q, count) ==
    LET rest == RemoveFirst(q, sess)
        active == count - Len(q)
        admits == (PlayerLimit = 0 \/ active < PlayerLimit) /\ rest # <<>>
    IN  [found |-> sess \in Range(q),
         queued |-> IF admits THEN Tail(rest) ELSE rest,
         admitted |-> IF admits THEN <<Head(rest)>> ELSE <<>>]

\* RemoveQueuedPlayer(sess) on a queue q when m_sessions has count entries:
\* whether sess was queued, the queue afterwards, and who was let in.
RemoveQueuedPlayer(sess, q, count) ==
    LET found == sess \in Range(q)
        rest == RemoveFirst(q, sess)
        active == count - Len(q)
        others == IF ~found /\ active > 0 THEN active - 1 ELSE active
        admits == (PlayerLimit = 0 \/ others < PlayerLimit) /\ rest # <<>>
    IN  [found |-> found,
         queued |-> IF admits THEN Tail(rest) ELSE rest,
         admitted |-> IF admits THEN <<Head(rest)>> ELSE <<>>]

InitOps(seq) == [i \in DOMAIN seq |-> [kind |-> "init", of |-> seq[i], row |-> 0]]

\* Player::SaveToDB of LogoutPlayer, if there is a session and it has a character.
SaveOps(s) ==
    IF s = None \/ player[s] = None THEN <<>>
    ELSE <<[kind |-> "save", of |-> Account[s], row |-> player[s]]>>

\* Will the database have this row for account a when every pending save is
\* executed?  The last of them counts, or what is stored if there is none.
PendingSaves(a) == {i \in DOMAIN dbQueue : dbQueue[i].kind = "save" /\ dbQueue[i].of = a}
LatestSaveIs(a, row) ==
    \/ PendingSaves(a) = {} /\ stored[a] = row
    \/ \E i \in PendingSaves(a) : dbQueue[i].row = row /\ \A j \in PendingSaves(a) : j <= i

\* HasRecentlyDisconnected.  The arguments of its difftime are the wrong way
\* round: an entry never expires.
HasRecentlyDisconnected(s) == Tolerance /\ Account[s] \in disconnects

Put(f, D, v) == [s \in Sessions |-> IF s \in D THEN v ELSE f[s]]

\* The sessions of D are deleted: ~WorldSession logs the character out, and the
\* callbacks go with the session.  Those of B are now in m_sessions.
Delete(D, B) ==
    /\ life' = Put(Put(life, D, "gone"), B, "live")
    /\ socket' = Put(socket, D, "null")
    /\ forceExit' = forceExit \ D
    /\ loading' = loading \ D
    /\ loginHolder' = Put(loginHolder, D, "none")
    /\ loaded' = Put(loaded, D, 0)
    /\ player' = Put(player, D, None)

\* InitializeSession of the sessions of A; those of D are deleted.
InitializeSession(A, D) ==
    initHolder' = Put(Put(initHolder, A, "asked"), D, "none")

KickPlayer(s) ==
    /\ socket' = [socket EXCEPT ![s] = IF @ = "null" THEN @ ELSE "closed"]
    /\ forceExit' = IF socket[s] = "null" THEN forceExit ELSE forceExit \cup {s}

-----------------------------------------------------------------------------
(* UpdateSessions, first half: the new sessions                            *)

UpdateSessions ==
    /\ worldpc = "maps" /\ worldpc' = "add"
    /\ UNCHANGED <<worldVars, sessionVars, loginVars, dbVars, todo, cur, stopping>>

\* The account is loading a character in its other session: the new one is
\* kicked and deleted before it was added.
AddSession_Refuse ==
    /\ worldpc = "add" /\ addSessQueue # <<>>
    /\ LET s == Head(addSessQueue) IN
       /\ sessions[Account[s]] \in loading
       /\ Delete({s}, {}) /\ UNCHANGED initHolder
    /\ addSessQueue' = Tail(addSessQueue)
    /\ UNCHANGED <<sessions, queued, disconnects, inQueue, dbVars, threadVars>>

\* Mutant: one too many is let in.
LimitReachedLate(s, found, count) ==
    /\ PlayerLimit > 0
    /\ (IF found THEN count ELSE count - 1) > PlayerLimit
    /\ Account[s] \notin SkipQueue /\ ~HasRecentlyDisconnected(s)

\* Must s wait, when m_sessions has count entries with it?
LimitReached(s, found, count) ==
    /\ PlayerLimit > 0
    /\ (IF found THEN count ELSE count - 1) >= PlayerLimit
    /\ Account[s] \notin SkipQueue /\ ~HasRecentlyDisconnected(s)

\* Mutant: the old session is only kicked, and goes when it is next updated.
AddSession_KicksOnly ==
    /\ worldpc = "add" /\ addSessQueue # <<>>
    /\ LET s == Head(addSessQueue) IN
       /\ sessions[Account[s]] \notin loading
       /\ sessions' = [sessions EXCEPT ![Account[s]] = s]
       /\ Delete({}, {s}) /\ InitializeSession({s}, {})
       /\ dbQueue' = dbQueue \o InitOps(<<s>>)
    /\ addSessQueue' = Tail(addSessQueue)
    /\ UNCHANGED <<queued, disconnects, inQueue, stored, progress, threadVars>>

\* The session replaces an older one of its account, which is deleted, and is
\* let in or queued.
AddSession_ ==
    /\ worldpc = "add" /\ addSessQueue # <<>>
    /\ LET s == Head(addSessQueue)
           old == sessions[Account[s]]
           D == {old} \ {None}
           r == IF D = {} THEN [found |-> FALSE, queued |-> queued, admitted |-> <<>>]
                ELSE RemoveQueuedPlayer(old, queued, GetActiveAndQueuedSessionCount)
           count == Cardinality((Online \ D) \cup {s})
           waits == IF LimitReached(s, r.found, count) THEN <<s>> ELSE <<>>
           enters == IF waits = <<>> THEN <<s>> ELSE <<>>
       IN  /\ old \notin loading
           /\ sessions' = [sessions EXCEPT ![Account[s]] = s]
           /\ Delete(D, {s})
           /\ queued' = r.queued \o waits
           /\ inQueue' = (inQueue \ D) \cup Range(waits)
           /\ InitializeSession(Range(r.admitted \o enters), D)
           /\ dbQueue' = dbQueue \o InitOps(r.admitted) \o SaveOps(old) \o InitOps(enters)
    /\ addSessQueue' = Tail(addSessQueue)
    /\ UNCHANGED <<disconnects, stored, progress, threadVars>>

-----------------------------------------------------------------------------
(* UpdateSessions, second half: WorldSession::Update of every session      *)

UpdateSessions_Added ==
    /\ worldpc = "add" /\ addSessQueue = <<>>
    /\ worldpc' = "next" /\ todo' = {a \in Accounts : sessions[a] # None}
    /\ UNCHANGED <<worldVars, sessionVars, loginVars, dbVars, cur, stopping>>

Update(a) ==
    /\ worldpc = "next" /\ a \in todo
    /\ worldpc' = "packets" /\ cur' = a /\ todo' = todo \ {a}
    /\ UNCHANGED <<worldVars, sessionVars, loginVars, dbVars, stopping>>

\* A packet of STATUS_AUTHED: skipped while the session waits in the queue.  It
\* names a character of the account or of somebody else.
HandlePlayerLoginOpcode(legit) ==
    /\ worldpc = "packets" /\ cur \in LoggingIn
    /\ LET s == sessions[cur] IN
       /\ s \notin inQueue
       /\ \/ /\ s \in loading \/ player[s] # None
             /\ KickPlayer(s)
             /\ UNCHANGED <<loginVars, dbQueue>>
          \/ /\ s \notin loading /\ player[s] = None
             /\ loading' = loading \cup {s}
             /\ \/ /\ ~legit
                   /\ KickPlayer(s)
                   /\ UNCHANGED <<loginHolder, dbQueue>>
                \/ /\ legit
                   /\ loginHolder' = [loginHolder EXCEPT ![s] = "asked"]
                   /\ dbQueue' = Append(dbQueue, [kind |-> "login", of |-> s, row |-> 0])
                   /\ UNCHANGED <<socket, forceExit>>
             /\ UNCHANGED <<initHolder, loaded, player>>
    /\ UNCHANGED <<worldVars, life, inQueue, stored, progress, threadVars>>

LogoutPlayer(s) ==
    /\ player' = [player EXCEPT ![s] = None]
    /\ dbQueue' = dbQueue \o SaveOps(s)

\* An instant logout.  A request that has to wait its 20 seconds only sets
\* _logoutTime, see Update_Logout.
HandleLogoutRequestOpcode ==
    /\ worldpc = "packets" /\ player[sessions[cur]] # None
    /\ LogoutPlayer(sessions[cur])
    /\ UNCHANGED <<worldVars, sessionVars, loading, initHolder, loginHolder, loaded,
                   stored, progress, threadVars>>

\* Mutant: when LoadFromDB fails, m_playerLoading stays set and nobody is kicked.
HandlePlayerLoginForgets(s, ok) ==
    /\ player' = [player EXCEPT ![s] = IF ok THEN loaded[s] ELSE None]
    /\ loading' = IF ok THEN loading \ {s} ELSE loading
    /\ UNCHANGED <<socket, forceExit>>

\* LoadFromDB succeeds, or fails and the client is kicked.
HandlePlayerLogin(s, ok) ==
    /\ player' = [player EXCEPT ![s] = IF ok THEN loaded[s] ELSE None]
    /\ loading' = loading \ {s}
    /\ IF ok THEN UNCHANGED <<socket, forceExit>> ELSE KickPlayer(s)

\* ProcessReadyCallbacks: those whose holder is ready are invoked and removed.
ProcessQueryCallbacks ==
    /\ worldpc = "packets" /\ worldpc' = "finish"
    /\ LET s == sessions[cur] IN
       /\ initHolder' = [initHolder EXCEPT ![s] = IF @ = "ready" THEN "none" ELSE @]
       /\ inQueue' = IF initHolder[s] = "ready" THEN inQueue \ {s} ELSE inQueue
       /\ \/ /\ loginHolder[s] = "ready"
             /\ loginHolder' = [loginHolder EXCEPT ![s] = "none"]
             /\ loaded' = [loaded EXCEPT ![s] = 0]
             /\ \E ok \in BOOLEAN : HandlePlayerLogin(s, ok)
          \/ /\ loginHolder[s] # "ready"
             /\ UNCHANGED <<loginHolder, loaded, player, loading, socket, forceExit>>
    /\ UNCHANGED <<worldVars, life, dbVars, todo, cur, stopping>>

\* ShouldLogOut: the 20 seconds are over.
Update_Logout ==
    /\ worldpc = "finish"
    /\ player[sessions[cur]] # None /\ sessions[cur] \notin loading
    /\ LogoutPlayer(sessions[cur])
    /\ UNCHANGED <<worldVars, sessionVars, loading, initHolder, loginHolder, loaded,
                   stored, progress, threadVars>>

\* The socket is open, or expireTime has not run out.
Update_Keep ==
    /\ worldpc = "finish"
    /\ LET s == sessions[cur] IN
       socket[s] = "open" \/ (s \notin forceExit /\ player[s] # None)
    /\ worldpc' = "next" /\ cur' = None
    /\ UNCHANGED <<worldVars, sessionVars, loginVars, dbVars, todo, stopping>>

\* Mutant: the session is erased and deleted, and stays in the login queue.
Update_RemoveQueued ==
    /\ worldpc = "finish" /\ socket[sessions[cur]] = "closed"
    /\ sessions' = [sessions EXCEPT ![cur] = None]
    /\ Delete({sessions[cur]}, {}) /\ InitializeSession({}, {sessions[cur]})
    /\ inQueue' = inQueue \ {sessions[cur]}
    /\ dbQueue' = dbQueue \o SaveOps(sessions[cur])
    /\ worldpc' = "next" /\ cur' = None
    /\ UNCHANGED <<addSessQueue, queued, disconnects, stored, progress, todo, stopping>>

\* The socket is closed, and the player kicked, not there, or gone for as long
\* as expireTime allows: Update gives false.  RemoveQueuedPlayer is called twice.
Update_Remove ==
    /\ worldpc = "finish"
    /\ LET s == sessions[cur]
           first == RemoveQueuedPlayer(s, queued, GetActiveAndQueuedSessionCount)
           second == RemoveQueuedPlayer(s, first.queued, GetActiveAndQueuedSessionCount)
           admitted == first.admitted \o second.admitted
       IN  /\ socket[s] = "closed"
           /\ queued' = second.queued
           /\ disconnects' = IF ~first.found /\ Tolerance THEN disconnects \cup {cur} ELSE disconnects
           /\ sessions' = [sessions EXCEPT ![cur] = None]
           /\ Delete({s}, {}) /\ InitializeSession(Range(admitted), {s})
           /\ inQueue' = inQueue \ {s}
           /\ dbQueue' = dbQueue \o InitOps(admitted) \o SaveOps(s)
    /\ worldpc' = "next" /\ cur' = None
    /\ UNCHANGED <<addSessQueue, stored, progress, todo, stopping>>

UpdateSessions_End ==
    /\ worldpc = "next" /\ todo = {}
    /\ worldpc' = IF stopping THEN "stopped" ELSE "maps"
    /\ UNCHANGED <<worldVars, sessionVars, loginVars, dbVars, todo, cur, stopping>>

-----------------------------------------------------------------------------
(* The rest of the world's update                                          *)

\* The character gets on in the update of its map.
Play(s) ==
    /\ worldpc = "maps" /\ ~stopping /\ player[s] # None /\ player[s] < MaxProgress
    /\ player' = [player EXCEPT ![s] = @ + 1]
    /\ progress' = [progress EXCEPT ![Account[s]] = player[s] + 1]
    /\ UNCHANGED <<worldVars, sessionVars, loading, initHolder, loginHolder, loaded,
                   dbQueue, stored, threadVars>>

\* Player::Update saves it now and then.  A save that repeats the last one
\* changes nothing and is left out.
AutoSave(s) ==
    /\ worldpc = "maps" /\ ~stopping /\ player[s] # None
    /\ ~LatestSaveIs(Account[s], player[s])
    /\ dbQueue' = dbQueue \o SaveOps(s)
    /\ UNCHANGED <<worldVars, sessionVars, loginVars, stored, progress, threadVars>>

\* A handler, a command or a script kicks the session.
Kick(s) ==
    /\ worldpc = "maps" /\ ~stopping /\ life[s] = "live"
    /\ KickPlayer(s)
    /\ UNCHANGED <<worldVars, life, inQueue, loginVars, dbVars, threadVars>>

\* The world stops: KickAll, and one more UpdateSessions.
KickAll ==
    /\ worldpc = "maps" /\ ~stopping
    /\ stopping' = TRUE /\ queued' = <<>>
    /\ socket' = Put(socket, Online, "closed") /\ forceExit' = forceExit \cup Online
    /\ UNCHANGED <<addSessQueue, sessions, disconnects, life, inQueue, loginVars, dbVars,
                   worldpc, todo, cur>>

Terminating == worldpc = "stopped" /\ dbQueue = <<>> /\ UNCHANGED vars

WorldThread ==
    \/ UpdateSessions \/ AddSession_Refuse \/ AddSession_ \/ UpdateSessions_Added
    \/ \E a \in Accounts : Update(a)
    \/ \E legit \in BOOLEAN : HandlePlayerLoginOpcode(legit)
    \/ HandleLogoutRequestOpcode \/ ProcessQueryCallbacks
    \/ Update_Logout \/ Update_Keep \/ Update_Remove \/ UpdateSessions_End
    \/ \E s \in Sessions : Play(s) \/ AutoSave(s) \/ Kick(s)
    \/ KickAll

Next ==
    \/ \E s \in Sessions : AddSession(s) \/ CloseSocket(s)
    \/ DbExecute \/ WorldThread \/ Terminating

Spec == Init /\ [][Next]_vars

\* The world thread and the worker go on.
FairSpec == Spec /\ WF_vars(WorldThread) /\ WF_vars(DbExecute)

-----------------------------------------------------------------------------
(* Properties                                                              *)

\* The login queue (World::AddQueuedPlayer, RemoveQueuedPlayer) never holds a
\* session twice or one that was deleted, and whoever is shown as waiting is in
\* it, has been let in, or is about to be removed.
QueueSound ==
    /\ IsInjective(queued)
    /\ \A s \in Range(queued) : life[s] = "live" /\ s \in inQueue /\ sessions[Account[s]] = s
    /\ \A s \in inQueue : s \in Range(queued) \/ initHolder[s] # "none" \/ s \in forceExit

\* Nobody waits while there is room: with every active session that goes,
\* RemoveQueuedPlayer lets in the first of the queue.
NoRoomWhileQueued ==
    queued # <<>> => Cardinality(Online) - Len(queued) >= PlayerLimit

\* AddSession_ and RemoveQueuedPlayer keep to m_playerLimit, whatever goes, comes
\* back and is let in: the sessions that are not queued and whose account has no
\* right to skip the queue are no more than the limit.  (KickAll empties the queue
\* without letting anybody in.)
LimitKept ==
    PlayerLimit > 0 /\ ~stopping =>
        Cardinality({s \in Online \ Range(queued) :
            Account[s] \notin SkipQueue /\ ~HasRecentlyDisconnected(s)}) <= PlayerLimit

\* No character is played twice or goes back in time: one session at most has
\* it, in its latest state, and when none has it that state is what the database
\* has or what the last of the pending saves will store.  A session that loads it
\* has found, or will find, that state.
NoRollback ==
    \A a \in Accounts :
        LET holders == {s \in Sessions : Account[s] = a /\ player[s] # None} IN
        /\ Cardinality(holders) <= 1
        /\ \A s \in holders : player[s] = progress[a]
        /\ holders = {} => LatestSaveIs(a, progress[a])
        /\ \A s \in Sessions : Account[s] = a /\ loginHolder[s] = "ready" => loaded[s] = progress[a]

\* A session that loads a character, whose account AddSession_ refuses a new
\* session meanwhile, or that was kicked does not stay so: the load ends, or
\* UpdateSessions deletes the session, until the world stops.  (Of the accounts
\* that log in: the others load nothing.)
Settles ==
    \A s \in {x \in Sessions : Account[x] \in LoggingIn} :
        s \in loading \cup forceExit ~>
            (s \notin loading \cup forceExit \/ worldpc = "stopped")
=============================================================================
