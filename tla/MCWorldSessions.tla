--------------------------- MODULE MCWorldSessions ---------------------------
(***************************************************************************)
(* WorldSessions with three accounts and room for one: the first connects  *)
(* twice and logs in, the third is allowed to skip the queue.              *)
(***************************************************************************)
EXTENDS WorldSessions

CONSTANTS a, b, c, s1, s2, s3, s4

MCAccounts == {a, b, c}
MCSessions == {s1, s2, s3, s4}
MCAccount == [s \in MCSessions |-> IF s = s3 THEN b ELSE IF s = s4 THEN c ELSE a]
MCSkipQueue == {c}
MCLoggingIn == {a}

\* A step of another thread that the world thread cannot see yet commutes with
\* the world thread's steps.  It is taken when it is about to be seen: a session
\* is put into addSessQueue while that is being emptied, a socket is closed
\* when the session that has it asks, the database works for the session whose
\* callbacks are next, or when nobody waits for it.
Deferred ==
    /\ Len(addSessQueue') > Len(addSessQueue) => worldpc = "add"
    /\ socket' # socket /\ UNCHANGED <<life, forceExit>> =>
           worldpc = "finish" /\ socket'[sessions[cur]] # socket[sessions[cur]]
    /\ Len(dbQueue') < Len(dbQueue) =>
           \/ worldpc = "packets" /\ "asked" \in {initHolder[sessions[cur]], loginHolder[sessions[cur]]}
           \/ worldpc = "maps" /\ \A s \in Sessions : "asked" \notin {initHolder[s], loginHolder[s]}
           \/ worldpc = "stopped"

\* Bounds: s1 connects before s2, whose account is the only one somebody kicks,
\* and m_sessions has the accounts in this order.
Bounded ==
    /\ life'[s2] # "new" => life[s1] # "new"
    /\ worldpc = "maps" /\ ~stopping' => forceExit' \subseteq forceExit \cup {s1, s2}
    /\ cur' = b /\ cur # b => a \notin todo
    /\ cur' = c /\ cur # c => todo = {c}
=============================================================================
