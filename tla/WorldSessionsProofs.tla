------------------------ MODULE WorldSessionsProofs ------------------------
(***************************************************************************)
(* Proofs about WorldSessions for any number of accounts and sessions and  *)
(* any player limit: who is in the login queue, that nobody waits there    *)
(* while there is room and nobody is let in when there is none, that no    *)
(* character goes back in time, and that what ends a load or a kick is     *)
(* under way.                                                              *)
(*                                                                         *)
(* Everything rests on what the objects are (`Lives`): a session is in     *)
(* m_sessions from AddSession_ until it is deleted, an account has one at  *)
(* most, and what is not in m_sessions has no character, no query under    *)
(* way and no place in the queue.                                          *)
(***************************************************************************)
EXTENDS WorldSessions, SequenceTheorems, FiniteSetTheorems, TLAPS

\* m_sessions has the sessions that were added and not deleted; the others have
\* nothing.  Those in addSessQueue are in it once.
Registered ==
    /\ \A a \in Accounts : sessions[a] # None =>
           life[sessions[a]] = "live" /\ Account[sessions[a]] = a
    /\ \A s \in Sessions : life[s] = "live" => sessions[Account[s]] = s
    /\ \A i, j \in 1..Len(addSessQueue) : addSessQueue[i] = addSessQueue[j] => i = j
    /\ \A i \in 1..Len(addSessQueue) : life[addSessQueue[i]] = "adding"

Idle ==
    \A s \in Sessions : life[s] # "live" =>
        /\ player[s] = None /\ initHolder[s] = "none" /\ loginHolder[s] = "none"
        /\ s \notin inQueue /\ s \notin loading

\* A character is asked for while m_playerLoading is set, and is not there then.
Loading ==
    \A s \in Sessions :
        /\ loginHolder[s] # "none" => s \in loading
        /\ s \in loading => player[s] = None

\* The loop of UpdateSessions goes through sessions that are there.
Pass ==
    /\ worldpc \in {"packets", "finish"} => cur \in Accounts /\ sessions[cur] # None /\ cur \notin todo
    /\ worldpc \in {"next", "packets", "finish"} => \A a \in todo : sessions[a] # None

Lives == TypeOK /\ Registered /\ Idle /\ Loading /\ Pass

\* The queries of a session are not under way while it waits in the queue.
Waiting == QueueSound /\ \A s \in Range(queued) : initHolder[s] = "none"

\* The query for a character is in the queue of the database exactly once while it
\* is waited for, and what is behind it there does not save the character.
Sent(s) == \E i \in 1..Len(dbQueue) : dbQueue[i].kind = "login" /\ dbQueue[i].of = s

Logins ==
    /\ \A i \in 1..Len(dbQueue) : dbQueue[i].kind = "login" =>
           loginHolder[dbQueue[i].of] = "asked" \/ life[dbQueue[i].of] = "gone"
    /\ \A i, j \in 1..Len(dbQueue) :
           /\ dbQueue[i].kind = "login" /\ life[dbQueue[i].of] # "gone"
           /\ dbQueue[j].kind \in {"login", "save"} /\ i < j
           => IF dbQueue[j].kind = "save" THEN dbQueue[j].of # Account[dbQueue[i].of]
              ELSE dbQueue[j].of # dbQueue[i].of
    /\ \A s \in Sessions : loginHolder[s] = "asked" => Sent(s)

\* NoRollback, given that only one session of an account is alive.
Fresh ==
    /\ \A s \in Sessions : player[s] # None => player[s] = progress[Account[s]]
    /\ \A a \in Accounts : (\A s \in Sessions : Account[s] = a => player[s] = None) =>
                             LatestSaveIs(a, progress[a])
    /\ \A s \in Sessions : loginHolder[s] = "ready" => loaded[s] = progress[Account[s]]

SessionsInv == Lives /\ Waiting /\ NoRoomWhileQueued /\ LimitKept /\ Logins /\ Fresh

-----------------------------------------------------------------------------
(* Queues without repetitions                                              *)

LEMMA RangeOf ==
    ASSUME NEW S, NEW q \in Seq(S)
    PROVE  /\ Range(q) \subseteq S /\ DOMAIN q = 1..Len(q)
           /\ \A x : x \in Range(q) <=> \E i \in 1..Len(q) : q[i] = x
  BY DEF Range

\* As many places as sessions.
LEMMA SizeOf ==
    ASSUME NEW S, NEW q \in Seq(S), IsInjective(q)
    PROVE  IsFiniteSet(Range(q)) /\ Cardinality(Range(q)) = Len(q)
  <1>1. DOMAIN q = 1..Len(q) /\ Len(q) \in Nat
    OBVIOUS
  <1>2. q \in Bijection(1..Len(q), Range(q))
    <2>1. q \in [1..Len(q) -> Range(q)]
      BY <1>1 DEF Range
    <2>2. \A i, j \in 1..Len(q) : q[i] = q[j] => i = j
      BY <1>1, Zenon DEF IsInjective
    <2>3. \A x \in Range(q) : \E i \in 1..Len(q) : q[i] = x
      BY <1>1, Zenon DEF Range
    <2> HIDE DEF Range
    <2> QED
      BY <2>1, <2>2, <2>3, Zenon DEF Bijection, Injection, Surjection
  <1>3. IsFiniteSet(1..Len(q)) /\ Cardinality(1..Len(q)) = Len(q)
    <2>1. PICK n \in Nat : n = Len(q)
      BY <1>1
    <2>2. IsFiniteSet(1..n) /\ Cardinality(1..n) = n
      BY FS_Interval
    <2> QED
      BY <2>1, <2>2, Zenon
  <1> QED
    BY <1>2, <1>3, FS_Bijection DEF ExistsBijection

\* The place of e is closed.
LEMMA Removing ==
    ASSUME NEW S, NEW q \in Seq(S), IsInjective(q), NEW e
    PROVE  /\ RemoveFirst(q, e) \in Seq(S) /\ IsInjective(RemoveFirst(q, e))
           /\ Range(RemoveFirst(q, e)) = Range(q) \ {e}
  <1>1. CASE \A i \in 1..Len(q) : q[i] # e
    <2>1. RemoveFirst(q, e) = q
      BY <1>1 DEF RemoveFirst
    <2> QED
      BY <1>1, <2>1, RangeOf
  <1>2. ASSUME NEW d \in 1..Len(q), q[d] = e
        PROVE  /\ RemoveFirst(q, e) \in Seq(S) /\ IsInjective(RemoveFirst(q, e))
               /\ Range(RemoveFirst(q, e)) = Range(q) \ {e}
    <2>1. \A i, j \in 1..Len(q) : q[i] = q[j] => i = j
      BY DEF IsInjective
    <2>2. {i \in 1..Len(q) : q[i] = e} = {d}
      BY <1>2, <2>1
    <2>3. Min({d}) = d
      BY DEF Min
    <2>4. SelectInSeq(q, LAMBDA v : v = e) = d
      BY <2>2, <2>3 DEF SelectInSeq
    <2> DEFINE before == SubSeq(q, 1, d - 1)
               after == SubSeq(q, d + 1, Len(q))
               r == RemoveFirst(q, e)
    <2>5. r = before \o after
      BY <1>2, <2>4 DEF RemoveFirst, RemoveAt
    <2>6. /\ before \in Seq(S) /\ Len(before) = d - 1
          /\ \A i \in 1..(d - 1) : before[i] = q[i]
      OBVIOUS
    <2>7. /\ after \in Seq(S) /\ Len(after) = Len(q) - d
          /\ \A i \in 1..(Len(q) - d) : after[i] = q[d + i]
      OBVIOUS
    <2> HIDE DEF before, after, r
    <2>8. /\ r \in Seq(S) /\ Len(r) = Len(q) - 1
          /\ \A i \in 1..Len(r) : r[i] = IF i <= d - 1 THEN before[i] ELSE after[i - (d - 1)]
      <3>1. /\ r \in Seq(S) /\ Len(r) = Len(before) + Len(after)
            /\ \A i \in 1..(Len(before) + Len(after)) :
                  r[i] = IF i <= Len(before) THEN before[i] ELSE after[i - Len(before)]
        BY <2>5, <2>6, <2>7, ConcatProperties
      <3>2. Len(before) + Len(after) = Len(q) - 1
        BY <2>6, <2>7
      <3> QED
        BY <2>6, <3>1, <3>2
    <2>9. \A i \in 1..Len(r) : r[i] = IF i < d THEN q[i] ELSE q[i + 1]
      BY <2>6, <2>7, <2>8
    <2>10. IsInjective(r)
      <3>1. DOMAIN r = 1..Len(r)
        BY <2>8
      <3> SUFFICES ASSUME NEW i \in 1..Len(r), NEW j \in 1..Len(r), r[i] = r[j]
                   PROVE  i = j
        BY <3>1 DEF IsInjective
      <3>2. q[IF i < d THEN i ELSE i + 1] = q[IF j < d THEN j ELSE j + 1]
        BY <2>9
      <3> QED
        BY <2>1, <2>8, <3>2
    <2>11. \A x : x \in Range(r) => x \in Range(q) /\ x # e
      <3> SUFFICES ASSUME NEW i \in 1..Len(r)
                   PROVE  r[i] \in Range(q) /\ r[i] # e
        BY <2>8, RangeOf
      <3> DEFINE k == IF i < d THEN i ELSE i + 1
      <3>1. k \in 1..Len(q) /\ k # d /\ r[i] = q[k]
        BY <2>8, <2>9
      <3> QED
        BY <1>2, <2>1, <3>1, RangeOf
    <2>12. \A x : x \in Range(q) /\ x # e => x \in Range(r)
      <3> SUFFICES ASSUME NEW i \in 1..Len(q), q[i] # e
                   PROVE  q[i] \in Range(r)
        BY RangeOf
      <3>1. Len(r) = Len(q) - 1 /\ Len(q) \in Nat /\ i # d
        BY <1>2, <2>8
      <3>2. CASE i < d
        <4>1. i \in 1..Len(r)
          BY <3>1, <3>2
        <4>2. r[i] = q[i]
          BY <2>9, <3>2, <4>1
        <4> QED
          BY <2>8, <4>1, <4>2, RangeOf
      <3>3. CASE d < i
        <4>1. PICK k \in 1..Len(r) : i = k + 1
          <5>1. i - 1 \in 1..Len(r) /\ i = (i - 1) + 1
            BY <3>1, <3>3
          <5> QED
            BY <5>1
        <4>2. ~(k < d)
          BY <3>1, <3>3, <4>1
        <4>3. r[k] = q[i]
          BY <2>9, <4>1, <4>2
        <4> QED
          BY <2>8, <4>3, RangeOf
      <3> QED
        BY <3>1, <3>2, <3>3
    <2> QED
      BY <2>8, <2>10, <2>11, <2>12 DEF r
  <1> QED
    BY <1>1, <1>2

\* The first goes.
LEMMA Taking ==
    ASSUME NEW S, NEW q \in Seq(S), q # <<>>, IsInjective(q)
    PROVE  /\ Head(q) \in Range(q) /\ Tail(q) \in Seq(S) /\ IsInjective(Tail(q))
           /\ Range(Tail(q)) = Range(q) \ {Head(q)}
  <1>1. /\ Len(q) \in Nat \ {0} /\ Head(q) = q[1] /\ Tail(q) \in Seq(S)
        /\ Len(Tail(q)) = Len(q) - 1
        /\ \A i \in 1..(Len(q) - 1) : Tail(q)[i] = q[i + 1]
    OBVIOUS
  <1>2. \A i, j \in 1..Len(q) : q[i] = q[j] => i = j
    BY DEF IsInjective
  <1>3. DOMAIN Tail(q) = 1..(Len(q) - 1)
    BY <1>1
  <1>4. IsInjective(Tail(q))
    <2> SUFFICES ASSUME NEW i \in 1..(Len(q) - 1), NEW j \in 1..(Len(q) - 1), Tail(q)[i] = Tail(q)[j]
                 PROVE  i = j
      BY <1>3 DEF IsInjective
    <2>1. q[i + 1] = q[j + 1]
      BY <1>1
    <2> QED
      BY <1>1, <1>2, <2>1
  <1>5. \A x : x \in Range(Tail(q)) <=> \E i \in 1..(Len(q) - 1) : q[i + 1] = x
    <2>1. \A x : x \in Range(Tail(q)) <=> \E i \in 1..Len(Tail(q)) : Tail(q)[i] = x
      <3> DEFINE t == Tail(q)
      <3>1. t \in Seq(S)
        BY <1>1
      <3> HIDE DEF t
      <3>2. \A x : x \in Range(t) <=> \E i \in 1..Len(t) : t[i] = x
        BY <3>1, RangeOf
      <3> QED
        BY <3>2 DEF t
    <2> QED
      BY <1>1, <2>1
  <1>6. \A x : x \in Range(q) <=> \E i \in 1..Len(q) : q[i] = x
    BY RangeOf
  <1>7. \A x : x \in Range(Tail(q)) => x \in Range(q) /\ x # q[1]
    <2> SUFFICES ASSUME NEW i \in 1..(Len(q) - 1)
                 PROVE  q[i + 1] \in Range(q) /\ q[i + 1] # q[1]
      BY <1>5
    <2>1. i + 1 \in 1..Len(q) /\ 1 \in 1..Len(q) /\ i + 1 # 1
      BY <1>1
    <2> QED
      BY <1>2, <1>6, <2>1
  <1>8. \A x : x \in Range(q) /\ x # q[1] => x \in Range(Tail(q))
    <2> SUFFICES ASSUME NEW i \in 1..Len(q), q[i] # q[1]
                 PROVE  q[i] \in Range(Tail(q))
      BY <1>6
    <2>1. i - 1 \in 1..(Len(q) - 1) /\ (i - 1) + 1 = i
      BY <1>1
    <2> QED
      BY <1>5, <2>1
  <1>9. Head(q) \in Range(q)
    BY <1>1, <1>6
  <1> QED
    BY <1>1, <1>4, <1>7, <1>8, <1>9

\* Somebody new is put at the end.
LEMMA Joining ==
    ASSUME NEW S, NEW q \in Seq(S), IsInjective(q), NEW x \in S, x \notin Range(q)
    PROVE  /\ q \o <<x>> \in Seq(S) /\ IsInjective(q \o <<x>>)
           /\ Range(q \o <<x>>) = Range(q) \cup {x}
  <1> DEFINE r == q \o <<x>>
  <1>1. /\ r \in Seq(S) /\ Len(r) = Len(q) + 1
        /\ \A i \in 1..Len(q) : r[i] = q[i]
        /\ r[Len(q) + 1] = x
    OBVIOUS
  <1> HIDE DEF r
  <1>2. \A i, j \in 1..Len(q) : q[i] = q[j] => i = j
    BY DEF IsInjective
  <1>3. \A i \in 1..Len(q) : q[i] # x
    BY RangeOf
  <1>4. DOMAIN r = 1..(Len(q) + 1) /\ Len(q) \in Nat
    BY <1>1
  <1>5. \A i \in 1..(Len(q) + 1) : i \in 1..Len(q) \/ i = Len(q) + 1
    OBVIOUS
  <1>6. IsInjective(r)
    <2> SUFFICES ASSUME NEW i \in 1..(Len(q) + 1), NEW j \in 1..(Len(q) + 1), r[i] = r[j]
                 PROVE  i = j
      BY <1>4 DEF IsInjective
    <2> QED
      BY <1>1, <1>2, <1>3, <1>5
  <1>7. \A y : y \in Range(r) <=> y \in Range(q) \/ y = x
    <2>1. \A y : y \in Range(r) <=> \E i \in 1..(Len(q) + 1) : r[i] = y
      BY <1>1, RangeOf
    <2>2. \A y : y \in Range(q) <=> \E i \in 1..Len(q) : q[i] = y
      BY RangeOf
    <2>3. Len(q) + 1 \in 1..(Len(q) + 1) /\ \A i \in 1..Len(q) : i \in 1..(Len(q) + 1)
      BY <1>4
    <2> QED
      BY <1>1, <1>5, <2>1, <2>2, <2>3
  <1> QED
    BY <1>1, <1>6, <1>7 DEF r

-----------------------------------------------------------------------------
(* RemoveQueuedPlayer and what is sent to the database                     *)

\* What RemoveQueuedPlayer(sess) makes of the queue q, when A are the active
\* sessions but sess: the first of the others in the queue is let in if there is
\* room beside A, and nobody else.
Removal(r, q, sess, A) ==
    LET Q == Range(q) \ {sess} IN
    /\ r.found <=> sess \in Range(q)
    /\ r.queued \in Seq(Sessions) /\ IsInjective(r.queued)
    /\ \/ /\ r.admitted = <<>> /\ Range(r.queued) = Q
          /\ Q = {} \/ (PlayerLimit > 0 /\ Cardinality(A) >= PlayerLimit)
       \/ \E h \in Q : /\ r.admitted = <<h>> /\ Range(r.queued) = Q \ {h}
                       /\ PlayerLimit = 0 \/ Cardinality(A) < PlayerLimit

LEMMA RemovalRule ==
    ASSUME NEW O \in SUBSET Sessions, NEW q \in Seq(Sessions), IsInjective(q),
           Range(q) \subseteq O, NEW sess \in O
    PROVE  Removal(RemoveQueuedPlayer(sess, q, Cardinality(O)), q, sess, (O \ Range(q)) \ {sess})
  <1> DEFINE r == RemoveQueuedPlayer(sess, q, Cardinality(O))
             rest == RemoveFirst(q, sess)
             found == sess \in Range(q)
             active == Cardinality(O) - Len(q)
             others == IF ~found /\ active > 0 THEN active - 1 ELSE active
             admits == (PlayerLimit = 0 \/ others < PlayerLimit) /\ rest # <<>>
             A == (O \ Range(q)) \ {sess}
  <1>1. /\ r.found = found
        /\ r.queued = IF admits THEN Tail(rest) ELSE rest
        /\ r.admitted = IF admits THEN <<Head(rest)>> ELSE <<>>
    BY Zenon DEF RemoveQueuedPlayer
  <1>2. rest \in Seq(Sessions) /\ IsInjective(rest) /\ Range(rest) = Range(q) \ {sess}
    BY Removing
  <1>3. others = Cardinality(A) /\ Cardinality(A) \in Nat
    <2>1. IsFiniteSet(O) /\ Cardinality(O) \in Nat
      BY SessionsAssumption, FS_Subset, FS_CardinalityType
    <2>2. IsFiniteSet(Range(q)) /\ Cardinality(Range(q)) = Len(q)
      BY SizeOf
    <2>3. O \cap Range(q) = Range(q)
      OBVIOUS
    <2>4. IsFiniteSet(O \ Range(q)) /\ Cardinality(O \ Range(q)) = active
      <3>1. IsFiniteSet(O \ Range(q)) /\ Cardinality(O \ Range(q)) = Cardinality(O) - Cardinality(O \cap Range(q))
        BY <2>1, FS_Difference
      <3> QED
        BY <2>2, <2>3, <3>1
    <2>5. active \in Nat
      BY <2>4, FS_CardinalityType
    <2>6. /\ IsFiniteSet(A)
          /\ Cardinality(A) = IF sess \in O \ Range(q) THEN active - 1 ELSE active
      BY <2>4, FS_RemoveElement
    <2>7. Cardinality(A) \in Nat
      BY <2>6, FS_CardinalityType
    <2>8. sess \in O \ Range(q) <=> ~found
      OBVIOUS
    <2>9. ~found => active > 0
      BY <2>5, <2>6, <2>7
    <2> HIDE DEF active, A
    <2> QED
      BY <2>5, <2>6, <2>7, <2>8, <2>9
  <1>4. rest = <<>> <=> Range(q) \ {sess} = {}
    <2>1. rest = <<>> => Range(rest) = {}
      BY DEF Range
    <2>2. rest # <<>> => Head(rest) \in Range(rest)
      BY <1>2, Taking
    <2> QED
      BY <1>2, <2>1, <2>2
  <1>5. PlayerLimit \in Nat
    BY SessionsAssumption
  <1> HIDE DEF r, rest, others, A
  <1>6. CASE admits
    <2>1. /\ Head(rest) \in Range(rest) /\ Tail(rest) \in Seq(Sessions) /\ IsInjective(Tail(rest))
          /\ Range(Tail(rest)) = Range(rest) \ {Head(rest)}
      BY <1>2, <1>6, Taking
    <2>2. r.queued = Tail(rest) /\ r.admitted = <<Head(rest)>>
      BY <1>1, <1>6
    <2>3. PlayerLimit = 0 \/ Cardinality(A) < PlayerLimit
      BY <1>3, <1>6
    <2>4. r.found <=> sess \in Range(q)
      BY <1>1
    <2> HIDE DEF admits, found
    <2>5. \E h \in Range(q) \ {sess} : /\ r.admitted = <<h>> /\ Range(r.queued) = (Range(q) \ {sess}) \ {h}
                                       /\ PlayerLimit = 0 \/ Cardinality(A) < PlayerLimit
      BY <1>2, <2>1, <2>2, <2>3, Zenon
    <2>6. Removal(r, q, sess, A)
      BY <2>1, <2>2, <2>4, <2>5, Zenon DEF Removal
    <2> QED
      BY <2>6 DEF r, A
  <1>7. CASE ~admits
    <2>1. r.queued = rest /\ r.admitted = <<>>
      BY <1>1, <1>7
    <2>2. Range(q) \ {sess} = {} \/ (PlayerLimit > 0 /\ Cardinality(A) >= PlayerLimit)
      BY <1>3, <1>4, <1>5, <1>7
    <2>3. r.found <=> sess \in Range(q)
      BY <1>1
    <2>4. Removal(r, q, sess, A)
      BY <1>2, <2>1, <2>2, <2>3, Zenon DEF Removal
    <2> QED
      BY <2>4 DEF r, A
  <1> QED
    BY <1>6, <1>7

LEMMA RemovalTypes ==
    ASSUME NEW q \in Seq(Sessions), NEW r, NEW sess, NEW A, Removal(r, q, sess, A)
    PROVE  /\ r.admitted \in Seq(Sessions) /\ Range(r.admitted) \subseteq Range(q) \ {sess}
           /\ Range(r.queued) \cup Range(r.admitted) = Range(q) \ {sess}
           /\ Range(r.queued) \cap Range(r.admitted) = {}
           /\ r.queued \in Seq(Sessions) /\ IsInjective(r.queued)
  <1>1. Range(q) \subseteq Sessions
    BY RangeOf
  <1>2. Range(<<>>) = {} /\ <<>> \in Seq(Sessions)
    BY DEF Range
  <1>3. ASSUME NEW h \in Range(q) PROVE <<h>> \in Seq(Sessions) /\ Range(<<h>>) = {h}
    BY <1>1 DEF Range
  <1>4. CASE r.admitted = <<>>
    <2>1. \A h : <<h>> # <<>>
      OBVIOUS
    <2> QED
      BY <1>2, <1>4, <2>1, Zenon DEF Removal
  <1>5. ASSUME NEW h \in Range(q) \ {sess}, r.admitted = <<h>>, Range(r.queued) = (Range(q) \ {sess}) \ {h}
        PROVE  /\ r.admitted \in Seq(Sessions) /\ Range(r.admitted) \subseteq Range(q) \ {sess}
               /\ Range(r.queued) \cup Range(r.admitted) = Range(q) \ {sess}
               /\ Range(r.queued) \cap Range(r.admitted) = {}
    BY <1>3, <1>5
  <1>6. r.queued \in Seq(Sessions) /\ IsInjective(r.queued)
    BY DEF Removal
  <1> QED
    BY <1>4, <1>5, <1>6, Zenon DEF Removal

\* What is sent to the database: queries for the sessions of seq, and the
\* character of s if it has one.
LEMMA InitOpsAre ==
    ASSUME NEW seq \in Seq(Sessions)
    PROVE  InitOps(seq) \in Seq(Operation) /\ \A i \in 1..Len(InitOps(seq)) : InitOps(seq)[i].kind = "init"
  <1>1. \A i \in 1..Len(seq) : [kind |-> "init", of |-> seq[i], row |-> 0] \in Operation
    BY DEF Operation
  <1>2. DOMAIN seq = 1..Len(seq) /\ Len(seq) \in Nat
    OBVIOUS
  <1>3. /\ InitOps(seq) = [i \in 1..Len(seq) |-> [kind |-> "init", of |-> seq[i], row |-> 0]]
    BY <1>2 DEF InitOps
  <1>4. InitOps(seq) \in Seq(Operation) /\ Len(InitOps(seq)) = Len(seq)
    BY <1>1, <1>2, <1>3
  <1> QED
    BY <1>3, <1>4

LEMMA SaveOpsAre ==
    ASSUME TypeOK, NEW s \in Sessions \cup {None}
    PROVE  /\ SaveOps(s) \in Seq(Operation)
           /\ s = None \/ player[s] = None => SaveOps(s) = <<>>
           /\ s # None /\ player[s] # None =>
                SaveOps(s) = <<[kind |-> "save", of |-> Account[s], row |-> player[s]]>>
  <1>1. CASE s # None /\ player[s] # None
    <2>1. player[s] \in Row /\ Account[s] \in Accounts
      BY <1>1, SessionsAssumption DEF TypeOK
    <2>2. [kind |-> "save", of |-> Account[s], row |-> player[s]] \in Operation
      BY <2>1 DEF Operation
    <2> QED
      BY <1>1, <2>2 DEF SaveOps
  <1>2. CASE s = None \/ player[s] = None
    BY <1>2 DEF SaveOps
  <1> QED
    BY <1>1, <1>2

-----------------------------------------------------------------------------
(* What the objects are                                                    *)

LEMMA LivesInit == Init => Lives
  <1> SUFFICES ASSUME Init PROVE Lives
    OBVIOUS
  <1> USE DEF Init
  <1>1. stopping \in BOOLEAN
    BY Zenon
  <1>2. /\ life \in [Sessions -> {"new", "adding", "live", "gone"}]
        /\ sessions \in [Accounts -> Sessions \cup {None}]
        /\ socket \in [Sessions -> {"open", "closed", "null"}]
        /\ initHolder \in [Sessions -> Holder] /\ loginHolder \in [Sessions -> Holder]
        /\ player \in [Sessions -> Row \cup {None}]
    BY DEF Holder
  <1>3. 0 \in Row
    BY SessionsAssumption DEF Row
  <1>4. /\ loaded \in [Sessions -> Row]
        /\ stored \in [Accounts -> Row] /\ progress \in [Accounts -> Row]
    BY <1>3
  <1>5. /\ addSessQueue \in Seq(Sessions) /\ queued \in Seq(Sessions) /\ dbQueue \in Seq(Operation)
        /\ disconnects \subseteq Accounts /\ forceExit \subseteq Sessions
        /\ inQueue \subseteq Sessions /\ loading \subseteq Sessions
        /\ worldpc \in {"maps", "add", "next", "packets", "finish", "stopped"}
        /\ todo \subseteq Accounts /\ cur \in Accounts \cup {None}
    OBVIOUS
  <1>6. TypeOK
    BY <1>1, <1>2, <1>4, <1>5, Zenon DEF TypeOK
  <1>7. Registered /\ Idle /\ Loading /\ Pass
    BY DEF Registered, Idle, Loading, Pass
  <1> QED
    BY <1>6, <1>7 DEF Lives

\* The network thread hands over a session that nobody knew before.
LEMMA AddLives ==
    ASSUME Lives, NEW s \in Sessions, AddSession(s)
    PROVE  Lives'
  <1> USE DEF Lives, AddSession, loginVars, dbVars, threadVars
  <1>1. TypeOK'
    BY DEF TypeOK
  <1>2. addSessQueue \in Seq(Sessions) /\ \A i \in 1..Len(addSessQueue) : addSessQueue[i] # s
    BY DEF TypeOK, Registered
  <1>3. /\ Len(addSessQueue') = Len(addSessQueue) + 1 /\ Len(addSessQueue) \in Nat
        /\ \A i \in 1..Len(addSessQueue) : addSessQueue'[i] = addSessQueue[i]
        /\ addSessQueue'[Len(addSessQueue) + 1] = s
    BY <1>2, AppendProperties
  <1>4. life \in [Sessions -> {"new", "adding", "live", "gone"}] /\ life'[s] = "adding"
        /\ \A t \in Sessions : t # s => life'[t] = life[t]
    BY DEF TypeOK
  <1>5. \A i \in 1..Len(addSessQueue') : i \in 1..Len(addSessQueue) \/ i = Len(addSessQueue) + 1
    BY <1>3
  <1>6. /\ \A i, j \in 1..Len(addSessQueue') : addSessQueue'[i] = addSessQueue'[j] => i = j
        /\ \A i \in 1..Len(addSessQueue') : life'[addSessQueue'[i]] = "adding"
    BY <1>2, <1>3, <1>4, <1>5 DEF Registered
  <1>7. Registered'
    <2>1. \A a \in Accounts : sessions'[a] # None =>
             life'[sessions'[a]] = "live" /\ Account[sessions'[a]] = a
      BY <1>4 DEF TypeOK, Registered
    <2>2. \A t \in Sessions : life'[t] = "live" => sessions'[Account[t]] = t
      BY <1>4 DEF Registered
    <2> QED
      BY <1>6, <2>1, <2>2 DEF Registered
  <1>8. Idle' /\ Loading' /\ Pass'
    BY <1>4 DEF Idle, Loading, Pass
  <1> QED
    BY <1>1, <1>7, <1>8

\* Nothing but sockets changes.
LEMMA SocketLives ==
    ASSUME Lives, (\E s \in Sessions : CloseSocket(s) \/ Kick(s)) \/ KickAll
    PROVE  Lives'
  <1> USE DEF Lives, worldVars, loginVars, dbVars, threadVars
  <1>1. ASSUME NEW s \in Sessions, CloseSocket(s) PROVE TypeOK'
    BY <1>1 DEF TypeOK, CloseSocket
  <1>2. ASSUME NEW s \in Sessions, Kick(s) PROVE TypeOK'
    BY <1>2 DEF TypeOK, Kick, KickPlayer
  <1>3. ASSUME KickAll PROVE TypeOK'
    <2>1. Online \subseteq Sessions
      BY DEF Online
    <2>2. socket' \in [Sessions -> {"open", "closed", "null"}] /\ forceExit' \subseteq Sessions
      BY <1>3, <2>1 DEF TypeOK, KickAll, Put
    <2>3. queued' \in Seq(Sessions) /\ stopping' \in BOOLEAN
      <3>1. TRUE \in BOOLEAN
        BY Zenon
      <3> QED
        BY <1>3, <3>1 DEF KickAll
    <2> QED
      BY <1>3, <2>2, <2>3 DEF TypeOK, KickAll
  <1>4. TypeOK'
    BY <1>1, <1>2, <1>3
  <1>5. UNCHANGED <<sessions, life, addSessQueue, player, initHolder, loginHolder, inQueue, loading,
                    worldpc, cur, todo>>
    BY DEF CloseSocket, Kick, KickAll
  <1> QED
    BY <1>4, <1>5 DEF Registered, Idle, Loading, Pass

\* The loop of UpdateSessions.
LEMMA LoopLives ==
    ASSUME Lives,
           UpdateSessions \/ UpdateSessions_Added \/ (\E a \in Accounts : Update(a))
             \/ Update_Keep \/ UpdateSessions_End
    PROVE  Lives'
  <1> USE DEF Lives, worldVars, sessionVars, loginVars, dbVars
  <1>1. UNCHANGED <<sessions, life, addSessQueue, player, initHolder, loginHolder, inQueue, loading>>
    BY DEF UpdateSessions, UpdateSessions_Added, Update, Update_Keep, UpdateSessions_End
  <1>2. Registered' /\ Idle' /\ Loading'
    BY <1>1 DEF Registered, Idle, Loading
  <1>3. CASE UpdateSessions
    <2>1. TypeOK'
      BY <1>3 DEF TypeOK, UpdateSessions
    <2> QED
      BY <1>2, <1>3, <2>1 DEF Pass, UpdateSessions
  <1>4. CASE UpdateSessions_Added
    <2>1. TypeOK'
      BY <1>4 DEF TypeOK, UpdateSessions_Added
    <2> QED
      BY <1>2, <1>4, <2>1 DEF Pass, UpdateSessions_Added
  <1>5. ASSUME NEW a \in Accounts, Update(a) PROVE Lives'
    <2>1. TypeOK'
      BY <1>5 DEF TypeOK, Update
    <2> QED
      BY <1>2, <1>5, <2>1 DEF Pass, Update
  <1>6. CASE Update_Keep
    <2>1. TypeOK'
      BY <1>6 DEF TypeOK, Update_Keep
    <2> QED
      BY <1>2, <1>6, <2>1 DEF Pass, Update_Keep
  <1>7. CASE UpdateSessions_End
    <2>1. TypeOK'
      BY <1>7 DEF TypeOK, UpdateSessions_End
    <2> QED
      BY <1>2, <1>7, <2>1 DEF Pass, UpdateSessions_End
  <1> QED
    BY <1>3, <1>4, <1>5, <1>6, <1>7

\* The session that is being updated.
LEMMA Current ==
    ASSUME Lives, worldpc \in {"packets", "finish"}
    PROVE  /\ cur \in Accounts /\ sessions[cur] \in Sessions
           /\ life[sessions[cur]] = "live" /\ Account[sessions[cur]] = cur
  BY DEF Lives, TypeOK, Registered, Pass

\* What is at the head of the queue of the database.
LEMMA HeadOp ==
    ASSUME TypeOK, dbQueue # <<>>
    PROVE  /\ Head(dbQueue) \in Operation /\ Tail(dbQueue) \in Seq(Operation)
           /\ Head(dbQueue) = dbQueue[1] /\ Len(dbQueue) \in Nat \ {0}
           /\ Len(Tail(dbQueue)) = Len(dbQueue) - 1
           /\ \A i \in 1..(Len(dbQueue) - 1) : Tail(dbQueue)[i] = dbQueue[i + 1]
  <1>1. dbQueue \in Seq(Operation)
    BY DEF TypeOK
  <1> QED
    BY <1>1

LEMMA OpTypes ==
    ASSUME NEW op \in Operation
    PROVE  /\ op.kind \in {"init", "login", "save"}
           /\ op.kind = "save" => op.of \in Accounts /\ op.row \in Row
           /\ op.kind # "save" => op.of \in Sessions
  BY DEF Operation

LEMMA DbLives ==
    ASSUME Lives, DbExecute
    PROVE  Lives'
  <1> USE DEF Lives
  <1> DEFINE op == Head(dbQueue)
  <1>1. /\ op \in Operation /\ Tail(dbQueue) \in Seq(Operation)
        /\ op.kind = "save" => op.of \in Accounts /\ op.row \in Row
        /\ op.kind # "save" => op.of \in Sessions
    BY HeadOp, OpTypes DEF DbExecute
  <1>2. UNCHANGED <<worldVars, sessionVars, loading, player, progress, threadVars>>
    BY DEF DbExecute
  <1>3. dbQueue' \in Seq(Operation)
    BY <1>1 DEF DbExecute
  <1>4. /\ stored' \in [Accounts -> Row]
        /\ initHolder' \in [Sessions -> Holder] /\ loginHolder' \in [Sessions -> Holder]
        /\ loaded' \in [Sessions -> Row]
        /\ \A s \in Sessions : /\ initHolder[s] = "none" => initHolder'[s] = "none"
                               /\ loginHolder[s] = "none" => loginHolder'[s] = "none"
    <2>1. CASE op.kind = "save"
      BY <1>1, <2>1 DEF DbExecute, TypeOK
    <2>2. CASE op.kind = "init"
      BY <1>1, <2>2 DEF DbExecute, TypeOK, Holder
    <2>3. CASE op.kind = "login"
      <3>1. stored[Account[op.of]] \in Row
        BY <1>1, <2>3, SessionsAssumption DEF TypeOK
      <3>2. /\ loginHolder' = [loginHolder EXCEPT ![op.of] = IF @ = "asked" THEN "ready" ELSE @]
            /\ loaded' = [loaded EXCEPT ![op.of] =
                             IF loginHolder[op.of] = "asked" THEN stored[Account[op.of]] ELSE @]
            /\ UNCHANGED <<stored, initHolder>>
        BY <2>3 DEF DbExecute
      <3>3. op.of \in Sessions
        BY <1>1, <2>3
      <3> HIDE DEF op
      <3>4. loaded' \in [Sessions -> Row]
        BY <3>1, <3>2, <3>3 DEF TypeOK
      <3>5. loginHolder' \in [Sessions -> Holder]
        BY <3>2, <3>3 DEF TypeOK, Holder
      <3>6. \A t \in Sessions : loginHolder[t] = "none" => loginHolder'[t] = "none"
        BY <3>2, <3>3 DEF TypeOK
      <3> QED
        BY <3>2, <3>4, <3>5, <3>6 DEF TypeOK
    <2> QED
      BY <1>1, <2>1, <2>2, <2>3, OpTypes
  <1> HIDE DEF op
  <1>5. TypeOK'
    BY <1>2, <1>3, <1>4 DEF TypeOK, worldVars, sessionVars, threadVars
  <1>6. Registered' /\ Pass'
    BY <1>2 DEF Registered, Pass, worldVars, sessionVars, threadVars
  <1>7. Idle' /\ Loading'
    <2>1. UNCHANGED <<life, player, inQueue, loading>>
      BY <1>2 DEF sessionVars
    <2> QED
      BY <1>4, <2>1 DEF Idle, Loading
  <1> QED
    BY <1>5, <1>6, <1>7

\* A character is asked for, and its session marked as loading.
LEMMA LoginLives ==
    ASSUME Lives, NEW legit \in BOOLEAN, HandlePlayerLoginOpcode(legit)
    PROVE  Lives'
  <1> DEFINE s == sessions[cur]
  <1> USE DEF Lives
  <1>1. s \in Sessions /\ life[s] = "live" /\ cur \in Accounts
    BY Current DEF HandlePlayerLoginOpcode
  <1>2. UNCHANGED <<worldVars, life, inQueue, stored, progress, threadVars, initHolder, loaded, player>>
    BY DEF HandlePlayerLoginOpcode, loginVars
  <1>3. /\ socket' \in [Sessions -> {"open", "closed", "null"}] /\ forceExit' \subseteq Sessions
    <2>1. KickPlayer(s) \/ UNCHANGED <<socket, forceExit>>
      BY DEF HandlePlayerLoginOpcode
    <2>2. socket \in [Sessions -> {"open", "closed", "null"}] /\ forceExit \subseteq Sessions
      BY DEF TypeOK
    <2> HIDE DEF s
    <2>3. CASE KickPlayer(s)
      BY <1>1, <2>2, <2>3 DEF KickPlayer
    <2>4. CASE UNCHANGED <<socket, forceExit>>
      BY <2>2, <2>4
    <2> QED
      BY <2>1, <2>3, <2>4
  <1>4. dbQueue' \in Seq(Operation)
    <2>1. [kind |-> "login", of |-> s, row |-> 0] \in Operation
      BY <1>1 DEF Operation
    <2>2. dbQueue \in Seq(Operation)
      BY DEF TypeOK
    <2>3. dbQueue' = dbQueue \/ dbQueue' = Append(dbQueue, [kind |-> "login", of |-> s, row |-> 0])
      BY DEF HandlePlayerLoginOpcode
    <2> QED
      BY <2>1, <2>2, <2>3
  <1>5. \/ loginHolder' = loginHolder /\ loading' = loading
        \/ /\ player[s] = None /\ loading' = loading \cup {s}
           /\ \/ loginHolder' = loginHolder
              \/ loginHolder' = [loginHolder EXCEPT ![s] = "asked"]
    BY DEF HandlePlayerLoginOpcode, loginVars
  <1> HIDE DEF s
  <1>6. loginHolder' \in [Sessions -> Holder] /\ loading' \subseteq Sessions
    BY <1>1, <1>5 DEF TypeOK, Holder
  <1>7. TypeOK'
    BY <1>2, <1>3, <1>4, <1>6 DEF TypeOK, worldVars, threadVars
  <1>8. Registered' /\ Pass'
    BY <1>2 DEF Registered, Pass, worldVars, threadVars
  <1>9. Idle' /\ Loading'
    BY <1>1, <1>2, <1>5 DEF Idle, Loading, TypeOK
  <1> QED
    BY <1>7, <1>8, <1>9

\* A character is saved or not, and goes or stays.
LEMMA LogoutLives ==
    ASSUME Lives, HandleLogoutRequestOpcode \/ Update_Logout
    PROVE  Lives'
  <1> DEFINE s == sessions[cur]
  <1> USE DEF Lives
  <1>1. s \in Sessions /\ life[s] = "live"
    BY Current DEF HandleLogoutRequestOpcode, Update_Logout
  <1>2. UNCHANGED <<worldVars, sessionVars, loading, initHolder, loginHolder, loaded, stored, progress, threadVars>>
    BY DEF HandleLogoutRequestOpcode, Update_Logout
  <1>3. player' = [player EXCEPT ![s] = None] /\ dbQueue' = dbQueue \o SaveOps(s)
    BY DEF HandleLogoutRequestOpcode, Update_Logout, LogoutPlayer
  <1> HIDE DEF s
  <1>4. player' \in [Sessions -> Row \cup {None}]
    BY <1>1, <1>3 DEF TypeOK
  <1>5. dbQueue' \in Seq(Operation)
    BY <1>1, <1>3, SaveOpsAre DEF TypeOK
  <1>6. TypeOK'
    BY <1>2, <1>4, <1>5 DEF TypeOK, worldVars, sessionVars, threadVars
  <1>7. Registered' /\ Pass'
    BY <1>2 DEF Registered, Pass, worldVars, sessionVars, threadVars
  <1>8. \A t \in Sessions : player[t] = None => player'[t] = None
    BY <1>1, <1>3 DEF TypeOK
  <1>9. Idle' /\ Loading'
    BY <1>2, <1>8 DEF Idle, Loading, sessionVars
  <1> QED
    BY <1>6, <1>7, <1>9

LEMMA PlayLives ==
    ASSUME Lives, NEW s \in Sessions, Play(s) \/ AutoSave(s)
    PROVE  Lives'
  <1> USE DEF Lives
  <1>1. UNCHANGED <<worldVars, sessionVars, loading, initHolder, loginHolder, loaded, stored, threadVars>>
    BY DEF Play, AutoSave, loginVars
  <1>2. player[s] # None /\ player[s] \in Row
    BY DEF Play, AutoSave, TypeOK
  <1>3. /\ player' \in [Sessions -> Row \cup {None}] /\ progress' \in [Accounts -> Row]
        /\ dbQueue' \in Seq(Operation)
        /\ \A t \in Sessions : player[t] = None => player'[t] = None
    <2>1. CASE Play(s)
      <3>1. player[s] + 1 \in Row /\ Account[s] \in Accounts
        BY <1>2, <2>1, SessionsAssumption DEF Play, Row
      <3> QED
        BY <1>2, <2>1, <3>1 DEF Play, TypeOK
    <2>2. CASE AutoSave(s)
      <3>1. dbQueue' \in Seq(Operation)
        BY <2>2, SaveOpsAre DEF AutoSave, TypeOK
      <3> QED
        BY <2>2, <3>1 DEF AutoSave, TypeOK, loginVars
    <2> QED
      BY <2>1, <2>2
  <1>4. TypeOK'
    BY <1>1, <1>3 DEF TypeOK, worldVars, sessionVars, threadVars
  <1>5. Registered' /\ Pass'
    BY <1>1 DEF Registered, Pass, worldVars, sessionVars, threadVars
  <1>6. Idle' /\ Loading'
    BY <1>1, <1>3 DEF Idle, Loading, sessionVars
  <1> QED
    BY <1>4, <1>5, <1>6

\* The callbacks of the session that is being updated.
LEMMA CallbackLives ==
    ASSUME Lives, ProcessQueryCallbacks
    PROVE  Lives'
  <1> DEFINE s == sessions[cur]
  <1> USE DEF Lives
  <1>1. s \in Sessions /\ life[s] = "live"
    BY Current DEF ProcessQueryCallbacks
  <1>2. UNCHANGED <<worldVars, life, dbVars, todo, cur, stopping>> /\ worldpc = "packets" /\ worldpc' = "finish"
    BY DEF ProcessQueryCallbacks
  <1>3. initHolder' = [initHolder EXCEPT ![s] = IF @ = "ready" THEN "none" ELSE @] /\ inQueue' \subseteq inQueue
    BY DEF ProcessQueryCallbacks
  <1>4. \/ UNCHANGED <<loginHolder, loaded, player, loading, socket, forceExit>>
        \/ /\ loginHolder' = [loginHolder EXCEPT ![s] = "none"]
           /\ loaded' = [loaded EXCEPT ![s] = 0]
           /\ \E ok \in BOOLEAN : HandlePlayerLogin(s, ok)
    BY DEF ProcessQueryCallbacks
  <1> HIDE DEF s
  <1>5. 0 \in Row
    BY SessionsAssumption DEF Row
  <1>6. ASSUME NEW ok \in BOOLEAN, HandlePlayerLogin(s, ok)
        PROVE  /\ player' \in [Sessions -> Row \cup {None}] /\ loading' = loading \ {s}
               /\ \A t \in Sessions : t # s => player'[t] = player[t]
               /\ socket' \in [Sessions -> {"open", "closed", "null"}] /\ forceExit' \subseteq Sessions
    <2>1. loaded[s] \in Row
      BY <1>1 DEF TypeOK
    <2>2. player' \in [Sessions -> Row \cup {None}] /\ \A t \in Sessions : t # s => player'[t] = player[t]
      BY <1>1, <1>6, <2>1 DEF HandlePlayerLogin, TypeOK
    <2>3. loading' = loading \ {s}
      BY <1>6 DEF HandlePlayerLogin
    <2>4. socket' \in [Sessions -> {"open", "closed", "null"}] /\ forceExit' \subseteq Sessions
      BY <1>1, <1>6, SMTT(30) DEF HandlePlayerLogin, KickPlayer, TypeOK
    <2> QED
      BY <2>2, <2>3, <2>4
  <1>7. /\ initHolder' \in [Sessions -> Holder]
        /\ \A t \in Sessions : t # s => initHolder'[t] = initHolder[t]
    BY <1>1, <1>3 DEF TypeOK, Holder
  <1>8. /\ loginHolder' \in [Sessions -> Holder] /\ loaded' \in [Sessions -> Row]
        /\ player' \in [Sessions -> Row \cup {None}] /\ loading' \subseteq loading
        /\ socket' \in [Sessions -> {"open", "closed", "null"}] /\ forceExit' \subseteq Sessions
        /\ \A t \in Sessions : t # s => player'[t] = player[t] /\ loginHolder'[t] = loginHolder[t]
        /\ \A t \in loading : t # s => t \in loading'
        /\ \/ UNCHANGED <<loginHolder, player, loading>>
           \/ loginHolder'[s] = "none" /\ s \notin loading'
    <2>1. CASE UNCHANGED <<loginHolder, loaded, player, loading, socket, forceExit>>
      BY <2>1 DEF TypeOK
    <2>2. ASSUME loginHolder' = [loginHolder EXCEPT ![s] = "none"], loaded' = [loaded EXCEPT ![s] = 0]
          PROVE  /\ loginHolder' \in [Sessions -> Holder] /\ loaded' \in [Sessions -> Row]
                 /\ \A t \in Sessions : t # s => loginHolder'[t] = loginHolder[t]
                 /\ loginHolder'[s] = "none"
      BY <1>1, <1>5, <2>2 DEF TypeOK, Holder
    <2> QED
      BY <1>4, <1>6, <2>1, <2>2
  <1>9. TypeOK'
    BY <1>2, <1>3, <1>7, <1>8 DEF TypeOK, worldVars, dbVars
  <1>10. Registered' /\ Pass'
    BY <1>2 DEF Registered, Pass, worldVars
  <1>11. Idle'
    BY <1>1, <1>2, <1>3, <1>7, <1>8 DEF Idle
  <1>12. Loading'
    BY <1>1, <1>8 DEF Loading
  <1> QED
    BY <1>9, <1>10, <1>11, <1>12

\* What ~WorldSession leaves.
Deleted(D, B) ==
    /\ life' \in [Sessions -> {"new", "adding", "live", "gone"}]
    /\ socket' \in [Sessions -> {"open", "closed", "null"}]
    /\ loginHolder' \in [Sessions -> Holder] /\ loaded' \in [Sessions -> Row]
    /\ player' \in [Sessions -> Row \cup {None}]
    /\ forceExit' = forceExit \ D /\ loading' = loading \ D
    /\ \A t \in Sessions :
          /\ life'[t] = IF t \in B THEN "live" ELSE IF t \in D THEN "gone" ELSE life[t]
          /\ socket'[t] = IF t \in D THEN "null" ELSE socket[t]
          /\ loginHolder'[t] = IF t \in D THEN "none" ELSE loginHolder[t]
          /\ loaded'[t] = IF t \in D THEN 0 ELSE loaded[t]
          /\ player'[t] = IF t \in D THEN None ELSE player[t]

LEMMA DeleteIs ==
    ASSUME TypeOK, NEW D \in SUBSET Sessions, NEW B \in SUBSET Sessions, Delete(D, B)
    PROVE  Deleted(D, B)
  <1>1. 0 \in Row
    BY SessionsAssumption DEF Row
  <1>2. /\ life' \in [Sessions -> {"new", "adding", "live", "gone"}]
        /\ \A t \in Sessions :
             life'[t] = IF t \in B THEN "live" ELSE IF t \in D THEN "gone" ELSE life[t]
    BY DEF TypeOK, Delete, Put
  <1>3. /\ loginHolder' \in [Sessions -> Holder]
        /\ \A t \in Sessions : loginHolder'[t] = IF t \in D THEN "none" ELSE loginHolder[t]
    BY DEF TypeOK, Delete, Put, Holder
  <1>4. /\ loaded' \in [Sessions -> Row]
        /\ \A t \in Sessions : loaded'[t] = IF t \in D THEN 0 ELSE loaded[t]
    BY <1>1 DEF TypeOK, Delete, Put
  <1>5. /\ player' \in [Sessions -> Row \cup {None}]
        /\ \A t \in Sessions : player'[t] = IF t \in D THEN None ELSE player[t]
    BY DEF TypeOK, Delete, Put
  <1>6. /\ socket' \in [Sessions -> {"open", "closed", "null"}]
        /\ \A t \in Sessions : socket'[t] = IF t \in D THEN "null" ELSE socket[t]
    BY DEF TypeOK, Delete, Put
  <1> QED
    BY <1>2, <1>3, <1>4, <1>5, <1>6 DEF Delete, Deleted

\* The first of addSessQueue is not in m_sessions yet.
LEMMA HeadSession ==
    ASSUME Lives, addSessQueue # <<>>
    PROVE  LET s == Head(addSessQueue) IN
           /\ s \in Sessions /\ life[s] = "adding" /\ Account[s] \in Accounts
           /\ \A a \in Accounts : sessions[a] # s
           /\ Tail(addSessQueue) \in Seq(Sessions)
           /\ \A i, j \in 1..Len(Tail(addSessQueue)) :
                 Tail(addSessQueue)[i] = Tail(addSessQueue)[j] => i = j
           /\ \A i \in 1..Len(Tail(addSessQueue)) :
                 Tail(addSessQueue)[i] # s /\ life[Tail(addSessQueue)[i]] = "adding"
  <1> DEFINE s == Head(addSessQueue)
             rest == Tail(addSessQueue)
  <1>1. addSessQueue \in Seq(Sessions)
    BY DEF Lives, TypeOK
  <1>2. /\ s = addSessQueue[1] /\ Len(addSessQueue) \in Nat \ {0} /\ rest \in Seq(Sessions)
        /\ Len(rest) = Len(addSessQueue) - 1
        /\ \A i \in 1..(Len(addSessQueue) - 1) : rest[i] = addSessQueue[i + 1]
    BY <1>1
  <1> HIDE DEF s, rest
  <1>3. s \in Sessions /\ life[s] = "adding"
    BY <1>1, <1>2 DEF Lives, Registered
  <1>4. Account[s] \in Accounts /\ \A a \in Accounts : sessions[a] # s
    BY <1>3, SessionsAssumption DEF Lives, Registered
  <1>5. \A i \in 1..Len(rest) : i + 1 \in 1..Len(addSessQueue) /\ 1 \in 1..Len(addSessQueue) /\ i + 1 # 1
    BY <1>2
  <1>6. \A i \in 1..Len(rest) : rest[i] # s /\ life[rest[i]] = "adding"
    BY <1>2, <1>5 DEF Lives, Registered
  <1>7. \A i, j \in 1..Len(rest) : rest[i] = rest[j] => i = j
    <2> SUFFICES ASSUME NEW i \in 1..Len(rest), NEW j \in 1..Len(rest), rest[i] = rest[j]
                 PROVE  i = j
      OBVIOUS
    <2>1. addSessQueue[i + 1] = addSessQueue[j + 1]
      BY <1>2
    <2>2. i + 1 = j + 1
      BY <1>5, <2>1 DEF Lives, Registered
    <2> QED
      BY <2>2
  <1> QED
    BY <1>2, <1>3, <1>4, <1>6, <1>7 DEF s, rest

LEMMA RefuseLives ==
    ASSUME Lives, AddSession_Refuse
    PROVE  Lives'
  <1> USE DEF Lives
  <1> PICK s \in Sessions : s = Head(addSessQueue)
    BY HeadSession DEF AddSession_Refuse
  <1>1. /\ s \in Sessions /\ life[s] = "adding" /\ \A a \in Accounts : sessions[a] # s
        /\ addSessQueue' \in Seq(Sessions)
        /\ \A i, j \in 1..Len(addSessQueue') : addSessQueue'[i] = addSessQueue'[j] => i = j
        /\ \A i \in 1..Len(addSessQueue') : addSessQueue'[i] # s /\ life[addSessQueue'[i]] = "adding"
    BY HeadSession DEF AddSession_Refuse
  <1>2. Delete({s}, {}) /\ UNCHANGED <<initHolder, sessions, queued, disconnects, inQueue, dbVars, threadVars>>
    BY DEF AddSession_Refuse, Delete
  <1>3. /\ life' \in [Sessions -> {"new", "adding", "live", "gone"}]
        /\ socket' \in [Sessions -> {"open", "closed", "null"}]
        /\ loginHolder' \in [Sessions -> Holder] /\ loaded' \in [Sessions -> Row]
        /\ player' \in [Sessions -> Row \cup {None}]
        /\ forceExit' = forceExit \ {s} /\ loading' = loading \ {s}
        /\ \A t \in Sessions :
              /\ life'[t] = IF t = s THEN "gone" ELSE life[t]
              /\ loginHolder'[t] = IF t = s THEN "none" ELSE loginHolder[t]
              /\ player'[t] = IF t = s THEN None ELSE player[t]
    <2>1. {s} \in SUBSET Sessions /\ {} \in SUBSET Sessions
      OBVIOUS
    <2>2. Deleted({s}, {})
      BY <1>2, <2>1, DeleteIs, Zenon
    <2> QED
      BY <2>2 DEF Deleted
  <1>4. TypeOK'
    BY <1>1, <1>2, <1>3 DEF TypeOK, dbVars, threadVars
  <1>5. Registered'
    <2>1. \A a \in Accounts : sessions'[a] # None => life'[sessions'[a]] = "live" /\ Account[sessions'[a]] = a
      BY <1>1, <1>2, <1>3 DEF Registered, TypeOK
    <2>2. \A t \in Sessions : life'[t] = "live" => sessions'[Account[t]] = t
      BY <1>2, <1>3 DEF Registered
    <2>3. \A i \in 1..Len(addSessQueue') : life'[addSessQueue'[i]] = "adding"
      BY <1>1, <1>3
    <2> QED
      BY <1>1, <2>1, <2>2, <2>3 DEF Registered
  <1>6. Idle' /\ Loading'
    BY <1>1, <1>2, <1>3 DEF Idle, Loading
  <1>7. Pass'
    BY <1>2 DEF Pass, threadVars
  <1> QED
    BY <1>4, <1>5, <1>6, <1>7

\* Online are the sessions that are alive, and those in the queue are among them.
LEMMA OnlineIs ==
    ASSUME Lives
    PROVE  Online \in SUBSET Sessions /\ \A s \in Sessions : s \in Online <=> life[s] = "live"
  <1>1. \A s \in Sessions : Account[s] \in Accounts
    BY SessionsAssumption
  <1> QED
    BY <1>1, SessionsAssumption DEF Online, Lives, Registered

OnlineLive == Online \in SUBSET Sessions /\ \A s \in Sessions : s \in Online <=> life[s] = "live"

LEMMA OnlineNow == Lives => OnlineLive
  BY OnlineIs DEF OnlineLive

LEMMA QueuedOnline ==
    ASSUME Lives, Waiting
    PROVE  /\ queued \in Seq(Sessions) /\ IsInjective(queued)
           /\ Range(queued) \subseteq Online /\ Range(queued) \subseteq Sessions
  <1>1. queued \in Seq(Sessions)
    BY DEF Lives, TypeOK
  <1>2. Range(queued) \subseteq Sessions
    BY <1>1, RangeOf
  <1> QED
    BY <1>1, <1>2, OnlineIs DEF Waiting, QueueSound

\* AddSession_ told by what it does: s takes the place of old, if there was a
\* session of the account; r is what RemoveQueuedPlayer made of the queue.
Joins(s, old, r, waits) ==
    LET D == {old} \ {None}
        admitted == IF waits THEN Range(r.admitted) ELSE Range(r.admitted) \cup {s}
    IN  /\ worldpc = "add" /\ addSessQueue # <<>> /\ s = Head(addSessQueue)
        /\ old = sessions[Account[s]] /\ old \notin loading
        /\ old = None => r = [found |-> FALSE, queued |-> queued, admitted |-> <<>>]
        /\ old # None => Removal(r, queued, old, (Online \ Range(queued)) \ {old})
        /\ waits <=> LimitReached(s, r.found, Cardinality((Online \ D) \cup {s}))
        /\ sessions' = [sessions EXCEPT ![Account[s]] = s]
        /\ Deleted(D, {s})
        /\ queued' = IF waits THEN r.queued \o <<s>> ELSE r.queued
        /\ inQueue' = IF waits THEN (inQueue \ D) \cup {s} ELSE inQueue \ D
        /\ initHolder' \in [Sessions -> Holder]
        /\ \A t \in Sessions : initHolder'[t] =
              IF t \in D THEN "none" ELSE IF t \in admitted THEN "asked" ELSE initHolder[t]
        /\ dbQueue' = dbQueue \o InitOps(r.admitted) \o SaveOps(old)
                              \o InitOps(IF waits THEN <<>> ELSE <<s>>)
        /\ addSessQueue' = Tail(addSessQueue)
        /\ UNCHANGED <<disconnects, stored, progress, threadVars>>

LEMMA AddJoins ==
    ASSUME Lives, Waiting, AddSession_
    PROVE  \E s \in Sessions, old \in Sessions \cup {None}, waits \in BOOLEAN :
               \E r : Joins(s, old, r, waits)
  <1> USE DEF Lives
  <1>1. PICK s \in Sessions : s = Head(addSessQueue)
    BY HeadSession DEF AddSession_
  <1>2. PICK old \in Sessions \cup {None} : old = sessions[Account[s]]
    BY SessionsAssumption DEF TypeOK
  <1> DEFINE D == {old} \ {None}
  <1>3. PICK r : r = IF D = {} THEN [found |-> FALSE, queued |-> queued, admitted |-> <<>>]
                     ELSE RemoveQueuedPlayer(old, queued, GetActiveAndQueuedSessionCount)
    OBVIOUS
  <1>4. PICK waits \in BOOLEAN : waits <=> LimitReached(s, r.found, Cardinality((Online \ D) \cup {s}))
    BY Zenon
  <1> DEFINE W == IF waits THEN <<s>> ELSE <<>>
             E == IF waits THEN <<>> ELSE <<s>>
  <1>5. W = <<>> <=> ~waits
    OBVIOUS
  <1>6. /\ worldpc = "add" /\ addSessQueue # <<>> /\ old \notin loading
        /\ sessions' = [sessions EXCEPT ![Account[s]] = s]
        /\ addSessQueue' = Tail(addSessQueue)
        /\ UNCHANGED <<disconnects, stored, progress, threadVars>>
    BY <1>1, <1>2 DEF AddSession_
  <1>7. /\ Delete(D, {s})
        /\ queued' = r.queued \o W
        /\ inQueue' = (inQueue \ D) \cup Range(W)
        /\ initHolder' = Put(Put(initHolder, Range(r.admitted \o E), "asked"), D, "none")
        /\ dbQueue' = dbQueue \o InitOps(r.admitted) \o SaveOps(old) \o InitOps(E)
    <2>1. W = IF LimitReached(s, r.found, Cardinality((Online \ D) \cup {s})) THEN <<s>> ELSE <<>>
      BY <1>4
    <2>2. E = IF W = <<>> THEN <<s>> ELSE <<>>
      BY <1>5
    <2> HIDE DEF W, E
    <2> QED
      BY <1>1, <1>2, <1>3, <2>1, <2>2, Zenon DEF AddSession_, InitializeSession
  <1>8. /\ old = None => r = [found |-> FALSE, queued |-> queued, admitted |-> <<>>]
        /\ old # None => Removal(r, queued, old, (Online \ Range(queued)) \ {old})
    <2>1. CASE old = None
      BY <1>3, <2>1
    <2>2. CASE old # None
      <3>1. old \in Online
        BY <1>2, <2>2, OnlineIs, SessionsAssumption DEF Registered
      <3>2. D # {}
        BY <2>2
      <3>3. r = RemoveQueuedPlayer(old, queued, Cardinality(Online))
        BY <1>3, <3>2 DEF GetActiveAndQueuedSessionCount
      <3> HIDE DEF D, Lives
      <3>4. Removal(RemoveQueuedPlayer(old, queued, Cardinality(Online)), queued, old,
                    (Online \ Range(queued)) \ {old})
        BY <3>1, OnlineIs, QueuedOnline, RemovalRule
      <3> QED
        BY <2>2, <3>3, <3>4
    <2> QED
      BY <2>1, <2>2
  <1>9. r.admitted \in Seq(Sessions) /\ r.queued \in Seq(Sessions)
    <2>1. CASE old = None
      <3>1. r.admitted = <<>> /\ r.queued = queued
        BY <1>8, <2>1
      <3> QED
        BY <3>1 DEF TypeOK
    <2>2. CASE old # None
      <3>1. queued \in Seq(Sessions) /\ Removal(r, queued, old, (Online \ Range(queued)) \ {old})
        BY <1>8, <2>2 DEF TypeOK
      <3> QED
        BY <3>1, RemovalTypes
    <2> QED
      BY <2>1, <2>2
  <1>10. Range(<<s>>) = {s} /\ Range(<<>>) = {} /\ Range(r.admitted \o <<s>>) = Range(r.admitted) \cup {s}
         /\ Range(r.admitted \o <<>>) = Range(r.admitted)
    <2>1. /\ r.admitted \o <<s>> = Append(r.admitted, s) /\ r.admitted \o <<>> = r.admitted
      BY <1>9
    <2>2. /\ r.admitted \o <<s>> \in Seq(Sessions) /\ Len(r.admitted \o <<s>>) = Len(r.admitted) + 1
          /\ \A i \in 1..Len(r.admitted) : (r.admitted \o <<s>>)[i] = r.admitted[i]
          /\ (r.admitted \o <<s>>)[Len(r.admitted) + 1] = s /\ Len(r.admitted) \in Nat
      BY <1>9
    <2>3. \A i \in 1..(Len(r.admitted) + 1) : i \in 1..Len(r.admitted) \/ i = Len(r.admitted) + 1
      BY <2>2
    <2>4. \A x : x \in Range(r.admitted \o <<s>>) <=> x \in Range(r.admitted) \/ x = s
      <3> DEFINE t == r.admitted \o <<s>>
      <3>0. t \in Seq(Sessions)
        BY <2>2
      <3> HIDE DEF t
      <3>1. \A x : x \in Range(t) <=> \E i \in 1..Len(t) : t[i] = x
        BY <3>0, RangeOf
      <3>2. \A x : x \in Range(r.admitted) <=> \E i \in 1..Len(r.admitted) : r.admitted[i] = x
        BY <1>9, RangeOf
      <3>3. Len(r.admitted) + 1 \in 1..Len(t) /\ \A i \in 1..Len(r.admitted) : i \in 1..Len(t)
        BY <2>2 DEF t
      <3> QED
        BY <2>2, <2>3, <3>1, <3>2, <3>3 DEF t
    <2>5. Range(<<s>>) = {s} /\ Range(<<>>) = {}
      BY DEF Range
    <2> QED
      BY <2>1, <2>4, <2>5
  <1>11. Deleted(D, {s})
    <2>1. D \in SUBSET Sessions /\ {s} \in SUBSET Sessions
      OBVIOUS
    <2> HIDE DEF D
    <2> QED
      BY <1>7, <2>1, DeleteIs, Zenon
  <1>12. /\ queued' = IF waits THEN r.queued \o <<s>> ELSE r.queued
         /\ inQueue' = IF waits THEN (inQueue \ D) \cup {s} ELSE inQueue \ D
    <2>1. r.queued \o <<>> = r.queued
      BY <1>9
    <2> QED
      BY <1>7, <1>10, <2>1
  <1>13. /\ initHolder' \in [Sessions -> Holder]
         /\ \A t \in Sessions : initHolder'[t] =
              IF t \in D THEN "none"
              ELSE IF t \in (IF waits THEN Range(r.admitted) ELSE Range(r.admitted) \cup {s}) THEN "asked"
              ELSE initHolder[t]
    <2>1. Range(r.admitted \o E) = IF waits THEN Range(r.admitted) ELSE Range(r.admitted) \cup {s}
      BY <1>10
    <2> HIDE DEF E, D
    <2> QED
      BY <1>7, <2>1 DEF TypeOK, Put, Holder
  <1>14. Joins(s, old, r, waits)
    BY <1>1, <1>2, <1>4, <1>6, <1>7, <1>8, <1>11, <1>12, <1>13, Zenon DEF Joins
  <1> QED
    BY <1>14

\* The queue without old falls into those who wait on and those let in.
Split(r, old) ==
    /\ r.admitted \in Seq(Sessions) /\ r.queued \in Seq(Sessions) /\ IsInjective(r.queued)
    /\ Range(r.queued) \cup Range(r.admitted) = Range(queued) \ {old}
    /\ Range(r.queued) \cap Range(r.admitted) = {}
    /\ Range(r.queued) \subseteq Sessions /\ Range(r.admitted) \subseteq Sessions

LEMMA JoinQueue ==
    ASSUME Lives, Waiting, NEW s \in Sessions, NEW old \in Sessions \cup {None}, NEW r,
           NEW waits \in BOOLEAN, Joins(s, old, r, waits)
    PROVE  Split(r, old)
  <1>1. queued \in Seq(Sessions) /\ IsInjective(queued) /\ Range(queued) \subseteq Sessions
    BY QueuedOnline
  <1>2. CASE old = None
    <2>1. r.admitted = <<>> /\ r.queued = queued
      BY <1>2 DEF Joins
    <2>2. Range(<<>>) = {} /\ <<>> \in Seq(Sessions)
      BY DEF Range
    <2>3. None \notin Range(queued)
      BY <1>1, SessionsAssumption
    <2> QED
      BY <1>1, <1>2, <2>1, <2>2, <2>3 DEF Split
  <1>3. CASE old # None
    <2>1. PICK A : Removal(r, queued, old, A)
      BY <1>3 DEF Joins
    <2>2. /\ r.admitted \in Seq(Sessions) /\ r.queued \in Seq(Sessions) /\ IsInjective(r.queued)
          /\ Range(r.queued) \cup Range(r.admitted) = Range(queued) \ {old}
          /\ Range(r.queued) \cap Range(r.admitted) = {}
      BY <1>1, <2>1, RemovalTypes
    <2> QED
      BY <1>1, <2>2 DEF Split
  <1> QED
    BY <1>2, <1>3

\* Who is who when s takes the place of old.
LEMMA JoinLife ==
    ASSUME Lives, NEW s \in Sessions, NEW old \in Sessions \cup {None}, NEW r,
           NEW waits \in BOOLEAN, Joins(s, old, r, waits)
    PROVE  /\ life[s] = "adding" /\ s # old /\ Account[s] \in Accounts
           /\ old # None => life[old] = "live" /\ Account[old] = Account[s]
           /\ \A t \in Sessions :
                 /\ life'[t] = IF t = s THEN "live" ELSE IF t = old THEN "gone" ELSE life[t]
                 /\ loginHolder'[t] = IF t = old THEN "none" ELSE loginHolder[t]
                 /\ loaded'[t] = IF t = old THEN 0 ELSE loaded[t]
                 /\ player'[t] = IF t = old THEN None ELSE player[t]
           /\ \A a \in Accounts : sessions'[a] = IF a = Account[s] THEN s ELSE sessions[a]
           /\ loading' = loading \ {old}
  <1>1. life[s] = "adding" /\ Account[s] \in Accounts /\ \A a \in Accounts : sessions[a] # s
    BY HeadSession DEF Joins
  <1>2. s # old
    BY <1>1 DEF Joins
  <1>3. old # None => life[old] = "live" /\ Account[old] = Account[s]
    BY <1>1 DEF Joins, Lives, Registered
  <1>4. \A a \in Accounts : sessions'[a] = IF a = Account[s] THEN s ELSE sessions[a]
    BY <1>1 DEF Joins, Lives, TypeOK
  <1>5. Deleted({old} \ {None}, {s})
    BY DEF Joins
  <1>6. \A t \in Sessions : t \in {old} \ {None} <=> t = old
    BY SessionsAssumption
  <1>7. \A t \in Sessions :
                 /\ life'[t] = IF t = s THEN "live" ELSE IF t = old THEN "gone" ELSE life[t]
                 /\ loginHolder'[t] = IF t = old THEN "none" ELSE loginHolder[t]
                 /\ loaded'[t] = IF t = old THEN 0 ELSE loaded[t]
                 /\ player'[t] = IF t = old THEN None ELSE player[t]
    BY <1>5, <1>6 DEF Deleted
  <1>8. loading' = loading \ {old}
    <2>1. loading \subseteq Sessions
      BY DEF Lives, TypeOK
    <2> QED
      BY <1>5, <1>6, <2>1 DEF Deleted
  <1> QED
    BY <1>1, <1>2, <1>3, <1>4, <1>7, <1>8

LEMMA JoinLives ==
    ASSUME Lives, Waiting, AddSession_
    PROVE  Lives'
  <1>0. PICK s \in Sessions, old \in Sessions \cup {None}, waits \in BOOLEAN : \E r : Joins(s, old, r, waits)
    BY AddJoins
  <1>1. PICK r : Joins(s, old, r, waits)
    BY <1>0
  <1>2. /\ life[s] = "adding" /\ s # old /\ Account[s] \in Accounts
        /\ old # None => life[old] = "live" /\ Account[old] = Account[s]
        /\ \A t \in Sessions :
              /\ life'[t] = IF t = s THEN "live" ELSE IF t = old THEN "gone" ELSE life[t]
              /\ loginHolder'[t] = IF t = old THEN "none" ELSE loginHolder[t]
              /\ player'[t] = IF t = old THEN None ELSE player[t]
        /\ \A a \in Accounts : sessions'[a] = IF a = Account[s] THEN s ELSE sessions[a]
        /\ loading' = loading \ {old}
    BY <1>1, JoinLife
  <1>3. /\ addSessQueue' \in Seq(Sessions)
        /\ \A i, j \in 1..Len(addSessQueue') : addSessQueue'[i] = addSessQueue'[j] => i = j
        /\ \A i \in 1..Len(addSessQueue') : addSessQueue'[i] # s /\ life[addSessQueue'[i]] = "adding"
    BY <1>1, HeadSession DEF Joins
  <1>9. Split(r, old)
    BY <1>1, JoinQueue, Zenon
  <1>4. TypeOK'
    <2>1. Deleted({old} \ {None}, {s})
      BY <1>1 DEF Joins
    <2>2. /\ r.admitted \in Seq(Sessions) /\ r.queued \in Seq(Sessions)
      BY <1>9 DEF Split
    <2>3. queued' \in Seq(Sessions)
      BY <1>1, <2>2 DEF Joins
    <2>4. dbQueue' \in Seq(Operation)
      <3> DEFINE e == IF waits THEN <<>> ELSE <<s>>
      <3>1. e \in Seq(Sessions)
        OBVIOUS
      <3> HIDE DEF e
      <3>2. InitOps(r.admitted) \in Seq(Operation) /\ InitOps(e) \in Seq(Operation)
        BY <2>2, <3>1, InitOpsAre
      <3>3. SaveOps(old) \in Seq(Operation) /\ dbQueue \in Seq(Operation)
        BY SaveOpsAre DEF Lives, TypeOK
      <3>4. dbQueue' = dbQueue \o InitOps(r.admitted) \o SaveOps(old) \o InitOps(e)
        BY <1>1 DEF Joins, e
      <3> QED
        BY <3>2, <3>3, <3>4
    <2>5. sessions' \in [Accounts -> Sessions \cup {None}]
      BY <1>1 DEF Joins, Lives, TypeOK
    <2>6. /\ inQueue' \subseteq Sessions /\ initHolder' \in [Sessions -> Holder]
          /\ UNCHANGED <<disconnects, stored, progress, threadVars>>
      BY <1>1 DEF Joins, Lives, TypeOK
    <2>7. TypeOK
      BY DEF Lives
    <2> QED
      BY <1>3, <2>1, <2>3, <2>4, <2>5, <2>6, <2>7 DEF TypeOK, Deleted, threadVars
  <1>5. Registered'
    <2>1. \A a \in Accounts : sessions'[a] # None => life'[sessions'[a]] = "live" /\ Account[sessions'[a]] = a
      <3> SUFFICES ASSUME NEW a \in Accounts, sessions'[a] # None
                   PROVE  life'[sessions'[a]] = "live" /\ Account[sessions'[a]] = a
        OBVIOUS
      <3>1. CASE a = Account[s]
        BY <1>2, <3>1
      <3>2. CASE a # Account[s]
        <4>1. sessions'[a] = sessions[a] /\ sessions[a] \in Sessions
              /\ life[sessions[a]] = "live" /\ Account[sessions[a]] = a
          BY <1>2, <3>2 DEF Lives, TypeOK, Registered
        <4>2. sessions[a] # s /\ sessions[a] # old
          BY <1>2, <3>2, <4>1
        <4> QED
          BY <1>2, <4>1, <4>2
      <3> QED
        BY <3>1, <3>2
    <2>2. \A t \in Sessions : life'[t] = "live" => sessions'[Account[t]] = t
      <3> SUFFICES ASSUME NEW t \in Sessions, life'[t] = "live"
                   PROVE  sessions'[Account[t]] = t
        OBVIOUS
      <3>1. Account[t] \in Accounts
        BY SessionsAssumption
      <3>2. CASE t = s
        BY <1>2, <3>2
      <3>3. CASE t # s
        <4>1. t # old /\ life[t] = "live" /\ sessions[Account[t]] = t
          BY <1>2, <3>3 DEF Lives, Registered
        <4>2. Account[t] # Account[s]
          BY <1>1, <4>1 DEF Joins
        <4> QED
          BY <1>2, <3>1, <4>1, <4>2
      <3> QED
        BY <3>2, <3>3
    <2>3. \A i \in 1..Len(addSessQueue') : life'[addSessQueue'[i]] = "adding"
      <3> SUFFICES ASSUME NEW i \in 1..Len(addSessQueue') PROVE life'[addSessQueue'[i]] = "adding"
        OBVIOUS
      <3>1. addSessQueue'[i] \in Sessions /\ addSessQueue'[i] # s /\ life[addSessQueue'[i]] = "adding"
        BY <1>3
      <3>2. addSessQueue'[i] # old
        BY <1>2, <3>1, SessionsAssumption
      <3> QED
        BY <1>2, <3>1, <3>2
    <2> QED
      BY <1>3, <2>1, <2>2, <2>3 DEF Registered
  <1>6. Idle'
    <2> SUFFICES ASSUME NEW t \in Sessions, life'[t] # "live"
                 PROVE  /\ player'[t] = None /\ initHolder'[t] = "none" /\ loginHolder'[t] = "none"
                        /\ t \notin inQueue' /\ t \notin loading'
      BY DEF Idle
    <2>1. t # s
      BY <1>2
    <2>2. CASE t = old
      BY <1>1, <1>2, <2>1, <2>2, SessionsAssumption DEF Joins
    <2>3. CASE t # old
      <3>1. life[t] # "live"
        BY <1>2, <2>1, <2>3
      <3>2. t \notin Range(r.admitted)
        <4>1. Range(r.queued) \cup Range(r.admitted) = Range(queued) \ {old}
          BY <1>9 DEF Split
        <4>2. Range(queued) \subseteq Online
          BY QueuedOnline
        <4> QED
          BY <3>1, <4>1, <4>2, OnlineIs
      <3>3. initHolder'[t] = initHolder[t] /\ (t \in inQueue' => t \in inQueue)
        BY <1>1, <2>1, <2>3, <3>2 DEF Joins
      <3> QED
        BY <1>2, <2>3, <3>1, <3>3 DEF Lives, Idle
    <2> QED
      BY <2>2, <2>3
  <1>7. Loading'
    BY <1>2 DEF Lives, Loading
  <1>8. Pass'
    BY <1>1 DEF Joins, Pass, threadVars
  <1> QED
    BY <1>4, <1>5, <1>6, <1>7, <1>8 DEF Lives

\* Update_Remove told in the same way: s goes, r1 and r2 are what the two calls
\* of RemoveQueuedPlayer made of the queue.
Leaves(s, r1, r2) ==
    LET admitted == Range(r1.admitted) \cup Range(r2.admitted) IN
    /\ worldpc = "finish" /\ s = sessions[cur]
    /\ Removal(r1, queued, s, (Online \ Range(queued)) \ {s})
    /\ Removal(r2, r1.queued, s, (Online \ Range(r1.queued)) \ {s})
    /\ queued' = r2.queued
    /\ disconnects \subseteq disconnects' /\ disconnects' \subseteq Accounts
    /\ sessions' = [sessions EXCEPT ![cur] = None]
    /\ Deleted({s}, {})
    /\ inQueue' = inQueue \ {s}
    /\ initHolder' \in [Sessions -> Holder]
    /\ \A t \in Sessions : initHolder'[t] =
          IF t = s THEN "none" ELSE IF t \in admitted THEN "asked" ELSE initHolder[t]
    /\ dbQueue' = dbQueue \o InitOps(r1.admitted \o r2.admitted) \o SaveOps(s)
    /\ worldpc' = "next" /\ cur' = None
    /\ UNCHANGED <<addSessQueue, stored, progress, todo, stopping>>

\* A place in two rows set end to end is a place in one of them.
LEMMA EitherPart ==
    ASSUME NEW m \in Nat, NEW n \in Nat
    PROVE  \A i \in 1..(m + n) : i \in 1..m \/ \E j \in 1..n : i = m + j
  <1> TAKE i \in 1..(m + n)
  <1>1. CASE i > m
    <2>1. i - m \in 1..n /\ i = m + (i - m)
      BY <1>1
    <2> QED
      BY <2>1
  <1>2. CASE i <= m
    BY <1>2
  <1> QED
    BY <1>1, <1>2

\* Those let in by the two calls.
LEMMA BothAdmitted ==
    ASSUME NEW x \in Seq(Sessions), NEW y \in Seq(Sessions)
    PROVE  x \o y \in Seq(Sessions) /\ Range(x \o y) = Range(x) \cup Range(y)
  <1>1. /\ x \o y \in Seq(Sessions) /\ Len(x \o y) = Len(x) + Len(y)
        /\ Len(x) \in Nat /\ Len(y) \in Nat
        /\ \A i \in 1..Len(x) : (x \o y)[i] = x[i]
        /\ \A i \in 1..Len(y) : (x \o y)[Len(x) + i] = y[i]
    OBVIOUS
  <1>2. \A i \in 1..(Len(x) + Len(y)) : i \in 1..Len(x) \/ \E j \in 1..Len(y) : i = Len(x) + j
    BY <1>1, EitherPart
  <1> DEFINE z == x \o y
  <1> HIDE DEF z
  <1>3. \A e : e \in Range(z) <=> \E i \in 1..Len(z) : z[i] = e
    BY <1>1, RangeOf DEF z
  <1>4. /\ \A e : e \in Range(x) <=> \E i \in 1..Len(x) : x[i] = e
        /\ \A e : e \in Range(y) <=> \E i \in 1..Len(y) : y[i] = e
    BY RangeOf
  <1>5. /\ \A i \in 1..Len(x) : i \in 1..(Len(x) + Len(y))
        /\ \A i \in 1..Len(y) : Len(x) + i \in 1..(Len(x) + Len(y))
    BY <1>1
  <1>6. \A e : e \in Range(z) <=> e \in Range(x) \/ e \in Range(y)
    <2>1. \A i \in 1..Len(z) : z[i] \in Range(x) \cup Range(y)
      <3> SUFFICES ASSUME NEW i \in 1..(Len(x) + Len(y)) PROVE z[i] \in Range(x) \cup Range(y)
        BY <1>1 DEF z
      <3>1. CASE i \in 1..Len(x)
        BY <1>1, <1>4, <3>1 DEF z
      <3>2. ASSUME NEW j \in 1..Len(y), i = Len(x) + j PROVE z[i] \in Range(x) \cup Range(y)
        BY <1>1, <1>4, <3>2 DEF z
      <3> QED
        BY <1>2, <3>1, <3>2
    <2>2. \A i \in 1..Len(x) : x[i] \in Range(z)
      BY <1>1, <1>3, <1>5 DEF z
    <2>3. \A i \in 1..Len(y) : y[i] \in Range(z)
      BY <1>1, <1>3, <1>5 DEF z
    <2> QED
      BY <1>3, <1>4, <2>1, <2>2, <2>3
  <1> QED
    BY <1>1, <1>6 DEF z

LEMMA RemoveLeaves ==
    ASSUME Lives, Waiting, Update_Remove
    PROVE  \E s \in Sessions : \E r1, r2 : Leaves(s, r1, r2)
  <1>1. PICK s \in Sessions : s = sessions[cur]
    BY Current DEF Update_Remove
  <1>2. PICK r1 : r1 = RemoveQueuedPlayer(s, queued, GetActiveAndQueuedSessionCount)
    OBVIOUS
  <1>3. PICK r2 : r2 = RemoveQueuedPlayer(s, r1.queued, GetActiveAndQueuedSessionCount)
    OBVIOUS
  <1>4. /\ s \in Online /\ Online \in SUBSET Sessions
        /\ queued \in Seq(Sessions) /\ IsInjective(queued) /\ Range(queued) \subseteq Online
    <2>1. life[s] = "live"
      BY <1>1, Current DEF Update_Remove
    <2> QED
      BY <2>1, OnlineIs, QueuedOnline
  <1>5. Removal(r1, queued, s, (Online \ Range(queued)) \ {s})
    <2>1. Removal(RemoveQueuedPlayer(s, queued, Cardinality(Online)), queued, s,
                  (Online \ Range(queued)) \ {s})
      BY <1>4, RemovalRule
    <2> QED
      BY <1>2, <2>1 DEF GetActiveAndQueuedSessionCount
  <1>6. /\ r1.admitted \in Seq(Sessions) /\ Range(r1.admitted) \subseteq Range(queued) \ {s}
        /\ Range(r1.queued) \cup Range(r1.admitted) = Range(queued) \ {s}
        /\ r1.queued \in Seq(Sessions) /\ IsInjective(r1.queued)
    <2>1. PICK A : Removal(r1, queued, s, A)
      BY <1>5
    <2> QED
      BY <1>4, <2>1, RemovalTypes
  <1>7. Removal(r2, r1.queued, s, (Online \ Range(r1.queued)) \ {s})
    <2>1. PICK q : q = r1.queued
      OBVIOUS
    <2>2. q \in Seq(Sessions) /\ IsInjective(q) /\ Range(q) \subseteq Online
      BY <1>4, <1>6, <2>1
    <2>3. Removal(RemoveQueuedPlayer(s, q, Cardinality(Online)), q, s, (Online \ Range(q)) \ {s})
      BY <1>4, <2>2, RemovalRule
    <2> QED
      BY <1>3, <2>1, <2>3 DEF GetActiveAndQueuedSessionCount
  <1>8. r2.admitted \in Seq(Sessions)
    <2>1. PICK q : q = r1.queued
      OBVIOUS
    <2>2. PICK A : Removal(r2, q, s, A)
      BY <1>7, <2>1
    <2>3. q \in Seq(Sessions)
      BY <1>6, <2>1
    <2> QED
      BY <2>2, <2>3, RemovalTypes
  <1>9. /\ worldpc = "finish" /\ socket[s] = "closed"
        /\ queued' = r2.queued
        /\ disconnects' = IF ~r1.found /\ Tolerance THEN disconnects \cup {cur} ELSE disconnects
        /\ sessions' = [sessions EXCEPT ![cur] = None]
        /\ Delete({s}, {})
        /\ initHolder' = Put(Put(initHolder, Range(r1.admitted \o r2.admitted), "asked"), {s}, "none")
        /\ inQueue' = inQueue \ {s}
        /\ dbQueue' = dbQueue \o InitOps(r1.admitted \o r2.admitted) \o SaveOps(s)
        /\ worldpc' = "next" /\ cur' = None
        /\ UNCHANGED <<addSessQueue, stored, progress, todo, stopping>>
    BY <1>1, <1>2, <1>3, Zenon DEF Update_Remove, InitializeSession
  <1>10. disconnects \subseteq disconnects' /\ disconnects' \subseteq Accounts
    <2>1. cur \in Accounts /\ disconnects \subseteq Accounts
      BY <1>9, Current DEF Lives, TypeOK
    <2> QED
      BY <1>9, <2>1
  <1>11. Deleted({s}, {})
    <2>1. {s} \in SUBSET Sessions /\ {} \in SUBSET Sessions /\ TypeOK
      BY DEF Lives
    <2> QED
      BY <1>9, <2>1, DeleteIs, Zenon
  <1>12. /\ initHolder' \in [Sessions -> Holder]
         /\ \A t \in Sessions : initHolder'[t] =
              IF t = s THEN "none"
              ELSE IF t \in Range(r1.admitted) \cup Range(r2.admitted) THEN "asked" ELSE initHolder[t]
    <2>1. Range(r1.admitted \o r2.admitted) = Range(r1.admitted) \cup Range(r2.admitted)
      BY <1>6, <1>8, BothAdmitted
    <2> QED
      BY <1>9, <2>1 DEF Lives, TypeOK, Put, Holder
  <1>13. Leaves(s, r1, r2)
    BY <1>1, <1>5, <1>7, <1>9, <1>10, <1>11, <1>12, Zenon DEF Leaves
  <1> QED
    BY <1>13

\* The queue without s falls into those who wait on and those let in.
SplitTwice(s, r1, r2) ==
    /\ r1.admitted \in Seq(Sessions) /\ r1.queued \in Seq(Sessions) /\ IsInjective(r1.queued)
    /\ r2.admitted \in Seq(Sessions) /\ r2.queued \in Seq(Sessions) /\ IsInjective(r2.queued)
    /\ Range(r1.queued) \cup Range(r1.admitted) = Range(queued) \ {s}
    /\ Range(r1.queued) \cap Range(r1.admitted) = {}
    /\ Range(r2.queued) \cup Range(r2.admitted) = Range(r1.queued)
    /\ Range(r2.queued) \cap Range(r2.admitted) = {}

LEMMA LeaveQueue ==
    ASSUME Lives, Waiting, NEW s \in Sessions, NEW r1, NEW r2, Leaves(s, r1, r2)
    PROVE  SplitTwice(s, r1, r2)
  <1>1. queued \in Seq(Sessions) /\ IsInjective(queued) /\ Range(queued) \subseteq Sessions
    BY QueuedOnline
  <1>2. PICK A : Removal(r1, queued, s, A)
    BY DEF Leaves
  <1>3. /\ r1.admitted \in Seq(Sessions) /\ r1.queued \in Seq(Sessions) /\ IsInjective(r1.queued)
        /\ Range(r1.queued) \cup Range(r1.admitted) = Range(queued) \ {s}
        /\ Range(r1.queued) \cap Range(r1.admitted) = {}
    BY <1>1, <1>2, RemovalTypes
  <1>4. PICK q : q = r1.queued
    OBVIOUS
  <1>5. PICK B : Removal(r2, q, s, B)
    BY <1>4 DEF Leaves
  <1>6. q \in Seq(Sessions)
    BY <1>3, <1>4
  <1>7. /\ r2.admitted \in Seq(Sessions) /\ r2.queued \in Seq(Sessions) /\ IsInjective(r2.queued)
        /\ Range(r2.queued) \cup Range(r2.admitted) = Range(q) \ {s}
        /\ Range(r2.queued) \cap Range(r2.admitted) = {}
    BY <1>5, <1>6, RemovalTypes
  <1>8. Range(q) \ {s} = Range(r1.queued)
    BY <1>3, <1>4
  <1> QED
    BY <1>3, <1>7, <1>8 DEF SplitTwice

LEMMA LeaveLife ==
    ASSUME Lives, NEW s \in Sessions, NEW r1, NEW r2, Leaves(s, r1, r2)
    PROVE  /\ life[s] = "live" /\ cur \in Accounts /\ Account[s] = cur
           /\ \A t \in Sessions :
                 /\ life'[t] = IF t = s THEN "gone" ELSE life[t]
                 /\ loginHolder'[t] = IF t = s THEN "none" ELSE loginHolder[t]
                 /\ loaded'[t] = IF t = s THEN 0 ELSE loaded[t]
                 /\ player'[t] = IF t = s THEN None ELSE player[t]
           /\ \A a \in Accounts : sessions'[a] = IF a = cur THEN None ELSE sessions[a]
           /\ loading' = loading \ {s}
  <1>1. life[s] = "live" /\ cur \in Accounts /\ Account[s] = cur
    BY Current DEF Leaves
  <1>2. \A a \in Accounts : sessions'[a] = IF a = cur THEN None ELSE sessions[a]
    BY <1>1 DEF Leaves, Lives, TypeOK
  <1>3. Deleted({s}, {})
    BY DEF Leaves
  <1> QED
    BY <1>1, <1>2, <1>3 DEF Deleted

LEMMA LeaveLives ==
    ASSUME Lives, Waiting, Update_Remove
    PROVE  Lives'
  <1>0. PICK s \in Sessions : \E r1, r2 : Leaves(s, r1, r2)
    BY RemoveLeaves
  <1>1. PICK r1, r2 : Leaves(s, r1, r2)
    BY <1>0
  <1>2. /\ life[s] = "live" /\ cur \in Accounts /\ Account[s] = cur
        /\ \A t \in Sessions :
              /\ life'[t] = IF t = s THEN "gone" ELSE life[t]
              /\ loginHolder'[t] = IF t = s THEN "none" ELSE loginHolder[t]
              /\ player'[t] = IF t = s THEN None ELSE player[t]
        /\ \A a \in Accounts : sessions'[a] = IF a = cur THEN None ELSE sessions[a]
        /\ loading' = loading \ {s}
    BY <1>1, LeaveLife
  <1>3. SplitTwice(s, r1, r2)
    BY <1>1, LeaveQueue, Zenon
  <1>4. TypeOK'
    <2>1. Deleted({s}, {})
      BY <1>1 DEF Leaves
    <2>2. queued' \in Seq(Sessions) /\ r1.admitted \o r2.admitted \in Seq(Sessions)
      BY <1>1, <1>3, BothAdmitted DEF Leaves, SplitTwice
    <2>3. dbQueue' \in Seq(Operation)
      <3>1. InitOps(r1.admitted \o r2.admitted) \in Seq(Operation)
        BY <2>2, InitOpsAre
      <3>2. SaveOps(s) \in Seq(Operation) /\ dbQueue \in Seq(Operation)
        BY SaveOpsAre DEF Lives, TypeOK
      <3>3. dbQueue' = dbQueue \o InitOps(r1.admitted \o r2.admitted) \o SaveOps(s)
        BY <1>1 DEF Leaves
      <3> QED
        BY <3>1, <3>2, <3>3
    <2>4. sessions' \in [Accounts -> Sessions \cup {None}]
      BY <1>1 DEF Leaves, Lives, TypeOK
    <2>5. /\ inQueue' \subseteq Sessions /\ initHolder' \in [Sessions -> Holder]
          /\ disconnects' \subseteq Accounts /\ worldpc' = "next" /\ cur' = None
          /\ UNCHANGED <<addSessQueue, stored, progress, todo, stopping>>
      BY <1>1 DEF Leaves, Lives, TypeOK
    <2>6. TypeOK
      BY DEF Lives
    <2> QED
      BY <2>1, <2>2, <2>3, <2>4, <2>5, <2>6 DEF TypeOK, Deleted
  <1>5. Registered'
    <2>1. \A a \in Accounts : sessions'[a] # None => life'[sessions'[a]] = "live" /\ Account[sessions'[a]] = a
      <3> SUFFICES ASSUME NEW a \in Accounts, sessions'[a] # None
                   PROVE  life'[sessions'[a]] = "live" /\ Account[sessions'[a]] = a
        OBVIOUS
      <3>1. a # cur /\ sessions'[a] = sessions[a]
        BY <1>2
      <3>2. sessions[a] \in Sessions /\ life[sessions[a]] = "live" /\ Account[sessions[a]] = a
        BY <3>1 DEF Lives, TypeOK, Registered
      <3>3. sessions[a] # s
        BY <1>2, <3>1, <3>2
      <3> QED
        BY <1>2, <3>1, <3>2, <3>3
    <2>2. \A t \in Sessions : life'[t] = "live" => sessions'[Account[t]] = t
      <3> SUFFICES ASSUME NEW t \in Sessions, life'[t] = "live"
                   PROVE  sessions'[Account[t]] = t
        OBVIOUS
      <3>1. Account[t] \in Accounts /\ t # s /\ sessions[Account[t]] = t
        BY <1>2, SessionsAssumption DEF Lives, Registered
      <3>2. Account[t] # cur
        BY <1>1, <3>1 DEF Leaves
      <3> QED
        BY <1>2, <3>1, <3>2
    <2>3. addSessQueue' = addSessQueue /\ addSessQueue \in Seq(Sessions)
      BY <1>1 DEF Leaves, Lives, TypeOK
    <2>4. \A i \in 1..Len(addSessQueue) : life[addSessQueue[i]] = "adding" /\ addSessQueue[i] \in Sessions
      BY <2>3 DEF Lives, Registered
    <2>5. \A i \in 1..Len(addSessQueue') : life'[addSessQueue'[i]] = "adding"
      BY <1>2, <2>3, <2>4
    <2>6. \A i, j \in 1..Len(addSessQueue') : addSessQueue'[i] = addSessQueue'[j] => i = j
      BY <2>3 DEF Lives, Registered
    <2> QED
      BY <2>1, <2>2, <2>5, <2>6 DEF Registered
  <1>6. Idle'
    <2> SUFFICES ASSUME NEW t \in Sessions, life'[t] # "live"
                 PROVE  /\ player'[t] = None /\ initHolder'[t] = "none" /\ loginHolder'[t] = "none"
                        /\ t \notin inQueue' /\ t \notin loading'
      BY DEF Idle
    <2>1. CASE t = s
      BY <1>1, <1>2, <2>1 DEF Leaves
    <2>2. CASE t # s
      <3>1. life[t] # "live"
        BY <1>2, <2>2
      <3>2. t \notin Range(r1.admitted) \cup Range(r2.admitted)
        <4>1. Range(r1.admitted) \cup Range(r2.admitted) \subseteq Range(queued)
          BY <1>3 DEF SplitTwice
        <4>2. Range(queued) \subseteq Online
          BY QueuedOnline
        <4> QED
          BY <3>1, <4>1, <4>2, OnlineIs
      <3>3. initHolder'[t] = initHolder[t] /\ (t \in inQueue' => t \in inQueue)
        BY <1>1, <2>2, <3>2 DEF Leaves
      <3> QED
        BY <1>2, <2>2, <3>1, <3>3 DEF Lives, Idle
    <2> QED
      BY <2>1, <2>2
  <1>7. Loading'
    BY <1>2 DEF Lives, Loading
  <1>8. Pass'
    <2>1. worldpc' = "next" /\ todo' = todo
      BY <1>1 DEF Leaves
    <2>2. cur \notin todo /\ todo \subseteq Accounts /\ \A a \in todo : sessions[a] # None
      BY <1>1 DEF Leaves, Lives, Pass, TypeOK
    <2> QED
      BY <1>2, <2>1, <2>2 DEF Pass
  <1> QED
    BY <1>4, <1>5, <1>6, <1>7, <1>8 DEF Lives

LEMMA LivesNext ==
    ASSUME Lives, Waiting, [Next]_vars
    PROVE  Lives'
  <1>1. CASE UNCHANGED vars
    <2>1. UNCHANGED <<life, addSessQueue, sessions, queued, disconnects, socket, forceExit, inQueue, loading,
                      initHolder, loginHolder, loaded, player, dbQueue, stored, progress, worldpc, todo,
                      cur, stopping>>
      BY <1>1 DEF vars, worldVars, sessionVars, loginVars, dbVars, threadVars
    <2> QED
      BY <2>1 DEF Lives, TypeOK, Registered, Idle, Loading, Pass
  <1>2. CASE \E s \in Sessions : AddSession(s)
    BY <1>2, AddLives
  <1>3. CASE (\E s \in Sessions : CloseSocket(s) \/ Kick(s)) \/ KickAll
    BY <1>3, SocketLives
  <1>4. CASE DbExecute
    BY <1>4, DbLives
  <1>5. CASE UpdateSessions \/ UpdateSessions_Added \/ (\E a \in Accounts : Update(a))
               \/ Update_Keep \/ UpdateSessions_End
    BY <1>5, LoopLives
  <1>6. CASE AddSession_Refuse
    BY <1>6, RefuseLives
  <1>7. CASE AddSession_
    BY <1>7, JoinLives
  <1>8. CASE \E legit \in BOOLEAN : HandlePlayerLoginOpcode(legit)
    BY <1>8, LoginLives
  <1>9. CASE HandleLogoutRequestOpcode \/ Update_Logout
    BY <1>9, LogoutLives
  <1>10. CASE ProcessQueryCallbacks
    BY <1>10, CallbackLives
  <1>11. CASE Update_Remove
    BY <1>11, LeaveLives
  <1>12. CASE \E s \in Sessions : Play(s) \/ AutoSave(s)
    BY <1>12, PlayLives
  <1>13. CASE Terminating
    BY <1>1, <1>13 DEF Terminating
  <1> QED
    BY <1>1, <1>2, <1>3, <1>4, <1>5, <1>6, <1>7, <1>8, <1>9, <1>10, <1>11, <1>12, <1>13
       DEF Next, WorldThread

-----------------------------------------------------------------------------
(* The login queue                                                         *)

\* As long as nobody is added or removed, nobody comes into the queue or out of
\* it, and who is let in or kicked stays so.
LEMMA QueueKept ==
    ASSUME Waiting, UNCHANGED <<queued, sessions>>, inQueue' \subseteq inQueue,
           \A s \in Range(queued) : life'[s] = life[s] /\ s \in inQueue' /\ initHolder'[s] = "none",
           \A s \in inQueue' : /\ initHolder[s] # "none" => initHolder'[s] # "none"
                               /\ s \in forceExit => s \in forceExit'
    PROVE  Waiting'
  BY DEF Waiting, QueueSound

LEMMA QueueInitially == Init => Waiting /\ NoRoomWhileQueued /\ LimitKept
  <1> SUFFICES ASSUME Init PROVE Waiting /\ NoRoomWhileQueued /\ LimitKept
    OBVIOUS
  <1>1. Range(<<>>) = {} /\ IsInjective(<<>>)
    BY DEF Range, IsInjective
  <1>2. Waiting
    BY <1>1 DEF Init, Waiting, QueueSound
  <1>3. Online = {}
    BY SessionsAssumption DEF Init, Online
  <1>4. {s \in Online \ Range(queued) : Account[s] \notin SkipQueue /\ ~HasRecentlyDisconnected(s)} = {}
    BY <1>3
  <1>5. LimitKept
    BY <1>4, FS_EmptySet, SessionsAssumption DEF LimitKept
  <1> QED
    BY <1>2, <1>5 DEF NoRoomWhileQueued, Init

LEMMA QueueJoin ==
    ASSUME Lives, Waiting, AddSession_
    PROVE  Waiting'
  <1>0. PICK s \in Sessions, old \in Sessions \cup {None}, waits \in BOOLEAN : \E r : Joins(s, old, r, waits)
    BY AddJoins
  <1>1. PICK r : Joins(s, old, r, waits)
    BY <1>0
  <1>2. /\ life[s] = "adding" /\ s # old /\ Account[s] \in Accounts
        /\ old # None => life[old] = "live" /\ Account[old] = Account[s]
        /\ \A t \in Sessions :
              life'[t] = IF t = s THEN "live" ELSE IF t = old THEN "gone" ELSE life[t]
        /\ \A a \in Accounts : sessions'[a] = IF a = Account[s] THEN s ELSE sessions[a]
    BY <1>1, JoinLife
  <1>3. Split(r, old)
    BY <1>1, JoinQueue, Zenon
  <1>4. /\ \A t \in Range(queued) : /\ t \in Sessions /\ life[t] = "live" /\ t \in inQueue
                                    /\ sessions[Account[t]] = t /\ initHolder[t] = "none" /\ t # s
        /\ initHolder[s] = "none" /\ s \notin inQueue
    BY <1>2, QueuedOnline DEF Waiting, QueueSound, Lives, Idle
  <1>5. /\ queued' = IF waits THEN r.queued \o <<s>> ELSE r.queued
        /\ inQueue' = IF waits THEN (inQueue \ ({old} \ {None})) \cup {s} ELSE inQueue \ ({old} \ {None})
        /\ forceExit' = forceExit \ ({old} \ {None})
        /\ \A t \in Sessions : initHolder'[t] =
              IF t \in {old} \ {None} THEN "none"
              ELSE IF t \in (IF waits THEN Range(r.admitted) ELSE Range(r.admitted) \cup {s}) THEN "asked"
              ELSE initHolder[t]
    BY <1>1 DEF Joins, Deleted
  <1>6. \A t \in Range(r.queued) :
              /\ t \in Sessions /\ t # s /\ t # old /\ t \notin Range(r.admitted)
              /\ life'[t] = "live" /\ t \in inQueue' /\ sessions'[Account[t]] = t /\ initHolder'[t] = "none"
    <2> SUFFICES ASSUME NEW t \in Range(r.queued)
                 PROVE  /\ t \in Sessions /\ t # s /\ t # old /\ t \notin Range(r.admitted)
                        /\ life'[t] = "live" /\ t \in inQueue' /\ sessions'[Account[t]] = t
                        /\ initHolder'[t] = "none"
      OBVIOUS
    <2>1. t \in Range(queued) /\ t # old /\ t \notin Range(r.admitted)
      BY <1>3 DEF Split
    <2>2. Account[t] \in Accounts
      BY <1>4, <2>1, SessionsAssumption
    <2>3. Account[t] # Account[s]
      BY <1>1, <1>4, <2>1 DEF Joins
    <2> QED
      BY <1>2, <1>4, <1>5, <2>1, <2>2, <2>3
  <1>7. IsInjective(queued') /\ \A t : t \in Range(queued') <=> t \in Range(r.queued) \/ (waits /\ t = s)
    <2>1. CASE waits
      <3>1. PICK q \in Seq(Sessions) : q = r.queued /\ IsInjective(q)
        BY <1>3 DEF Split
      <3>2. s \notin Range(q)
        BY <1>6, <3>1
      <3>3. IsInjective(q \o <<s>>) /\ Range(q \o <<s>>) = Range(q) \cup {s}
        BY <3>1, <3>2, Joining
      <3> QED
        BY <1>5, <2>1, <3>1, <3>3
    <2>2. CASE ~waits
      BY <1>3, <1>5, <2>2 DEF Split
    <2> QED
      BY <2>1, <2>2
  <1>8. waits => life'[s] = "live" /\ s \in inQueue' /\ sessions'[Account[s]] = s /\ initHolder'[s] = "none"
    <2>1. s \notin Range(r.admitted)
      BY <1>3, <1>4 DEF Split
    <2> QED
      BY <1>2, <1>4, <1>5, <2>1
  <1>9. \A t \in inQueue' : t \in Range(queued') \/ initHolder'[t] # "none" \/ t \in forceExit'
    <2> SUFFICES ASSUME NEW t \in inQueue', t \notin Range(queued')
                 PROVE  initHolder'[t] # "none" \/ t \in forceExit'
      OBVIOUS
    <2>1. t \in inQueue /\ t \notin {old} \ {None} /\ t \in Sessions /\ t # old
      <3>1. inQueue \subseteq Sessions
        BY DEF Lives, TypeOK
      <3>2. t # s
        BY <1>4, <1>5, <1>7
      <3>3. t \in inQueue /\ t \notin {old} \ {None}
        BY <1>5, <3>2
      <3> QED
        BY <3>1, <3>3, SessionsAssumption
    <2>2. CASE t \in Range(queued)
      <3>1. t \in Range(r.admitted)
        BY <1>3, <1>7, <2>1, <2>2 DEF Split
      <3> QED
        BY <1>5, <2>1, <3>1
    <2>3. CASE t \notin Range(queued)
      <3>1. initHolder[t] # "none" \/ t \in forceExit
        BY <2>1, <2>3 DEF Waiting, QueueSound
      <3> QED
        BY <1>5, <2>1, <3>1
    <2> QED
      BY <2>2, <2>3
  <1> QED
    BY <1>6, <1>7, <1>8, <1>9 DEF Waiting, QueueSound

LEMMA QueueLeave ==
    ASSUME Lives, Waiting, Update_Remove
    PROVE  Waiting'
  <1>0. PICK s \in Sessions : \E r1, r2 : Leaves(s, r1, r2)
    BY RemoveLeaves
  <1>1. PICK r1, r2 : Leaves(s, r1, r2)
    BY <1>0
  <1>2. /\ life[s] = "live" /\ cur \in Accounts /\ Account[s] = cur
        /\ \A t \in Sessions : life'[t] = IF t = s THEN "gone" ELSE life[t]
        /\ \A a \in Accounts : sessions'[a] = IF a = cur THEN None ELSE sessions[a]
    BY <1>1, LeaveLife
  <1>3. SplitTwice(s, r1, r2)
    BY <1>1, LeaveQueue, Zenon
  <1>4. \A t \in Range(queued) : /\ t \in Sessions /\ life[t] = "live" /\ t \in inQueue
                                 /\ sessions[Account[t]] = t /\ initHolder[t] = "none"
    BY QueuedOnline DEF Waiting, QueueSound
  <1>5. /\ queued' = r2.queued /\ inQueue' = inQueue \ {s} /\ forceExit' = forceExit \ {s}
        /\ \A t \in Sessions : initHolder'[t] =
              IF t = s THEN "none"
              ELSE IF t \in Range(r1.admitted) \cup Range(r2.admitted) THEN "asked" ELSE initHolder[t]
    BY <1>1 DEF Leaves, Deleted
  <1>6. \A t \in Range(queued') :
              life'[t] = "live" /\ t \in inQueue' /\ sessions'[Account[t]] = t /\ initHolder'[t] = "none"
    <2> SUFFICES ASSUME NEW t \in Range(r2.queued)
                 PROVE  /\ life'[t] = "live" /\ t \in inQueue' /\ sessions'[Account[t]] = t
                        /\ initHolder'[t] = "none"
      BY <1>5
    <2>1. t \in Range(queued) /\ t # s /\ t \notin Range(r1.admitted) \cup Range(r2.admitted)
      BY <1>3 DEF SplitTwice
    <2>2. Account[t] \in Accounts
      BY <1>4, <2>1, SessionsAssumption
    <2>3. Account[t] # cur
      BY <1>1, <1>4, <2>1 DEF Leaves
    <2> QED
      BY <1>2, <1>4, <1>5, <2>1, <2>2, <2>3
  <1>7. \A t \in inQueue' : t \in Range(queued') \/ initHolder'[t] # "none" \/ t \in forceExit'
    <2> SUFFICES ASSUME NEW t \in inQueue', t \notin Range(r2.queued)
                 PROVE  initHolder'[t] # "none" \/ t \in forceExit'
      BY <1>5
    <2>1. t \in inQueue /\ t # s /\ t \in Sessions
      BY <1>5 DEF Lives, TypeOK
    <2>2. CASE t \in Range(queued)
      <3>1. t \in Range(r1.admitted) \cup Range(r2.admitted)
        BY <1>3, <2>1, <2>2 DEF SplitTwice
      <3> QED
        BY <1>5, <2>1, <3>1
    <2>3. CASE t \notin Range(queued)
      <3>1. initHolder[t] # "none" \/ t \in forceExit
        BY <2>1, <2>3 DEF Waiting, QueueSound
      <3> QED
        BY <1>5, <2>1, <3>1
    <2> QED
      BY <2>2, <2>3
  <1>8. IsInjective(queued')
    BY <1>3, <1>5 DEF SplitTwice
  <1> QED
    BY <1>6, <1>7, <1>8 DEF Waiting, QueueSound

LEMMA QueueNext ==
    ASSUME Lives, Waiting, [Next]_vars
    PROVE  Waiting'
  <1>1. \A t \in Range(queued) : /\ t \in Sessions /\ life[t] = "live" /\ t \in inQueue
                                 /\ sessions[Account[t]] = t /\ initHolder[t] = "none"
    BY QueuedOnline DEF Waiting, QueueSound
  <1>2. inQueue \subseteq Sessions
    BY DEF Lives, TypeOK
  <1>3. ASSUME UNCHANGED <<queued, sessions, inQueue, life, initHolder>>, forceExit \subseteq forceExit'
        PROVE  Waiting'
    BY <1>1, <1>3, QueueKept
  <1>4. CASE UNCHANGED vars
    BY <1>3, <1>4 DEF vars, worldVars, sessionVars, loginVars
  <1>5. ASSUME NEW s \in Sessions, AddSession(s) PROVE Waiting'
    <2>1. /\ UNCHANGED <<queued, sessions, inQueue, forceExit, initHolder>> /\ life[s] = "new"
          /\ life' = [life EXCEPT ![s] = "adding"]
      BY <1>5 DEF AddSession, loginVars
    <2>2. \A t \in Range(queued) : life'[t] = life[t]
      BY <1>1, <2>1 DEF Lives, TypeOK
    <2> QED
      BY <1>1, <2>1, <2>2, QueueKept
  <1>6. CASE \E s \in Sessions : CloseSocket(s)
    BY <1>3, <1>6 DEF CloseSocket, worldVars, loginVars
  <1>7. CASE DbExecute
    <2>1. UNCHANGED <<queued, sessions, inQueue, forceExit, life>>
      BY <1>7 DEF DbExecute, worldVars, sessionVars
    <2>2. \A t \in Sessions : /\ initHolder[t] = "none" => initHolder'[t] = "none"
                              /\ initHolder[t] # "none" => initHolder'[t] # "none"
      <3>1. \/ initHolder' = initHolder
            \/ initHolder' = [initHolder EXCEPT ![Head(dbQueue).of] = IF @ = "asked" THEN "ready" ELSE @]
        BY <1>7 DEF DbExecute
      <3> QED
        BY <3>1 DEF Lives, TypeOK
    <2> QED
      BY <1>1, <1>2, <2>1, <2>2, QueueKept
  <1>8. CASE UpdateSessions \/ UpdateSessions_Added \/ (\E a \in Accounts : Update(a))
               \/ Update_Keep \/ UpdateSessions_End
    BY <1>3, <1>8 DEF UpdateSessions, UpdateSessions_Added, Update, Update_Keep, UpdateSessions_End,
       worldVars, sessionVars, loginVars
  <1>9. CASE AddSession_Refuse
    <2>1. PICK s \in Sessions : s = Head(addSessQueue)
      BY <1>9, HeadSession DEF AddSession_Refuse
    <2>2. life[s] = "adding" /\ s \notin inQueue
      BY <1>9, <2>1, HeadSession DEF AddSession_Refuse, Lives, Idle
    <2>3. UNCHANGED <<queued, sessions, inQueue, initHolder>>
      BY <1>9 DEF AddSession_Refuse
    <2>4. Delete({s}, {})
      BY <1>9, <2>1 DEF AddSession_Refuse, Delete
    <2>5. forceExit' = forceExit \ {s} /\ \A t \in Sessions : t # s => life'[t] = life[t]
      BY <2>4 DEF Delete, Put
    <2>6. \A t \in Range(queued) : life'[t] = life[t]
      BY <1>1, <2>2, <2>5
    <2> QED
      BY <1>1, <2>2, <2>3, <2>5, <2>6, QueueKept
  <1>10. CASE AddSession_
    BY <1>10, QueueJoin
  <1>11. CASE \E legit \in BOOLEAN : HandlePlayerLoginOpcode(legit)
    <2>1. UNCHANGED <<queued, sessions, inQueue, life, initHolder>>
      BY <1>11 DEF HandlePlayerLoginOpcode, worldVars, loginVars
    <2>2. forceExit \subseteq forceExit'
      BY <1>11 DEF HandlePlayerLoginOpcode, KickPlayer
    <2> QED
      BY <1>3, <2>1, <2>2
  <1>12. CASE HandleLogoutRequestOpcode \/ Update_Logout
    BY <1>3, <1>12 DEF HandleLogoutRequestOpcode, Update_Logout, worldVars, sessionVars
  <1>13. CASE ProcessQueryCallbacks
    <2>1. PICK s \in Sessions : s = sessions[cur]
      BY <1>13, Current DEF ProcessQueryCallbacks
    <2>2. /\ UNCHANGED <<queued, sessions, life>>
          /\ initHolder' = [initHolder EXCEPT ![s] = IF @ = "ready" THEN "none" ELSE @]
          /\ inQueue' = IF initHolder[s] = "ready" THEN inQueue \ {s} ELSE inQueue
          /\ forceExit \subseteq forceExit'
      BY <1>13, <2>1 DEF ProcessQueryCallbacks, HandlePlayerLogin, KickPlayer, worldVars
    <2>3. initHolder \in [Sessions -> Holder]
      BY DEF Lives, TypeOK
    <2>4. \A t \in Range(queued) : initHolder'[t] = "none" /\ t \in inQueue'
      BY <1>1, <2>2, <2>3
    <2>5. \A t \in inQueue' : initHolder[t] # "none" => initHolder'[t] # "none"
      BY <1>2, <2>2, <2>3
    <2>6. inQueue' \subseteq inQueue
      BY <2>2
    <2> QED
      BY <2>2, <2>4, <2>5, <2>6, QueueKept
  <1>14. CASE Update_Remove
    BY <1>14, QueueLeave
  <1>15. CASE \E s \in Sessions : Play(s) \/ AutoSave(s)
    BY <1>3, <1>15 DEF Play, AutoSave, worldVars, sessionVars, loginVars
  <1>16. CASE \E s \in Sessions : Kick(s)
    <2>1. UNCHANGED <<queued, sessions, inQueue, life, initHolder>>
      BY <1>16 DEF Kick, worldVars, loginVars
    <2>2. forceExit \subseteq forceExit'
      BY <1>16 DEF Kick, KickPlayer
    <2> QED
      BY <1>3, <2>1, <2>2
  <1>17. CASE KickAll
    <2>1. queued' = <<>> /\ inQueue' = inQueue /\ forceExit' = forceExit \cup Online
      BY <1>17 DEF KickAll
    <2>2. \A t \in inQueue : t \in Online
      BY <1>2, OnlineIs DEF Lives, Idle
    <2>3. Range(queued') = {} /\ IsInjective(queued')
      BY <2>1 DEF Range, IsInjective
    <2> QED
      BY <2>1, <2>2, <2>3 DEF Waiting, QueueSound
  <1>18. CASE Terminating
    BY <1>4, <1>18 DEF Terminating
  <1> QED
    BY <1>4, <1>5, <1>6, <1>7, <1>8, <1>9, <1>10, <1>11, <1>12, <1>13, <1>14, <1>15, <1>16, <1>17, <1>18
       DEF Next, WorldThread

-----------------------------------------------------------------------------
(* The player limit                                                        *)

\* The sessions that are not in the queue, and those of them that count.
Active == Online \ Range(queued)
Regular == {s \in Active : Account[s] \notin SkipQueue /\ ~HasRecentlyDisconnected(s)}

Counted ==
    /\ IsFiniteSet(Online) /\ IsFiniteSet(Active) /\ Cardinality(Active) \in Nat
    /\ Cardinality(Online) - Len(queued) = Cardinality(Active)
    /\ queued = <<>> <=> Range(queued) = {}

LEMMA Counting == Lives /\ Waiting => Counted
  <1> SUFFICES ASSUME Lives, Waiting PROVE Counted
    OBVIOUS
  <1>1. IsFiniteSet(Online) /\ Cardinality(Online) \in Nat
    BY OnlineIs, SessionsAssumption, FS_Subset, FS_CardinalityType
  <1>2. queued \in Seq(Sessions) /\ IsInjective(queued) /\ Range(queued) \subseteq Online
    BY QueuedOnline
  <1>3. IsFiniteSet(Range(queued)) /\ Cardinality(Range(queued)) = Len(queued)
    BY <1>2, SizeOf
  <1>4. Online \cap Range(queued) = Range(queued)
    BY <1>2
  <1>5. IsFiniteSet(Active) /\ Cardinality(Active) = Cardinality(Online) - Cardinality(Online \cap Range(queued))
    BY <1>1, FS_Difference DEF Active
  <1>6. Cardinality(Active) \in Nat
    BY <1>5, FS_CardinalityType
  <1>7. queued = <<>> <=> Range(queued) = {}
    BY <1>2, <1>3, FS_EmptySet
  <1> QED
    BY <1>1, <1>3, <1>4, <1>5, <1>6, <1>7 DEF Counted

\* One call of RemoveQueuedPlayer, when nobody waited beside room before it: still
\* nobody does without sess, and whoever is let in is within the limit.
LEMMA RoomAfter ==
    ASSUME NEW O \in SUBSET Sessions, NEW q \in Seq(Sessions), Range(q) \subseteq O, NEW sess \in O,
           NEW r, Removal(r, q, sess, (O \ Range(q)) \ {sess}),
           Range(q) # {} => Cardinality(O \ Range(q)) >= PlayerLimit,
           NEW A, A = (O \ {sess}) \ Range(r.queued)
    PROVE  /\ IsFiniteSet(A) /\ Cardinality(A) \in Nat
           /\ Range(r.queued) # {} \/ sess \in Range(q) => Cardinality(A) >= PlayerLimit
           /\ A \subseteq O \ Range(q) \/ (PlayerLimit > 0 => Cardinality(A) <= PlayerLimit)
  <1> DEFINE B == (O \ Range(q)) \ {sess}
             C == O \ Range(q)
  <1>1. PlayerLimit \in Nat
    BY SessionsAssumption
  <1>2. IsFiniteSet(O) /\ IsFiniteSet(C) /\ Cardinality(C) \in Nat
    BY SessionsAssumption, FS_Subset, FS_CardinalityType
  <1>3. /\ IsFiniteSet(B) /\ Cardinality(B) \in Nat
        /\ Cardinality(B) = IF sess \in C THEN Cardinality(C) - 1 ELSE Cardinality(C)
    BY <1>2, FS_RemoveElement, FS_CardinalityType
  <1>4. sess \in C <=> sess \notin Range(q)
    OBVIOUS
  <1> HIDE DEF C
  <1>5. Range(q) # {} => Cardinality(C) >= PlayerLimit
    BY DEF C
  <1>6. CASE r.admitted = <<>> /\ Range(r.queued) = Range(q) \ {sess}
    <2>1. Range(q) \ {sess} = {} \/ Cardinality(B) >= PlayerLimit
      <3>1. \A h : r.admitted # <<h>>
        BY <1>6
      <3> QED
        BY <1>6, <3>1, Zenon DEF Removal
    <2>2. A = B
      BY <1>6
    <2>3. A \subseteq O \ Range(q)
      BY <2>2
    <2> HIDE DEF B
    <2> QED
      BY <1>3, <1>4, <1>5, <1>6, <2>1, <2>2, <2>3
  <1>7. ASSUME NEW h \in Range(q) \ {sess}, Range(r.queued) = (Range(q) \ {sess}) \ {h},
               PlayerLimit = 0 \/ Cardinality(B) < PlayerLimit
        PROVE  /\ IsFiniteSet(A) /\ Cardinality(A) \in Nat /\ Cardinality(A) >= PlayerLimit
               /\ PlayerLimit > 0 => Cardinality(A) <= PlayerLimit
    <2>1. A = B \cup {h} /\ h \notin B
      BY <1>7
    <2> HIDE DEF B
    <2>2. IsFiniteSet(A) /\ Cardinality(A) = Cardinality(B) + 1
      <3>1. IsFiniteSet(B \cup {h}) /\ Cardinality(B \cup {h}) = IF h \in B THEN Cardinality(B) ELSE Cardinality(B) + 1
        BY <1>3, FS_AddElement
      <3> QED
        BY <2>1, <3>1
    <2>3. Cardinality(C) >= PlayerLimit
      BY <1>5, <1>7
    <2> QED
      BY <1>1, <1>2, <1>3, <1>7, <2>2, <2>3
  <1> QED
    BY <1>6, <1>7, Zenon DEF Removal

\* NoRoomWhileQueued and LimitKept in these terms.
RoomTerms ==
    /\ NoRoomWhileQueued <=> (Range(queued) # {} => Cardinality(Active) >= PlayerLimit)
    /\ LimitKept <=> (PlayerLimit > 0 /\ ~stopping => Cardinality(Regular) <= PlayerLimit)

LEMMA RoomIs == Counted => RoomTerms
  BY DEF RoomTerms, Counted, NoRoomWhileQueued, LimitKept, Active, Regular

\* No more than what they are taken from.
LEMMA Fewer ==
    ASSUME NEW S, NEW T, IsFiniteSet(S), T \subseteq S
    PROVE  IsFiniteSet(T) /\ Cardinality(T) \in Nat /\ Cardinality(S) \in Nat /\ Cardinality(T) <= Cardinality(S)
  BY FS_Subset, FS_CardinalityType

LEMMA RoomLeave ==
    ASSUME Lives, Waiting, Lives', Waiting', NoRoomWhileQueued, LimitKept, Update_Remove
    PROVE  NoRoomWhileQueued' /\ LimitKept'
  <1>0. PICK s \in Sessions : \E r1, r2 : Leaves(s, r1, r2)
    BY RemoveLeaves
  <1>1. PICK r1, r2 : Leaves(s, r1, r2)
    BY <1>0
  <1>2. SplitTwice(s, r1, r2)
    BY <1>1, LeaveQueue, Zenon
  <1>3. Counted /\ Counted'
    <2>1. Lives' /\ Waiting' => Counted'
      BY Counting, PTL
    <2> QED
      BY <2>1, Counting
  <1>4. /\ life[s] = "live" /\ \A t \in Sessions : life'[t] = IF t = s THEN "gone" ELSE life[t]
    BY <1>1, LeaveLife
  <1>5. Online' = Online \ {s} /\ s \in Online /\ Online \in SUBSET Sessions
    <2>1. Online' \in SUBSET Sessions /\ \A t \in Sessions : t \in Online' <=> life'[t] = "live"
      <3>1. Lives' => OnlineLive'
        BY OnlineNow, PTL
      <3> QED
        BY <3>1 DEF OnlineLive
    <2> QED
      BY <1>4, <2>1, OnlineIs
  <1>6. PICK O \in SUBSET Sessions : O = Online
    BY <1>5
  <1>7. PICK q \in Seq(Sessions) : q = queued
    BY QueuedOnline
  <1>8. PICK q1 \in Seq(Sessions) : q1 = r1.queued
    BY <1>2 DEF SplitTwice
  <1>9. PICK A1 : A1 = (O \ {s}) \ Range(r1.queued)
    OBVIOUS
  <1>10. PICK A2 : A2 = (O \ {s}) \ Range(r2.queued)
    OBVIOUS
  <1>11. Removal(r1, q, s, (O \ Range(q)) \ {s}) /\ Removal(r2, q1, s, (O \ Range(q1)) \ {s})
    BY <1>1, <1>6, <1>7, <1>8 DEF Leaves
  <1>12. Range(q) # {} => Cardinality(O \ Range(q)) >= PlayerLimit
    BY <1>3, <1>6, <1>7, RoomIs DEF Active, RoomTerms
  <1>13. /\ IsFiniteSet(A1) /\ Cardinality(A1) \in Nat
         /\ Range(r1.queued) # {} => Cardinality(A1) >= PlayerLimit
         /\ A1 \subseteq O \ Range(q) \/ (PlayerLimit > 0 => Cardinality(A1) <= PlayerLimit)
    <2>1. Range(q) \subseteq O /\ s \in O
      BY <1>5, <1>6, <1>7, QueuedOnline
    <2> QED
      BY <1>9, <1>11, <1>12, <2>1, RoomAfter
  <1>14. Range(q1) \subseteq O /\ s \in O /\ s \notin Range(q1)
    <2>1. Range(q1) \subseteq Range(queued) \ {s}
      BY <1>2, <1>8 DEF SplitTwice
    <2> QED
      BY <1>5, <1>6, <2>1, QueuedOnline
  <1>15. /\ IsFiniteSet(A2) /\ Cardinality(A2) \in Nat
         /\ Range(r2.queued) # {} => Cardinality(A2) >= PlayerLimit
         /\ A2 \subseteq O \ Range(q1) \/ (PlayerLimit > 0 => Cardinality(A2) <= PlayerLimit)
    <2>1. Range(q1) # {} => Cardinality(O \ Range(q1)) >= PlayerLimit
      <3>1. A1 \subseteq O \ Range(q1) /\ IsFiniteSet(O \ Range(q1))
        BY <1>8, <1>9, SessionsAssumption, FS_Subset
      <3>2. /\ Cardinality(O \ Range(q1)) \in Nat
            /\ Cardinality(A1) <= Cardinality(O \ Range(q1))
        BY <3>1, Fewer
      <3> QED
        BY <1>8, <1>13, <3>2, SessionsAssumption
    <2> QED
      BY <1>10, <1>11, <1>14, <2>1, RoomAfter
  <1>16. Active' = A2 /\ Range(queued') = Range(r2.queued)
    <2>1. queued' = r2.queued
      BY <1>1 DEF Leaves
    <2> QED
      BY <1>5, <1>6, <1>10, <2>1 DEF Active
  <1>17. PlayerLimit > 0 /\ ~stopping => Cardinality(Regular') <= PlayerLimit
    <2> SUFFICES ASSUME PlayerLimit > 0, ~stopping PROVE Cardinality(Regular') <= PlayerLimit
      OBVIOUS
    <2>1. Regular' \subseteq A2
      BY <1>16 DEF Regular
    <2>2. Cardinality(Regular') <= Cardinality(A2) /\ Cardinality(Regular') \in Nat
      BY <1>15, <2>1, Fewer
    <2>3. CASE Cardinality(A2) <= PlayerLimit
      BY <1>15, <2>2, <2>3, SessionsAssumption
    <2>4. CASE A2 \subseteq O \ Range(q1)
      <3>1. A2 \subseteq A1
        BY <1>8, <1>9, <1>10, <2>4
      <3>2. CASE Cardinality(A1) <= PlayerLimit
        <4>1. Cardinality(A2) <= Cardinality(A1)
          BY <1>13, <3>1, Fewer
        <4> QED
          BY <1>13, <1>15, <2>2, <3>2, <4>1, SessionsAssumption
      <3>3. CASE A1 \subseteq O \ Range(q)
        <4>1. Regular' \subseteq Regular
          <5>1. A2 \subseteq Active
            BY <1>6, <1>7, <3>1, <3>3 DEF Active
          <5>2. disconnects \subseteq disconnects'
            BY <1>1 DEF Leaves
          <5> QED
            BY <1>16, <5>1, <5>2 DEF Regular, HasRecentlyDisconnected
        <4>2. IsFiniteSet(Regular)
          BY <1>3, Fewer DEF Counted, Regular
        <4>3. Cardinality(Regular') <= Cardinality(Regular) /\ Cardinality(Regular) \in Nat
          BY <4>1, <4>2, Fewer
        <4>4. Cardinality(Regular) <= PlayerLimit
          BY <1>3, RoomIs DEF RoomTerms
        <4> QED
          BY <2>2, <4>3, <4>4, SessionsAssumption
      <3> QED
        BY <1>13, <3>2, <3>3
    <2> QED
      BY <1>15, <2>3, <2>4
  <1>18. /\ NoRoomWhileQueued' <=> (Range(queued') # {} => Cardinality(Active') >= PlayerLimit)
         /\ LimitKept' <=> (PlayerLimit > 0 /\ ~stopping' => Cardinality(Regular') <= PlayerLimit)
    <2>1. Counted' => RoomTerms'
      BY RoomIs, PTL
    <2> QED
      BY <1>3, <2>1 DEF RoomTerms
  <1>19. stopping' = stopping
    BY <1>1 DEF Leaves
  <1> QED
    BY <1>15, <1>16, <1>17, <1>18, <1>19

\* The sessions beside s after AddSession_ has dealt with old.
LEMMA RoomBeside ==
    ASSUME Lives, Waiting, NoRoomWhileQueued, NEW s \in Sessions, NEW old \in Sessions \cup {None}, NEW r,
           NEW waits \in BOOLEAN, Joins(s, old, r, waits),
           NEW A, A = (Online \ {old}) \ Range(r.queued)
    PROVE  /\ IsFiniteSet(A) /\ Cardinality(A) \in Nat
           /\ Range(r.queued) # {} \/ r.found => Cardinality(A) >= PlayerLimit
           /\ A \subseteq Active \/ (PlayerLimit > 0 => Cardinality(A) <= PlayerLimit)
  <1>1. Counted /\ RoomTerms
    BY Counting, RoomIs
  <1>2. Range(queued) # {} => Cardinality(Active) >= PlayerLimit
    BY <1>1 DEF RoomTerms
  <1>3. CASE old = None
    <2>1. r.found = FALSE /\ r.queued = queued
      BY <1>3 DEF Joins
    <2>2. A = Active
      BY <1>3, <2>1, OnlineIs, SessionsAssumption DEF Active
    <2> QED
      BY <1>1, <1>2, <2>1, <2>2 DEF Counted
  <1>4. CASE old # None
    <2>1. PICK O \in SUBSET Sessions : O = Online
      BY OnlineIs
    <2>2. PICK q \in Seq(Sessions) : q = queued
      BY QueuedOnline
    <2>3. Removal(r, q, old, (O \ Range(q)) \ {old}) /\ A = (O \ {old}) \ Range(r.queued)
      BY <1>4, <2>1, <2>2 DEF Joins
    <2>4. Range(q) \subseteq O /\ old \in O
      <3>1. life[old] = "live"
        BY <1>4, JoinLife
      <3> QED
        BY <1>4, <2>1, <2>2, <3>1, OnlineIs, QueuedOnline
    <2>5. Range(q) # {} => Cardinality(O \ Range(q)) >= PlayerLimit
      BY <1>2, <2>1, <2>2 DEF Active
    <2>6. /\ IsFiniteSet(A) /\ Cardinality(A) \in Nat
          /\ Range(r.queued) # {} \/ old \in Range(q) => Cardinality(A) >= PlayerLimit
          /\ A \subseteq O \ Range(q) \/ (PlayerLimit > 0 => Cardinality(A) <= PlayerLimit)
      BY <2>3, <2>4, <2>5, RoomAfter
    <2>7. r.found <=> old \in Range(q)
      BY <2>3 DEF Removal
    <2> QED
      BY <2>1, <2>2, <2>6, <2>7 DEF Active
  <1> QED
    BY <1>3, <1>4

LEMMA RoomJoin ==
    ASSUME Lives, Waiting, Lives', Waiting', NoRoomWhileQueued, LimitKept, AddSession_
    PROVE  NoRoomWhileQueued' /\ LimitKept'
  <1>0. PICK s \in Sessions, old \in Sessions \cup {None}, waits \in BOOLEAN : \E r : Joins(s, old, r, waits)
    BY AddJoins
  <1>1. PICK r : Joins(s, old, r, waits)
    BY <1>0
  <1>2. Split(r, old)
    BY <1>1, JoinQueue, Zenon
  <1>3. Counted /\ Counted' /\ RoomTerms /\ RoomTerms'
    <2>1. Lives' /\ Waiting' => Counted' /\ RoomTerms'
      BY Counting, RoomIs, PTL
    <2> QED
      BY <2>1, Counting, RoomIs
  <1>4. /\ life[s] = "adding" /\ s # old
        /\ \A t \in Sessions : life'[t] = IF t = s THEN "live" ELSE IF t = old THEN "gone" ELSE life[t]
    BY <1>1, JoinLife
  <1>5. Online' = (Online \ {old}) \cup {s} /\ s \notin Online /\ Online \in SUBSET Sessions
    <2>1. Lives' => OnlineLive'
      BY OnlineNow, PTL
    <2>2. Online' \in SUBSET Sessions /\ \A t \in Sessions : t \in Online' <=> life'[t] = "live"
      BY <2>1 DEF OnlineLive
    <2> QED
      BY <1>4, <2>2, OnlineIs
  <1>6. PICK A : A = (Online \ {old}) \ Range(r.queued)
    OBVIOUS
  <1>7. /\ IsFiniteSet(A) /\ Cardinality(A) \in Nat
        /\ Range(r.queued) # {} \/ r.found => Cardinality(A) >= PlayerLimit
        /\ A \subseteq Active \/ (PlayerLimit > 0 => Cardinality(A) <= PlayerLimit)
    BY <1>1, <1>6, RoomBeside
  <1>8. /\ Range(queued') = IF waits THEN Range(r.queued) \cup {s} ELSE Range(r.queued)
        /\ s \notin Range(r.queued)
    <2>1. PICK q \in Seq(Sessions) : q = r.queued /\ IsInjective(q)
      BY <1>2 DEF Split
    <2>2. Range(queued) \subseteq Online
      BY QueuedOnline
    <2>3. s \notin Range(q)
      BY <1>2, <1>5, <2>1, <2>2 DEF Split
    <2>4. Range(q \o <<s>>) = Range(q) \cup {s}
      BY <2>1, <2>3, Joining
    <2>5. queued' = IF waits THEN q \o <<s>> ELSE q
      BY <1>1, <2>1 DEF Joins
    <2> QED
      BY <2>1, <2>3, <2>4, <2>5
  <1>9. Active' = IF waits THEN A ELSE A \cup {s}
    BY <1>5, <1>6, <1>8 DEF Active
  <1>10. PICK base : base = Online \ {old}
    OBVIOUS
  <1>11. /\ IsFiniteSet(base) /\ Cardinality(base) \in Nat /\ Online' = base \cup {s} /\ s \notin base
         /\ IsFiniteSet(Online') /\ Cardinality(Online') = Cardinality(base) + 1
    <2>1. IsFiniteSet(base) /\ Cardinality(base) \in Nat
      BY <1>3, <1>10, Fewer DEF Counted
    <2>2. Online' = base \cup {s} /\ s \notin base
      BY <1>5, <1>10
    <2>3. /\ IsFiniteSet(base \cup {s})
          /\ Cardinality(base \cup {s}) = IF s \in base THEN Cardinality(base) ELSE Cardinality(base) + 1
      BY <2>1, FS_AddElement
    <2> QED
      BY <2>1, <2>2, <2>3
  <1>12. waits <=> /\ PlayerLimit > 0
                   /\ (IF r.found THEN Cardinality(base) + 1 ELSE Cardinality(base)) >= PlayerLimit
                   /\ Account[s] \notin SkipQueue /\ ~HasRecentlyDisconnected(s)
    <2>1. (Online \ ({old} \ {None})) \cup {s} = base \cup {s}
      BY <1>5, <1>10, SessionsAssumption
    <2>2. waits <=> LimitReached(s, r.found, Cardinality((Online \ ({old} \ {None})) \cup {s}))
      BY <1>1 DEF Joins
    <2>3. Cardinality(base \cup {s}) = Cardinality(base) + 1 /\ Cardinality(base) + 1 - 1 = Cardinality(base)
      BY <1>11
    <2>4. PICK n : n = Cardinality(base \cup {s})
      OBVIOUS
    <2>5. waits <=> LimitReached(s, r.found, n)
      BY <2>1, <2>2, <2>4, Zenon
    <2>6. n = Cardinality(base) + 1 /\ n - 1 = Cardinality(base)
      BY <1>11, <2>3, <2>4
    <2>7. waits <=> /\ PlayerLimit > 0 /\ (IF r.found THEN n ELSE n - 1) >= PlayerLimit
                    /\ Account[s] \notin SkipQueue /\ ~HasRecentlyDisconnected(s)
      BY <2>5, Zenon DEF LimitReached
    <2> QED
      BY <2>6, <2>7
  <1>13. PlayerLimit \in Nat
    BY SessionsAssumption
  <1>14. Range(queued') # {} => Cardinality(Active') >= PlayerLimit
    <2> SUFFICES ASSUME Range(queued') # {} PROVE Cardinality(Active') >= PlayerLimit
      OBVIOUS
    <2>1. CASE waits
      <3>1. CASE Range(r.queued) # {} \/ r.found
        BY <1>7, <1>9, <2>1, <3>1
      <3>2. CASE Range(r.queued) = {} /\ ~r.found
        <4>1. A = base
          BY <1>6, <1>10, <3>2
        <4> QED
          BY <1>9, <1>12, <2>1, <3>2, <4>1
      <3> QED
        BY <3>1, <3>2
    <2>2. CASE ~waits
      <3>1. Cardinality(A) >= PlayerLimit
        BY <1>7, <1>8, <2>2
      <3>2. A \subseteq Active' /\ IsFiniteSet(Active')
        BY <1>3, <1>9 DEF Counted
      <3>3. Cardinality(A) <= Cardinality(Active') /\ Cardinality(Active') \in Nat
        BY <3>2, Fewer
      <3> QED
        BY <1>7, <1>13, <3>1, <3>3
    <2> QED
      BY <2>1, <2>2
  <1>15. disconnects' = disconnects /\ stopping' = stopping
    BY <1>1 DEF Joins, threadVars
  <1>16. PlayerLimit > 0 /\ ~stopping => Cardinality(Regular') <= PlayerLimit
    <2> SUFFICES ASSUME PlayerLimit > 0, ~stopping PROVE Cardinality(Regular') <= PlayerLimit
      OBVIOUS
    <2>1. CASE s \in Regular'
      <3>1. ~waits
        BY <1>8, <2>1 DEF Regular, Active
      <3>2. Account[s] \notin SkipQueue /\ ~HasRecentlyDisconnected(s)
        BY <1>15, <2>1 DEF Regular, HasRecentlyDisconnected
      <3>3. Cardinality(base) + 1 <= PlayerLimit
        BY <1>11, <1>12, <1>13, <3>1, <3>2
      <3>4. Regular' \subseteq Online'
        BY DEF Regular, Active
      <3>5. Cardinality(Regular') \in Nat /\ Cardinality(Regular') <= Cardinality(Online')
        BY <1>11, <3>4, Fewer
      <3> QED
        BY <1>11, <1>13, <3>3, <3>5
    <2>2. CASE s \notin Regular'
      <3>1. Regular' \subseteq A
        BY <1>9, <2>2 DEF Regular
      <3>2. Cardinality(Regular') \in Nat /\ Cardinality(Regular') <= Cardinality(A)
        BY <1>7, <3>1, Fewer
      <3>3. CASE Cardinality(A) <= PlayerLimit
        BY <1>7, <1>13, <3>2, <3>3
      <3>4. CASE A \subseteq Active
        <4>1. Regular' \subseteq Regular
          BY <1>15, <3>1, <3>4 DEF Regular, HasRecentlyDisconnected
        <4>2. IsFiniteSet(Regular)
          BY <1>3, Fewer DEF Counted, Regular
        <4>3. Cardinality(Regular') <= Cardinality(Regular) /\ Cardinality(Regular) \in Nat
          BY <4>1, <4>2, Fewer
        <4>4. Cardinality(Regular) <= PlayerLimit
          BY <1>3 DEF RoomTerms
        <4> QED
          BY <1>13, <3>2, <4>3, <4>4
      <3> QED
        BY <1>7, <3>3, <3>4
    <2> QED
      BY <2>1, <2>2
  <1> QED
    BY <1>3, <1>14, <1>15, <1>16 DEF RoomTerms

LEMMA RoomNext ==
    ASSUME Lives, Waiting, Lives', Waiting', NoRoomWhileQueued, LimitKept, [Next]_vars
    PROVE  NoRoomWhileQueued' /\ LimitKept'
  <1>1. ASSUME UNCHANGED <<sessions, queued, disconnects, stopping>>
        PROVE  NoRoomWhileQueued' /\ LimitKept'
    BY <1>1 DEF NoRoomWhileQueued, LimitKept, Online, HasRecentlyDisconnected
  <1> USE DEF worldVars, threadVars
  <1>2. CASE UNCHANGED vars
    BY <1>1, <1>2 DEF vars
  <1>3. CASE \E s \in Sessions : AddSession(s) \/ CloseSocket(s)
    BY <1>1, <1>3 DEF AddSession, CloseSocket
  <1>4. CASE DbExecute
    BY <1>1, <1>4 DEF DbExecute
  <1>5. CASE UpdateSessions \/ UpdateSessions_Added \/ (\E a \in Accounts : Update(a))
               \/ Update_Keep \/ UpdateSessions_End
    BY <1>1, <1>5 DEF UpdateSessions, UpdateSessions_Added, Update, Update_Keep, UpdateSessions_End
  <1>6. CASE AddSession_Refuse
    BY <1>1, <1>6 DEF AddSession_Refuse
  <1>7. CASE AddSession_
    BY <1>7, RoomJoin
  <1>8. CASE \E legit \in BOOLEAN : HandlePlayerLoginOpcode(legit)
    BY <1>1, <1>8 DEF HandlePlayerLoginOpcode
  <1>9. CASE HandleLogoutRequestOpcode \/ Update_Logout
    BY <1>1, <1>9 DEF HandleLogoutRequestOpcode, Update_Logout
  <1>10. CASE ProcessQueryCallbacks
    BY <1>1, <1>10 DEF ProcessQueryCallbacks
  <1>11. CASE Update_Remove
    BY <1>11, RoomLeave
  <1>12. CASE \E s \in Sessions : Play(s) \/ AutoSave(s) \/ Kick(s)
    BY <1>1, <1>12 DEF Play, AutoSave, Kick
  <1>13. CASE KickAll
    BY <1>13 DEF KickAll, NoRoomWhileQueued, LimitKept
  <1>14. CASE Terminating
    BY <1>2, <1>14 DEF Terminating
  <1> QED
    BY <1>2, <1>3, <1>4, <1>5, <1>6, <1>7, <1>8, <1>9, <1>10, <1>11, <1>12, <1>13, <1>14
       DEF Next, WorldThread

-----------------------------------------------------------------------------
(* The characters and the queue of the database                            *)

\* ops are sent to the database.  One of them saves the character of s, if there
\* is one, and no other is a save.
Sends(s, ops) ==
    /\ ops \in Seq(Operation) /\ dbQueue' = dbQueue \o ops /\ stored' = stored
    /\ \A i \in 1..Len(ops) : ops[i].kind = "save" =>
          /\ s # None /\ player[s] # None /\ ops[i].of = Account[s] /\ ops[i].row = player[s]
          /\ \A j \in 1..Len(ops) : ops[j].kind = "save" => i = j
    /\ s # None /\ player[s] # None => \E i \in 1..Len(ops) : ops[i].kind = "save"

NoLogins(ops) == \A i \in 1..Len(ops) : ops[i].kind # "login"

\* The queue d after that, by what was in it and what is new.
Extends(q, ops, d) ==
    /\ Len(d) = Len(q) + Len(ops) /\ DOMAIN d = 1..(Len(q) + Len(ops)) /\ DOMAIN q = 1..Len(q)
    /\ Len(q) \in Nat /\ Len(ops) \in Nat
    /\ \A i \in 1..Len(q) : d[i] = q[i] /\ i \in 1..(Len(q) + Len(ops))
    /\ \A i \in 1..Len(ops) : d[Len(q) + i] = ops[i] /\ Len(q) + i \in 1..(Len(q) + Len(ops))
    /\ \A i \in 1..(Len(q) + Len(ops)) :
          i \in 1..Len(q) \/ \E k \in 1..Len(ops) : i = Len(q) + k

LEMMA Longer ==
    ASSUME NEW q \in Seq(Operation), NEW ops \in Seq(Operation), NEW d, d = q \o ops
    PROVE  Extends(q, ops, d)
  <1>1. /\ d \in Seq(Operation) /\ Len(d) = Len(q) + Len(ops) /\ DOMAIN d = 1..(Len(q) + Len(ops))
        /\ DOMAIN q = 1..Len(q)
        /\ Len(q) \in Nat /\ Len(ops) \in Nat
        /\ \A i \in 1..Len(q) : d[i] = q[i]
        /\ \A i \in 1..Len(ops) : d[Len(q) + i] = ops[i]
    OBVIOUS
  <1>2. \A i \in 1..(Len(q) + Len(ops)) : i \in 1..Len(q) \/ \E k \in 1..Len(ops) : i = Len(q) + k
    <2> TAKE i \in 1..(Len(q) + Len(ops))
    <2>1. CASE i > Len(q)
      <3>1. i - Len(q) \in 1..Len(ops) /\ i = Len(q) + (i - Len(q))
        BY <1>1, <2>1
      <3> QED
        BY <3>1
    <2>2. CASE i <= Len(q)
      BY <1>1, <2>2
    <2> QED
      BY <1>1, <2>1, <2>2
  <1>3. /\ \A i \in 1..Len(q) : i \in 1..(Len(q) + Len(ops))
        /\ \A i \in 1..Len(ops) : Len(q) + i \in 1..(Len(q) + Len(ops))
    BY <1>1
  <1> QED
    BY <1>1, <1>2, <1>3 DEF Extends

\* The character of s, if there is one, will be what the database has in the end,
\* and the other accounts are left alone.
LEMMA SendLatest ==
    ASSUME TypeOK, NEW s \in Sessions \cup {None}, NEW ops, Sends(s, ops), NEW a \in Accounts, NEW row
    PROVE  /\ s # None /\ player[s] # None /\ Account[s] = a /\ player[s] = row => LatestSaveIs(a, row)'
           /\ ~(s # None /\ player[s] # None /\ Account[s] = a) /\ LatestSaveIs(a, row) => LatestSaveIs(a, row)'
  <1> DEFINE n == Len(dbQueue)
             m == Len(ops)
             d == dbQueue'
             P == {i \in 1..n : dbQueue[i].kind = "save" /\ dbQueue[i].of = a}
             R == {i \in 1..(n + m) : d[i].kind = "save" /\ d[i].of = a}
  <1>1. /\ DOMAIN d = 1..(n + m) /\ DOMAIN dbQueue = 1..n /\ n \in Nat /\ m \in Nat
        /\ \A i \in 1..n : d[i] = dbQueue[i] /\ i \in 1..(n + m)
        /\ \A i \in 1..m : d[n + i] = ops[i] /\ n + i \in 1..(n + m)
        /\ \A i \in 1..(n + m) : i \in 1..n \/ \E k \in 1..m : i = n + k
    <2>0. PICK q \in Seq(Operation) : q = dbQueue
      BY DEF Lives, TypeOK
    <2>1. PICK e : q = dbQueue /\ e = d /\ ops \in Seq(Operation) /\ e = q \o ops
      BY <2>0 DEF TypeOK, Sends
    <2>2. Extends(q, ops, e)
      BY <2>1, Longer
    <2>3. n = Len(q) /\ m = Len(ops) /\ d = e /\ dbQueue = q
      BY <2>1
    <2> HIDE DEF n, m, d
    <2> QED
      BY <2>2, <2>3 DEF Extends
  <1>2. PendingSaves(a) = P /\ PendingSaves(a)' = R /\ stored' = stored
    BY <1>1 DEF PendingSaves, Sends
  <1> HIDE DEF n, m, d
  <1>3. CASE s # None /\ player[s] # None /\ Account[s] = a /\ player[s] = row
    <2>1. PICK k \in 1..m : /\ ops[k].kind = "save" /\ ops[k].of = a /\ ops[k].row = row
                            /\ \A j \in 1..m : ops[j].kind = "save" => k = j
      BY <1>3 DEF Sends, m
    <2>2. n + k \in R /\ d[n + k].row = row
      BY <1>1, <2>1
    <2>3. \A j \in R : j <= n + k
      <3> SUFFICES ASSUME NEW j \in R PROVE j <= n + k
        OBVIOUS
      <3>1. CASE j \in 1..n
        BY <1>1, <3>1
      <3>2. ASSUME NEW i \in 1..m, j = n + i PROVE j <= n + k
        <4>1. d[n + i].kind = "save" /\ d[n + i] = ops[i]
          BY <1>1, <3>2
        <4>2. k = i
          BY <2>1, <4>1
        <4> QED
          BY <1>1, <3>2, <4>2
      <3> QED
        BY <1>1, <3>1, <3>2
    <2>4. LatestSaveIs(a, row)'
      BY <1>2, <2>2, <2>3 DEF LatestSaveIs, d
    <2> QED
      BY <1>3, <2>4
  <1>4. CASE ~(s # None /\ player[s] # None /\ Account[s] = a) /\ LatestSaveIs(a, row)
    <2>1. \A i \in 1..m : ~(ops[i].kind = "save" /\ ops[i].of = a)
      BY <1>4 DEF Sends, m
    <2>2. R = P
      BY <1>1, <2>1
    <2>3. \A i \in P : d[i].row = dbQueue[i].row
      BY <1>1
    <2>4. LatestSaveIs(a, row)'
      BY <1>2, <1>4, <2>2, <2>3 DEF LatestSaveIs, d
    <2> QED
      BY <1>4, <2>4
  <1> QED
    BY <1>3, <1>4

\* What is stored by the worker was pending before.
LEMMA ExecuteLatest ==
    ASSUME TypeOK, DbExecute, NEW a \in Accounts, NEW row, LatestSaveIs(a, row)
    PROVE  LatestSaveIs(a, row)'
  <1> DEFINE n == Len(dbQueue)
             d == dbQueue'
             P == {i \in 1..n : dbQueue[i].kind = "save" /\ dbQueue[i].of = a}
             R == {i \in 1..(n - 1) : d[i].kind = "save" /\ d[i].of = a}
  <1>1. /\ n \in Nat \ {0} /\ DOMAIN dbQueue = 1..n /\ DOMAIN d = 1..(n - 1)
        /\ \A i \in 1..(n - 1) : d[i] = dbQueue[i + 1] /\ i + 1 \in 1..n
        /\ Head(dbQueue) = dbQueue[1]
    <2>1. dbQueue # <<>> /\ d = Tail(dbQueue) /\ dbQueue \in Seq(Operation)
      BY DEF DbExecute, TypeOK
    <2> QED
      BY <2>1
  <1>2. PendingSaves(a) = P /\ PendingSaves(a)' = R
    BY <1>1 DEF PendingSaves
  <1>3. Head(dbQueue) \in Operation
    BY HeadOp DEF DbExecute
  <1>4. stored'[a] = IF 1 \in P THEN dbQueue[1].row ELSE stored[a]
    <2>1. 1 \in P <=> dbQueue[1].kind = "save" /\ dbQueue[1].of = a
      BY <1>1
    <2>2. CASE dbQueue[1].kind = "save"
      <3>1. stored' = [stored EXCEPT ![dbQueue[1].of] = dbQueue[1].row]
        BY <1>1, <2>2 DEF DbExecute
      <3> QED
        BY <2>1, <2>2, <3>1 DEF TypeOK
    <2>3. CASE dbQueue[1].kind # "save"
      <3>1. stored' = stored
        BY <1>1, <2>3 DEF DbExecute
      <3> QED
        BY <2>1, <2>3, <3>1
    <2> QED
      BY <2>2, <2>3
  <1>5. \A i \in 1..(n - 1) : i \in R <=> i + 1 \in P
    BY <1>1
  <1>6. R \subseteq 1..(n - 1) /\ P \subseteq 1..n
    OBVIOUS
  <1> HIDE DEF n, d, P, R
  <1>7. CASE P = {} /\ stored[a] = row
    <2>1. R = {}
      BY <1>5, <1>6, <1>7
    <2> QED
      BY <1>2, <1>4, <1>7, <2>1 DEF LatestSaveIs
  <1>8. ASSUME NEW i \in P, dbQueue[i].row = row, \A j \in P : j <= i
        PROVE  LatestSaveIs(a, row)'
    <2>1. CASE i = 1
      <3>1. R = {}
        BY <1>1, <1>5, <1>6, <1>8, <2>1
      <3> QED
        BY <1>2, <1>4, <1>8, <2>1, <3>1 DEF LatestSaveIs
    <2>2. CASE i # 1
      <3>1. i - 1 \in 1..(n - 1) /\ i - 1 + 1 = i
        BY <1>1, <1>6, <2>2
      <3>2. i - 1 \in R /\ d[i - 1].row = row
        BY <1>1, <1>5, <1>8, <3>1
      <3>3. \A j \in R : j <= i - 1
        BY <1>1, <1>5, <1>6, <1>8
      <3> QED
        BY <1>2, <3>2, <3>3 DEF LatestSaveIs, d
    <2> QED
      BY <2>1, <2>2
  <1> QED
    BY <1>2, <1>7, <1>8 DEF LatestSaveIs

\* Queries that are appended in turn are appended together.
LEMMA OpsJoin ==
    ASSUME NEW x \in Seq(Operation), NEW y \in Seq(Operation), NEW z \in Seq(Operation)
    PROVE  (x \o y) \o z = x \o (y \o z)
  OBVIOUS

\* Queries of sessions before and after the save of a character.
LEMMA OpsSend ==
    ASSUME TypeOK, NEW s \in Sessions \cup {None},
           NEW x \in Seq(Operation), \A i \in 1..Len(x) : x[i].kind = "init",
           NEW z \in Seq(Operation), \A i \in 1..Len(z) : z[i].kind = "init",
           dbQueue' = dbQueue \o x \o SaveOps(s) \o z, stored' = stored
    PROVE  \E ops : Sends(s, ops) /\ NoLogins(ops)
  <1>1. PICK y \in Seq(Operation) :
            /\ y = SaveOps(s)
            /\ s = None \/ player[s] = None => y = <<>>
            /\ s # None /\ player[s] # None =>
                 y = <<[kind |-> "save", of |-> Account[s], row |-> player[s]]>>
    BY SaveOpsAre
  <1>2. PICK w \in Seq(Operation) : w = x \o y
    <2>1. x \o y \in Seq(Operation)
      BY <1>1, ConcatProperties
    <2> QED
      BY <2>1
  <1>3. PICK ops \in Seq(Operation) : ops = w \o z
    <2>1. w \o z \in Seq(Operation)
      BY <1>2, ConcatProperties
    <2> QED
      BY <2>1
  <1>4. dbQueue' = dbQueue \o ops
    <2>1. dbQueue \in Seq(Operation)
      BY DEF TypeOK
    <2>2. dbQueue \o x \in Seq(Operation)
      BY <2>1, ConcatProperties
    <2>a. PICK before \in Seq(Operation) : before = dbQueue
      BY <2>1
    <2>b. before \o x \o y = before \o (x \o y)
      BY OpsJoin, Zenon
    <2>c. before \o w \o z = before \o (w \o z)
      BY OpsJoin, Zenon
    <2>3. dbQueue \o x \o y = dbQueue \o w
      BY <1>2, <2>a, <2>b, Zenon
    <2>4. dbQueue \o w \o z = dbQueue \o ops
      BY <1>3, <2>a, <2>c, Zenon
    <2>5. dbQueue' = dbQueue \o x \o y \o z
      BY <1>1
    <2> QED
      BY <2>3, <2>4, <2>5, Zenon
  <1>5. Extends(x, y, w) /\ Extends(w, z, ops)
    BY <1>2, <1>3, Longer
  <1>6. CASE s = None \/ player[s] = None
    <2>1. Len(y) = 0
      BY <1>1, <1>6
    <2>2. \A i \in 1..Len(w) : w[i].kind = "init"
      BY <1>5, <2>1 DEF Extends
    <2>3. \A i \in 1..Len(ops) : ops[i].kind = "init"
      <3> SUFFICES ASSUME NEW i \in 1..Len(ops) PROVE ops[i].kind = "init"
        OBVIOUS
      <3>1. CASE i \in 1..Len(w)
        <4>1. ops[i] = w[i]
          BY <1>5, <3>1, Zenon DEF Extends
        <4> QED
          BY <2>2, <3>1, <4>1, Zenon
      <3>2. ASSUME NEW k \in 1..Len(z), i = Len(w) + k PROVE ops[i].kind = "init"
        <4>1. ops[Len(w) + k] = z[k]
          BY <1>5, Zenon DEF Extends
        <4> QED
          BY <3>2, <4>1, Zenon
      <3> QED
        BY <1>5, <3>1, <3>2 DEF Extends
    <2> QED
      BY <1>4, <1>6, <2>3 DEF Sends, NoLogins
  <1>7. CASE s # None /\ player[s] # None
    <2>1. Len(y) = 1 /\ y[1].kind = "save" /\ y[1].of = Account[s] /\ y[1].row = player[s]
      BY <1>1, <1>7
    <2>2. PICK k : k = Len(x) + 1
      OBVIOUS
    <2>3. k \in 1..Len(w) /\ w[k] = y[1] /\ \A i \in 1..Len(w) : i # k => w[i].kind = "init"
      BY <1>5, <2>1, <2>2 DEF Extends
    <2>4. k \in 1..Len(ops) /\ ops[k] = y[1]
      BY <1>5, <2>3 DEF Extends
    <2>5. \A i \in 1..Len(ops) : i # k => ops[i].kind = "init"
      <3> SUFFICES ASSUME NEW i \in 1..Len(ops), i # k PROVE ops[i].kind = "init"
        OBVIOUS
      <3>1. CASE i \in 1..Len(w)
        <4>1. ops[i] = w[i]
          BY <1>5, <3>1, Zenon DEF Extends
        <4> QED
          BY <2>3, <3>1, <4>1, Zenon
      <3>2. ASSUME NEW j \in 1..Len(z), i = Len(w) + j PROVE ops[i].kind = "init"
        <4>1. ops[Len(w) + j] = z[j]
          BY <1>5, Zenon DEF Extends
        <4> QED
          BY <3>2, <4>1, Zenon
      <3> QED
        BY <1>5, <3>1, <3>2 DEF Extends
    <2>6. \A i \in 1..Len(ops) : ops[i].kind = "save" => i = k
      BY <2>5
    <2>7. NoLogins(ops)
      BY <2>1, <2>4, <2>5 DEF NoLogins
    <2>8. \A i \in 1..Len(ops) : ops[i].kind = "save" =>
             /\ ops[i].of = Account[s] /\ ops[i].row = player[s]
             /\ \A j \in 1..Len(ops) : ops[j].kind = "save" => i = j
      BY <2>1, <2>4, <2>6
    <2>9. \E i \in 1..Len(ops) : ops[i].kind = "save"
      BY <2>1, <2>4
    <2> QED
      BY <1>4, <1>7, <2>7, <2>8, <2>9, Zenon DEF Sends
  <1> QED
    BY <1>6, <1>7

\* Nothing is sent.
LEMMA SendNothing ==
    ASSUME TypeOK, UNCHANGED <<dbQueue, stored>>
    PROVE  Sends(None, <<>>) /\ NoLogins(<<>>)
  <1>1. dbQueue \in Seq(Operation)
    BY DEF TypeOK
  <1>2. dbQueue \o <<>> = dbQueue /\ <<>> \in Seq(Operation) /\ Len(<<>>) = 0
    BY <1>1
  <1> QED
    BY <1>2 DEF Sends, NoLogins

\* One session of an account at most has a character or loads it.
LEMMA OneOfAccount ==
    ASSUME Lives, NEW s \in Sessions, NEW t \in Sessions, Account[s] = Account[t],
           player[s] # None \/ loginHolder[s] # "none", player[t] # None \/ loginHolder[t] # "none"
    PROVE  s = t
  BY DEF Lives, Registered, Idle

\* A character goes with the save that was sent, and no other does.
LEMMA FreshSend ==
    ASSUME Lives, Fresh, NEW s \in Sessions \cup {None}, NEW ops, Sends(s, ops), progress' = progress,
           \A t \in Sessions : player'[t] = player[t] \/ (t = s /\ player'[t] = None),
           \A t \in Sessions : loginHolder'[t] = "ready" => loginHolder[t] = "ready" /\ loaded'[t] = loaded[t]
    PROVE  Fresh'
  <1>1. \A t \in Sessions : player'[t] # None => player'[t] = progress'[Account[t]]
    BY DEF Fresh
  <1>2. ASSUME NEW a \in Accounts, \A t \in Sessions : Account[t] = a => player'[t] = None
        PROVE  LatestSaveIs(a, progress[a])'
    <2>1. PICK row : row = progress[a]
      OBVIOUS
    <2>2. LatestSaveIs(a, row)'
      <3>1. CASE s # None /\ player[s] # None /\ Account[s] = a
        <4>1. player[s] = row
          BY <2>1, <3>1 DEF Fresh
        <4> QED
          BY <3>1, <4>1, SendLatest DEF Lives
      <3>2. CASE ~(s # None /\ player[s] # None /\ Account[s] = a)
        <4>1. \A t \in Sessions : Account[t] = a => player[t] = None
          BY <1>2, <3>2, SessionsAssumption
        <4>2. LatestSaveIs(a, row)
          BY <2>1, <4>1 DEF Fresh
        <4> QED
          BY <3>2, <4>2, SendLatest DEF Lives
      <3> QED
        BY <3>1, <3>2
    <2>3. progress'[a] = row
      BY <2>1
    <2> QED
      BY <2>2, <2>3 DEF LatestSaveIs
  <1>3. \A t \in Sessions : loginHolder'[t] = "ready" => loaded'[t] = progress'[Account[t]]
    BY DEF Fresh
  <1> QED
    BY <1>1, <1>2, <1>3 DEF Fresh

\* No query for a character is sent or lost, and a save is not sent behind one.
LEMMA LoginsSend ==
    ASSUME Lives, Logins, NEW s \in Sessions \cup {None}, NEW ops, Sends(s, ops), NoLogins(ops),
           \A t \in Sessions : loginHolder[t] = "asked" => loginHolder'[t] = "asked" \/ life'[t] = "gone",
           \A t \in Sessions : loginHolder'[t] = "asked" => loginHolder[t] = "asked",
           \A t \in Sessions : life[t] = "gone" => life'[t] = "gone"
    PROVE  Logins'
  <1>0. PICK q \in Seq(Operation) : q = dbQueue
    BY DEF Lives, TypeOK
  <1>1. PICK d : q = dbQueue /\ d = dbQueue' /\ ops \in Seq(Operation) /\ d = q \o ops
    BY <1>0 DEF Lives, TypeOK, Sends
  <1>2. Extends(q, ops, d)
    BY <1>1, Longer
  <1>3. \A i \in 1..Len(q) : q[i].kind = "login" => q[i].of \in Sessions
    BY OpTypes
  <1>4. \A i \in 1..Len(d) : d[i].kind = "login" => i \in 1..Len(q) /\ d[i] = q[i]
    <2> SUFFICES ASSUME NEW i \in 1..Len(d), d[i].kind = "login" PROVE i \in 1..Len(q) /\ d[i] = q[i]
      OBVIOUS
    <2>1. ASSUME NEW k \in 1..Len(ops), i = Len(q) + k PROVE FALSE
      BY <1>2, <2>1 DEF Extends, NoLogins
    <2> QED
      BY <1>2, <2>1 DEF Extends
  <1>5. \A i \in 1..Len(d) : d[i].kind = "login" => loginHolder'[d[i].of] = "asked" \/ life'[d[i].of] = "gone"
    BY <1>1, <1>3, <1>4 DEF Logins
  <1>5b. \A i, j \in 1..Len(q) :
            /\ q[i].kind = "login" /\ life[q[i].of] # "gone"
            /\ q[j].kind \in {"login", "save"} /\ i < j
            => IF q[j].kind = "save" THEN q[j].of # Account[q[i].of] ELSE q[j].of # q[i].of
    BY <1>1 DEF Logins
  <1>6. ASSUME NEW i \in 1..Len(d), NEW j \in 1..Len(d), d[i].kind = "login", life'[d[i].of] # "gone",
               d[j].kind \in {"login", "save"}, i < j
        PROVE  IF d[j].kind = "save" THEN d[j].of # Account[d[i].of] ELSE d[j].of # d[i].of
    <2>1. /\ i \in 1..Len(q) /\ d[i] = q[i] /\ q[i].of \in Sessions
          /\ life[q[i].of] # "gone"
      BY <1>3, <1>4, <1>6
    <2>2. CASE j \in 1..Len(q)
      <3>1. d[j] = q[j]
        BY <1>2, <2>2 DEF Extends
      <3> QED
        BY <1>1, <1>5b, <1>6, <2>1, <2>2, <3>1
    <2>3. ASSUME NEW k \in 1..Len(ops), j = Len(q) + k
          PROVE  d[j].kind = "save" /\ d[j].of # Account[d[i].of]
      <3>1. d[j] = ops[k]
        BY <1>2, <2>3 DEF Extends
      <3>2. ops[k].kind = "save"
        BY <1>6, <3>1 DEF NoLogins
      <3>3. s # None /\ player[s] # None /\ ops[k].of = Account[s]
        BY <3>2 DEF Sends
      <3>4. loginHolder[q[i].of] = "asked" /\ player[q[i].of] = None
        BY <1>1, <1>6, <2>1 DEF Logins, Lives, Loading
      <3>5. Account[q[i].of] # Account[s]
        BY <2>1, <3>3, <3>4, OneOfAccount
      <3> QED
        BY <2>1, <3>1, <3>2, <3>3, <3>5
    <2> QED
      BY <1>2, <2>2, <2>3 DEF Extends
  <1>7. \A i \in 1..Len(dbQueue') : dbQueue'[i].kind = "login" =>
             loginHolder'[dbQueue'[i].of] = "asked" \/ life'[dbQueue'[i].of] = "gone"
    BY <1>1, <1>5
  <1>8. ASSUME NEW i \in 1..Len(dbQueue'), NEW j \in 1..Len(dbQueue'),
               dbQueue'[i].kind = "login", life'[dbQueue'[i].of] # "gone",
               dbQueue'[j].kind \in {"login", "save"}, i < j
        PROVE  IF dbQueue'[j].kind = "save" THEN dbQueue'[j].of # Account[dbQueue'[i].of]
               ELSE dbQueue'[j].of # dbQueue'[i].of
    <2>1. d = dbQueue'
      BY <1>1
    <2>2. /\ i \in 1..Len(d) /\ j \in 1..Len(d) /\ d[i].kind = "login" /\ life'[d[i].of] # "gone"
          /\ d[j].kind \in {"login", "save"} /\ i < j
      BY <1>8, <2>1, Zenon
    <2>3. IF d[j].kind = "save" THEN d[j].of # Account[d[i].of] ELSE d[j].of # d[i].of
      BY <1>6, <2>2, Zenon
    <2> QED
      BY <2>1, <2>3, Zenon
  <1>9. ASSUME NEW t \in Sessions, loginHolder'[t] = "asked"
        PROVE  Sent(t)'
    <2>1. PICK i \in 1..Len(q) : q[i].kind = "login" /\ q[i].of = t
      BY <1>1, <1>9 DEF Logins, Sent
    <2>2. i \in 1..Len(d) /\ d[i] = q[i]
      BY <1>2, <2>1 DEF Extends
    <2> QED
      BY <1>1, <2>1, <2>2 DEF Sent
  <1> QED
    BY <1>7, <1>8, <1>9 DEF Logins

\* A step that leaves the characters alone.
LEMMA FreshKept ==
    ASSUME Lives, Logins, Fresh, UNCHANGED <<dbQueue, stored, progress>>,
           \A t \in Sessions : player'[t] = player[t],
           \A t \in Sessions : loginHolder'[t] = "ready" => loginHolder[t] = "ready" /\ loaded'[t] = loaded[t],
           \A t \in Sessions : loginHolder[t] = "asked" => loginHolder'[t] = "asked" \/ life'[t] = "gone",
           \A t \in Sessions : loginHolder'[t] = "asked" => loginHolder[t] = "asked",
           \A t \in Sessions : life[t] = "gone" => life'[t] = "gone"
    PROVE  Logins' /\ Fresh'
  <1>0. PICK s \in Sessions \cup {None} : s = None
    OBVIOUS
  <1>1. PICK ops : Sends(s, ops) /\ NoLogins(ops)
    BY <1>0, SendNothing DEF Lives
  <1>2. Logins'
    BY <1>1, LoginsSend
  <1>3. Fresh'
    BY <1>1, FreshSend
  <1> QED
    BY <1>2, <1>3

\* A step that saves the character of s, if there is one, and may log it out.
LEMMA FreshSaved ==
    ASSUME Lives, Logins, Fresh, NEW s \in Sessions \cup {None},
           NEW x \in Seq(Operation), \A i \in 1..Len(x) : x[i].kind = "init",
           NEW z \in Seq(Operation), \A i \in 1..Len(z) : z[i].kind = "init",
           dbQueue' = dbQueue \o x \o SaveOps(s) \o z, UNCHANGED <<stored, progress>>,
           \A t \in Sessions : player'[t] = player[t] \/ (t = s /\ player'[t] = None),
           \A t \in Sessions : loginHolder'[t] = "ready" => loginHolder[t] = "ready" /\ loaded'[t] = loaded[t],
           \A t \in Sessions : loginHolder[t] = "asked" => loginHolder'[t] = "asked" \/ life'[t] = "gone",
           \A t \in Sessions : loginHolder'[t] = "asked" => loginHolder[t] = "asked",
           \A t \in Sessions : life[t] = "gone" => life'[t] = "gone"
    PROVE  Logins' /\ Fresh'
  <1>1. PICK ops : Sends(s, ops) /\ NoLogins(ops)
    BY OpsSend DEF Lives
  <1>2. Logins'
    BY <1>1, LoginsSend
  <1>3. Fresh'
    BY <1>1, FreshSend
  <1> QED
    BY <1>2, <1>3

\* HandleLogoutRequestOpcode, Update and Player::Update save the character.
LEMMA LogoutFresh ==
    ASSUME Lives, Logins, Fresh,
           HandleLogoutRequestOpcode \/ Update_Logout \/ \E u \in Sessions : AutoSave(u)
    PROVE  Logins' /\ Fresh'
  <1>1. PICK s \in Sessions : /\ dbQueue' = dbQueue \o SaveOps(s)
                              /\ \A t \in Sessions : player'[t] = player[t] \/ (t = s /\ player'[t] = None)
    <2>1. CASE HandleLogoutRequestOpcode \/ Update_Logout
      <3>1. PICK s \in Sessions : s = sessions[cur]
        BY <2>1, Current DEF HandleLogoutRequestOpcode, Update_Logout
      <3>2. dbQueue' = dbQueue \o SaveOps(s) /\ player' = [player EXCEPT ![s] = None]
        BY <2>1, <3>1 DEF HandleLogoutRequestOpcode, Update_Logout, LogoutPlayer
      <3> QED
        BY <3>2 DEF Lives, TypeOK
    <2>2. CASE \E u \in Sessions : AutoSave(u)
      BY <2>2 DEF AutoSave, loginVars
    <2> QED
      BY <2>1, <2>2
  <1>2. UNCHANGED <<life, loginHolder, loaded, stored, progress>>
    BY DEF HandleLogoutRequestOpcode, Update_Logout, AutoSave, sessionVars, loginVars
  <1>3. PICK x \in Seq(Operation), z \in Seq(Operation) : x = <<>> /\ z = <<>>
    <2>1. <<>> \in Seq(Operation)
      OBVIOUS
    <2> QED
      BY <2>1
  <1>4. (\A i \in 1..Len(x) : x[i].kind = "init") /\ (\A i \in 1..Len(z) : z[i].kind = "init")
    BY <1>3
  <1>5. dbQueue' = dbQueue \o x \o SaveOps(s) \o z
    <2>1. PICK y \in Seq(Operation) : y = SaveOps(s)
      BY SaveOpsAre DEF Lives
    <2>2. PICK q \in Seq(Operation) : q = dbQueue
      BY DEF Lives, TypeOK
    <2>3. q \o <<>> = q
      OBVIOUS
    <2>4. (q \o y) \o <<>> = q \o y
      <3>1. PICK w \in Seq(Operation) : w = q \o y
        BY ConcatProperties
      <3>2. w \o <<>> = w
        OBVIOUS
      <3> QED
        BY <3>1, <3>2
    <2> QED
      BY <1>1, <1>3, <2>1, <2>2, <2>3, <2>4, Zenon
  <1>6. \A t \in Sessions : player'[t] = player[t] \/ (t = s /\ player'[t] = None)
    BY <1>1
  <1>7. \A t \in Sessions : loginHolder'[t] = "ready" => loginHolder[t] = "ready" /\ loaded'[t] = loaded[t]
    BY <1>2
  <1>8. \A t \in Sessions : loginHolder[t] = "asked" => loginHolder'[t] = "asked" \/ life'[t] = "gone"
    BY <1>2
  <1>9. \A t \in Sessions : /\ life[t] = "gone" => life'[t] = "gone"
                            /\ loginHolder'[t] = "asked" => loginHolder[t] = "asked"
    BY <1>2
  <1>10. UNCHANGED <<stored, progress>>
    BY <1>2
  <1>11. PICK ops : Sends(s, ops) /\ NoLogins(ops)
    BY <1>4, <1>5, <1>10, OpsSend DEF Lives
  <1>12. Logins'
    BY <1>8, <1>9, <1>11, LoginsSend
  <1>13. Fresh'
    BY <1>6, <1>7, <1>10, <1>11, FreshSend
  <1> QED
    BY <1>12, <1>13

\* AddSession_ saves the character of the session it deletes.
LEMMA JoinFresh ==
    ASSUME Lives, Waiting, Logins, Fresh, AddSession_
    PROVE  Logins' /\ Fresh'
  <1>0. PICK s \in Sessions, old \in Sessions \cup {None}, waits \in BOOLEAN : \E r : Joins(s, old, r, waits)
    BY AddJoins
  <1>1. PICK r : Joins(s, old, r, waits)
    BY <1>0
  <1>2. /\ life[s] = "adding"
        /\ old = None => r.admitted = <<>>
    <2>1. addSessQueue # <<>> /\ s = Head(addSessQueue)
      BY <1>1 DEF Joins
    <2>2. life[s] = "adding"
      BY <2>1, HeadSession
    <2>3. old = None => r = [found |-> FALSE, queued |-> queued, admitted |-> <<>>]
      BY <1>1, Zenon DEF Joins
    <2> QED
      BY <2>2, <2>3
  <1>3. r.admitted \in Seq(Sessions)
    <2>1. CASE old = None
      <3>1. <<>> \in Seq(Sessions)
        OBVIOUS
      <3> QED
        BY <1>2, <2>1, <3>1
    <2>2. CASE old # None
      <3>1. PICK A : Removal(r, queued, old, A)
        BY <1>1, <2>2 DEF Joins
      <3>2. queued \in Seq(Sessions)
        BY DEF Lives, TypeOK
      <3> QED
        BY <3>1, <3>2, RemovalTypes
    <2> QED
      BY <2>1, <2>2
  <1>4. PICK e \in Seq(Sessions) : e = IF waits THEN <<>> ELSE <<s>>
    <2>1. <<>> \in Seq(Sessions) /\ <<s>> \in Seq(Sessions)
      OBVIOUS
    <2> QED
      BY <2>1
  <1>5. PICK x \in Seq(Operation) : x = InitOps(r.admitted) /\ \A i \in 1..Len(x) : x[i].kind = "init"
    BY <1>3, InitOpsAre
  <1>6. PICK z \in Seq(Operation) : z = InitOps(e) /\ \A i \in 1..Len(z) : z[i].kind = "init"
    BY InitOpsAre
  <1>7. dbQueue' = dbQueue \o x \o SaveOps(old) \o z /\ UNCHANGED <<stored, progress>>
    BY <1>1, <1>4, <1>5, <1>6, Zenon DEF Joins
  <1>8. Deleted({old} \ {None}, {s})
    BY <1>1 DEF Joins
  <1>9. \A t \in Sessions : player'[t] = player[t] \/ (t = old /\ player'[t] = None)
    BY <1>8 DEF Deleted
  <1>10. \A t \in Sessions : loginHolder'[t] = "ready" => loginHolder[t] = "ready" /\ loaded'[t] = loaded[t]
    BY <1>8 DEF Deleted
  <1>11. \A t \in Sessions : loginHolder[t] = "asked" => loginHolder'[t] = "asked" \/ life'[t] = "gone"
    <2>1. loginHolder[s] = "none"
      BY <1>2 DEF Lives, Idle
    <2> QED
      BY <1>8, <2>1 DEF Deleted
  <1>12. \A t \in Sessions : /\ life[t] = "gone" => life'[t] = "gone"
                             /\ loginHolder'[t] = "asked" => loginHolder[t] = "asked"
    BY <1>2, <1>8 DEF Deleted
  <1> QED
    BY <1>5, <1>6, <1>7, <1>9, <1>10, <1>11, <1>12, FreshSaved

\* So does UpdateSessions when it removes one.
LEMMA LeaveFresh ==
    ASSUME Lives, Waiting, Logins, Fresh, Update_Remove
    PROVE  Logins' /\ Fresh'
  <1>0. PICK s \in Sessions : \E r1, r2 : Leaves(s, r1, r2)
    BY RemoveLeaves
  <1>1. PICK r1, r2 : Leaves(s, r1, r2)
    BY <1>0
  <1>2. \A t \in Sessions :
              /\ life'[t] = IF t = s THEN "gone" ELSE life[t]
              /\ loginHolder'[t] = IF t = s THEN "none" ELSE loginHolder[t]
              /\ loaded'[t] = IF t = s THEN 0 ELSE loaded[t]
              /\ player'[t] = IF t = s THEN None ELSE player[t]
    BY <1>1, LeaveLife
  <1>3. SplitTwice(s, r1, r2)
    BY <1>1, LeaveQueue, Zenon
  <1>4. PICK e \in Seq(Sessions) : e = r1.admitted \o r2.admitted
    BY <1>3, BothAdmitted DEF SplitTwice
  <1>5. PICK x \in Seq(Operation) : x = InitOps(e) /\ \A i \in 1..Len(x) : x[i].kind = "init"
    BY InitOpsAre
  <1>6. PICK z \in Seq(Operation) : z = <<>> /\ \A i \in 1..Len(z) : z[i].kind = "init"
    <2>1. <<>> \in Seq(Operation) /\ \A i \in 1..Len(<<>>) : FALSE
      OBVIOUS
    <2> QED
      BY <2>1
  <1>7. dbQueue' = dbQueue \o x \o SaveOps(s) \o z
    <2>1. dbQueue' = dbQueue \o x \o SaveOps(s)
      BY <1>1, <1>4, <1>5, Zenon DEF Leaves
    <2>2. dbQueue' \in Seq(Operation)
      <3>1. SaveOps(s) \in Seq(Operation) /\ dbQueue \in Seq(Operation)
        BY SaveOpsAre DEF Lives, TypeOK
      <3> QED
        BY <2>1, <3>1
    <2>3. dbQueue' \o <<>> = dbQueue'
      BY <2>2
    <2> QED
      BY <1>6, <2>1, <2>3, Zenon
  <1>8. UNCHANGED <<stored, progress>>
    BY <1>1 DEF Leaves
  <1> QED
    BY <1>2, <1>5, <1>6, <1>7, <1>8, FreshSaved

\* A character that gets on is the only one of its account.
LEMMA PlayFresh ==
    ASSUME Lives, Logins, Fresh, NEW s \in Sessions, Play(s)
    PROVE  Logins' /\ Fresh'
  <1>1. /\ UNCHANGED <<life, loginHolder, loaded, dbQueue, stored>> /\ player[s] # None
        /\ player' = [player EXCEPT ![s] = player[s] + 1]
        /\ progress' = [progress EXCEPT ![Account[s]] = player[s] + 1]
    BY DEF Play, sessionVars
  <1>2. Account[s] \in Accounts /\ \A t \in Sessions : Account[t] \in Accounts
    BY SessionsAssumption
  <1>3. PICK n : n = player[s] + 1
    OBVIOUS
  <1>4. n # None
    <2>1. player[s] \in Nat
      BY <1>1, SessionsAssumption DEF Lives, TypeOK, Row
    <2> QED
      BY <1>3, <2>1, SessionsAssumption
  <1>5. /\ \A t \in Sessions : player'[t] = IF t = s THEN n ELSE player[t]
        /\ \A a \in Accounts : progress'[a] = IF a = Account[s] THEN n ELSE progress[a]
    BY <1>1, <1>3 DEF Lives, TypeOK
  <1>6. \A t \in Sessions : (t # s /\ player[t] # None) \/ loginHolder[t] # "none" => Account[t] # Account[s]
    <2>1. loginHolder[s] = "none"
      BY <1>1 DEF Lives, Loading
    <2> QED
      BY <1>1, <2>1, OneOfAccount
  <1>7. \A t \in Sessions : player'[t] # None => player'[t] = progress'[Account[t]]
    BY <1>2, <1>5, <1>6 DEF Fresh
  <1>8. \A t \in Sessions : loginHolder'[t] = "ready" => loaded'[t] = progress'[Account[t]]
    BY <1>1, <1>2, <1>5, <1>6 DEF Fresh
  <1>9. ASSUME NEW a \in Accounts, \A t \in Sessions : Account[t] = a => player'[t] = None
        PROVE  LatestSaveIs(a, progress[a])'
    <2>1. a # Account[s]
      BY <1>4, <1>5, <1>9
    <2>2. progress'[a] = progress[a] /\ \A t \in Sessions : Account[t] = a => player[t] = None
      BY <1>5, <1>9, <2>1
    <2>3. LatestSaveIs(a, progress[a])
      BY <2>2 DEF Fresh
    <2> QED
      BY <1>1, <2>2, <2>3 DEF LatestSaveIs, PendingSaves
  <1>10. Fresh'
    BY <1>7, <1>8, <1>9 DEF Fresh
  <1>11. Logins'
    BY <1>1 DEF Logins, Sent
  <1> QED
    BY <1>10, <1>11

\* LoadFromDB gives the character its latest state, or it is not loaded.
LEMMA CallbackFresh ==
    ASSUME Lives, Logins, Fresh, ProcessQueryCallbacks
    PROVE  Logins' /\ Fresh'
  <1>1. PICK s \in Sessions : s = sessions[cur]
    BY Current DEF ProcessQueryCallbacks
  <1>2. UNCHANGED <<life, dbQueue, stored, progress>>
    BY DEF ProcessQueryCallbacks, dbVars
  <1>3. CASE UNCHANGED <<loginHolder, loaded, player>>
    BY <1>2, <1>3, FreshKept
  <1>4. CASE /\ loginHolder[s] = "ready"
             /\ loginHolder' = [loginHolder EXCEPT ![s] = "none"] /\ loaded' = [loaded EXCEPT ![s] = 0]
             /\ \E ok \in BOOLEAN : player' = [player EXCEPT ![s] = IF ok THEN loaded[s] ELSE None]
    <2>1. /\ \A t \in Sessions : loginHolder'[t] = IF t = s THEN "none" ELSE loginHolder[t]
          /\ \A t \in Sessions : t # s => loaded'[t] = loaded[t] /\ player'[t] = player[t]
          /\ player'[s] = loaded[s] \/ player'[s] = None
      BY <1>4 DEF Lives, TypeOK
    <2>2. player[s] = None /\ loaded[s] = progress[Account[s]]
      BY <1>4 DEF Lives, Loading, Fresh
    <2>3. Logins'
      <3>1. Sends(None, <<>>) /\ NoLogins(<<>>)
        BY <1>2, SendNothing DEF Lives
      <3>0. PICK u \in Sessions \cup {None} : u = None
        OBVIOUS
      <3>2. PICK ops : Sends(u, ops) /\ NoLogins(ops)
        BY <3>0, <3>1
      <3>3. /\ \A t \in Sessions : loginHolder[t] = "asked" => loginHolder'[t] = "asked" \/ life'[t] = "gone"
            /\ \A t \in Sessions : loginHolder'[t] = "asked" => loginHolder[t] = "asked"
            /\ \A t \in Sessions : life[t] = "gone" => life'[t] = "gone"
        BY <1>2, <1>4, <2>1
      <3> QED
        BY <3>2, <3>3, LoginsSend
    <2>4. \A t \in Sessions : player'[t] # None => player'[t] = progress'[Account[t]]
      BY <1>2, <2>1, <2>2 DEF Fresh
    <2>5. \A t \in Sessions : loginHolder'[t] = "ready" => loaded'[t] = progress'[Account[t]]
      BY <1>2, <2>1 DEF Fresh
    <2>6. ASSUME NEW a \in Accounts, \A t \in Sessions : Account[t] = a => player'[t] = None
          PROVE  LatestSaveIs(a, progress[a])'
      <3>1. \A t \in Sessions : Account[t] = a => player[t] = None
        BY <2>1, <2>2, <2>6
      <3>2. LatestSaveIs(a, progress[a])
        BY <3>1 DEF Fresh
      <3> QED
        BY <1>2, <3>2 DEF LatestSaveIs, PendingSaves
    <2> QED
      BY <2>3, <2>4, <2>5, <2>6 DEF Fresh
  <1> QED
    BY <1>1, <1>3, <1>4 DEF ProcessQueryCallbacks, HandlePlayerLogin

\* The worker stores what was saved last, and when it looks for a character
\* nothing is left to be saved: what it finds is its latest state.
LEMMA DbFresh ==
    ASSUME Lives, Logins, Fresh, DbExecute
    PROVE  Logins' /\ Fresh'
  <1>1. PICK op \in Operation : /\ op = dbQueue[1] /\ op = Head(dbQueue)
                                /\ op.kind # "save" => op.of \in Sessions
    BY HeadOp, OpTypes DEF Lives, DbExecute
  <1>2. PICK q \in Seq(Operation), d \in Seq(Operation) : q = dbQueue /\ d = dbQueue'
    BY HeadOp DEF Lives, TypeOK, DbExecute
  <1>3. /\ Len(q) \in Nat \ {0} /\ Len(d) = Len(q) - 1 /\ op = q[1]
        /\ \A i \in 1..Len(d) : d[i] = q[i + 1] /\ i + 1 \in 1..Len(q)
    BY <1>1, <1>2, HeadOp DEF Lives, DbExecute
  <1>4. /\ \A i \in 1..Len(q) : q[i].kind = "login" => loginHolder[q[i].of] = "asked" \/ life[q[i].of] = "gone"
        /\ \A i \in 1..Len(q) : q[i].kind = "login" => q[i].of \in Sessions
    BY <1>2, OpTypes DEF Logins
  <1>5. ASSUME NEW i \in 1..Len(q), NEW j \in 1..Len(q), q[i].kind = "login", life[q[i].of] # "gone",
               q[j].kind \in {"login", "save"}, i < j
        PROVE  IF q[j].kind = "save" THEN q[j].of # Account[q[i].of] ELSE q[j].of # q[i].of
    BY <1>2, <1>5 DEF Logins
  <1>6. UNCHANGED <<life, player, progress>>
    BY DEF DbExecute, sessionVars
  <1>7. \A t \in Sessions :
            IF op.kind = "login" /\ t = op.of /\ loginHolder[t] = "asked"
            THEN loginHolder'[t] = "ready" /\ loaded'[t] = stored[Account[t]]
            ELSE loginHolder'[t] = loginHolder[t] /\ loaded'[t] = loaded[t]
    <2>1. CASE op.kind = "login"
      BY <1>1, <2>1 DEF DbExecute, Lives, TypeOK
    <2>2. CASE op.kind # "login"
      BY <1>1, <2>2 DEF DbExecute
    <2> QED
      BY <2>1, <2>2
  <1>8. Logins'
    <2>1. \A i \in 1..Len(d) : d[i].kind = "login" => loginHolder'[d[i].of] = "asked" \/ life'[d[i].of] = "gone"
      <3> SUFFICES ASSUME NEW i \in 1..Len(d), d[i].kind = "login", life[d[i].of] # "gone"
                   PROVE  loginHolder'[d[i].of] = "asked"
        BY <1>6
      <3>1. PICK j \in 1..Len(q) : j = i + 1 /\ d[i] = q[j] /\ 1 \in 1..Len(q) /\ 1 < j
        BY <1>3
      <3>2. q[j].of \in Sessions /\ loginHolder[q[j].of] = "asked"
        BY <1>4, <3>1
      <3>3. ~(op.kind = "login" /\ op.of = q[j].of)
        BY <1>3, <1>5, <3>1
      <3> QED
        BY <1>7, <3>1, <3>2, <3>3
    <2>2. ASSUME NEW i \in 1..Len(d), NEW j \in 1..Len(d), d[i].kind = "login", life'[d[i].of] # "gone",
                 d[j].kind \in {"login", "save"}, i < j
          PROVE  IF d[j].kind = "save" THEN d[j].of # Account[d[i].of] ELSE d[j].of # d[i].of
      <3>1. PICK k \in 1..Len(q), l \in 1..Len(q) : k < l /\ d[i] = q[k] /\ d[j] = q[l]
        <4>1. i + 1 < j + 1
          BY <2>2
        <4> QED
          BY <1>3, <4>1
      <3> QED
        BY <1>5, <1>6, <2>2, <3>1
    <2>3. \A i \in 1..Len(dbQueue') : dbQueue'[i].kind = "login" =>
             loginHolder'[dbQueue'[i].of] = "asked" \/ life'[dbQueue'[i].of] = "gone"
      BY <1>2, <2>1
    <2>4. ASSUME NEW i \in 1..Len(dbQueue'), NEW j \in 1..Len(dbQueue'),
                 dbQueue'[i].kind = "login", life'[dbQueue'[i].of] # "gone",
                 dbQueue'[j].kind \in {"login", "save"}, i < j
          PROVE  IF dbQueue'[j].kind = "save" THEN dbQueue'[j].of # Account[dbQueue'[i].of]
                 ELSE dbQueue'[j].of # dbQueue'[i].of
      BY <1>2, <2>2, <2>4
    <2>5. ASSUME NEW t \in Sessions, loginHolder'[t] = "asked"
          PROVE  Sent(t)'
      <3>1. loginHolder[t] = "asked" /\ ~(op.kind = "login" /\ t = op.of)
        BY <1>7, <2>5
      <3>2. PICK i \in 1..Len(q) : q[i].kind = "login" /\ q[i].of = t
        BY <1>2, <3>1 DEF Logins, Sent
      <3>3. i # 1
        BY <1>3, <3>1, <3>2
      <3>4. PICK j \in 1..Len(d) : i = j + 1
        <4>1. i - 1 \in 1..Len(d) /\ i = (i - 1) + 1
          BY <1>3, <3>3
        <4> QED
          BY <4>1
      <3> QED
        BY <1>2, <1>3, <3>2, <3>4 DEF Sent
    <2> QED
      BY <2>3, <2>4, <2>5 DEF Logins
  <1>9. \A t \in Sessions : player'[t] # None => player'[t] = progress'[Account[t]]
    BY <1>6 DEF Fresh
  <1>10. ASSUME NEW a \in Accounts, \A t \in Sessions : Account[t] = a => player'[t] = None
         PROVE  LatestSaveIs(a, progress[a])'
    <2>1. PICK row : row = progress[a]
      OBVIOUS
    <2>2. LatestSaveIs(a, row)
      BY <1>6, <1>10, <2>1 DEF Fresh
    <2>3. LatestSaveIs(a, row)'
      BY <2>2, ExecuteLatest DEF Lives
    <2> QED
      BY <1>6, <2>1, <2>3 DEF LatestSaveIs
  <1>11. ASSUME op.kind = "login", NEW t \in Sessions, t = op.of, loginHolder[t] = "asked"
         PROVE  stored[Account[t]] = progress[Account[t]]
    <2>1. PICK a \in Accounts : a = Account[t]
      BY SessionsAssumption
    <2>2. life[t] # "gone" /\ player[t] = None
      BY <1>11 DEF Lives, Idle, Loading
    <2>3. \A u \in Sessions : Account[u] = a => player[u] = None
      BY <1>11, <2>1, <2>2, OneOfAccount
    <2>4. LatestSaveIs(a, progress[a])
      BY <2>3 DEF Fresh
    <2>5. PendingSaves(a) = {}
      <3> SUFFICES ASSUME NEW i \in 1..Len(q), q[i].kind = "save", q[i].of = a
                   PROVE  FALSE
        BY <1>2 DEF PendingSaves
      <3>1. 1 \in 1..Len(q) /\ 1 < i
        BY <1>3, <1>11
      <3> QED
        BY <1>3, <1>5, <1>11, <2>1, <2>2, <3>1
    <2> QED
      BY <2>1, <2>4, <2>5 DEF LatestSaveIs
  <1>12. \A t \in Sessions : loginHolder'[t] = "ready" => loaded'[t] = progress'[Account[t]]
    BY <1>6, <1>7, <1>11 DEF Fresh
  <1>13. Fresh'
    BY <1>9, <1>10, <1>12 DEF Fresh
  <1> QED
    BY <1>8, <1>13

\* HandlePlayerLoginOpcode sends one query for the character of a session that
\* has none and is not loading it, behind every save that was sent.
LEMMA LoginFresh ==
    ASSUME Lives, Logins, Fresh, NEW legit \in BOOLEAN, HandlePlayerLoginOpcode(legit)
    PROVE  Logins' /\ Fresh'
  <1>1. PICK s \in Sessions : s = sessions[cur] /\ life[s] = "live"
    BY Current DEF HandlePlayerLoginOpcode
  <1>2. UNCHANGED <<life, loaded, player, stored, progress>>
    BY DEF HandlePlayerLoginOpcode, loginVars
  <1>3. CASE UNCHANGED <<loginHolder, dbQueue>>
    BY <1>2, <1>3, FreshKept
  <1>4. CASE /\ s \notin loading
             /\ loginHolder' = [loginHolder EXCEPT ![s] = "asked"]
             /\ dbQueue' = Append(dbQueue, [kind |-> "login", of |-> s, row |-> 0])
    <2>1. PICK op \in Operation : op.kind = "login" /\ op.of = s /\ dbQueue' = Append(dbQueue, op)
      <3>1. [kind |-> "login", of |-> s, row |-> 0] \in Operation
        BY DEF Operation
      <3> QED
        BY <1>4, <3>1
    <2>0. PICK q \in Seq(Operation) : q = dbQueue
      BY DEF Lives, TypeOK
    <2>2. PICK d : q = dbQueue /\ d = dbQueue' /\ d = Append(q, op)
      BY <2>0, <2>1 DEF Lives, TypeOK
    <2>3. /\ Len(q) \in Nat /\ Len(d) = Len(q) + 1 /\ d[Len(q) + 1] = op
          /\ \A i \in 1..Len(q) : d[i] = q[i]
          /\ \A i \in 1..Len(d) : i \in 1..Len(q) \/ i = Len(q) + 1
      BY <2>2
    <2>4. \A t \in Sessions : loginHolder'[t] = IF t = s THEN "asked" ELSE loginHolder[t]
      BY <1>4 DEF Lives, TypeOK
    <2>5. loginHolder[s] = "none"
      BY <1>4 DEF Lives, Loading
    <2>6. /\ \A i \in 1..Len(q) : q[i].kind = "login" => loginHolder[q[i].of] = "asked" \/ life[q[i].of] = "gone"
          /\ \A i \in 1..Len(q) : q[i].kind = "login" => q[i].of \in Sessions /\ q[i].of # s
      <3>1. \A i \in 1..Len(q) : q[i].kind = "login" => loginHolder[q[i].of] = "asked" \/ life[q[i].of] = "gone"
        BY <2>2 DEF Logins
      <3> QED
        BY <1>1, <2>5, <3>1, OpTypes
    <2>7. \A i \in 1..Len(d) : d[i].kind = "login" => loginHolder'[d[i].of] = "asked" \/ life'[d[i].of] = "gone"
      BY <1>2, <2>1, <2>3, <2>4, <2>6
    <2>8. ASSUME NEW i \in 1..Len(d), NEW j \in 1..Len(d), d[i].kind = "login", life'[d[i].of] # "gone",
                 d[j].kind \in {"login", "save"}, i < j
          PROVE  IF d[j].kind = "save" THEN d[j].of # Account[d[i].of] ELSE d[j].of # d[i].of
      <3>1. i \in 1..Len(q) /\ d[i] = q[i]
        BY <2>3, <2>8
      <3>2. CASE j \in 1..Len(q)
        <4>1. d[j] = q[j]
          BY <2>3, <3>2
        <4> QED
          BY <1>2, <2>2, <2>8, <3>1, <3>2, <4>1 DEF Logins
      <3>3. CASE j = Len(q) + 1
        BY <2>1, <2>3, <2>6, <2>8, <3>1, <3>3
      <3> QED
        BY <2>3, <3>2, <3>3
    <2>9. Logins'
      <3>1. \A i \in 1..Len(dbQueue') : dbQueue'[i].kind = "login" =>
               loginHolder'[dbQueue'[i].of] = "asked" \/ life'[dbQueue'[i].of] = "gone"
        BY <2>2, <2>7
      <3>2. ASSUME NEW i \in 1..Len(dbQueue'), NEW j \in 1..Len(dbQueue'),
                   dbQueue'[i].kind = "login", life'[dbQueue'[i].of] # "gone",
                   dbQueue'[j].kind \in {"login", "save"}, i < j
            PROVE  IF dbQueue'[j].kind = "save" THEN dbQueue'[j].of # Account[dbQueue'[i].of]
                   ELSE dbQueue'[j].of # dbQueue'[i].of
        BY <2>2, <2>8, <3>2
      <3>3. ASSUME NEW t \in Sessions, loginHolder'[t] = "asked"
            PROVE  Sent(t)'
        <4>1. CASE t = s
          <5>1. Len(q) + 1 \in 1..Len(d)
            BY <2>3
          <5> QED
            BY <2>1, <2>2, <2>3, <4>1, <5>1 DEF Sent
        <4>2. CASE t # s
          <5>1. PICK i \in 1..Len(q) : q[i].kind = "login" /\ q[i].of = t
            BY <2>2, <2>4, <3>3, <4>2 DEF Logins, Sent
          <5>2. i \in 1..Len(d) /\ d[i] = q[i]
            BY <2>3, <5>1
          <5> QED
            BY <2>2, <5>1, <5>2 DEF Sent
        <4> QED
          BY <4>1, <4>2
      <3> QED
        BY <3>1, <3>2, <3>3 DEF Logins
    <2>10. Sends(None, <<op>>)
      <3>1. PICK ops \in Seq(Operation) : ops = <<op>> /\ Len(ops) = 1 /\ ops[1] = op
        <4>1. <<op>> \in Seq(Operation)
          OBVIOUS
        <4> QED
          BY <4>1
      <3>2. dbQueue' = dbQueue \o ops
        BY <2>2, <3>1
      <3>3. \A i \in 1..Len(ops) : ops[i].kind # "save"
        BY <2>1, <3>1
      <3>4. Sends(None, ops)
        BY <1>2, <3>2, <3>3 DEF Sends
      <3> QED
        BY <3>1, <3>4
    <2>11. PICK u \in Sessions \cup {None} : u = None
      OBVIOUS
    <2>12. PICK ops : Sends(u, ops)
      BY <2>10, <2>11
    <2>13. Fresh'
      BY <1>2, <2>4, <2>12, FreshSend
    <2> QED
      BY <2>9, <2>13
  <1> QED
    BY <1>1, <1>3, <1>4 DEF HandlePlayerLoginOpcode, loginVars

\* AddSession_Refuse deletes a session that has no character yet.
LEMMA RefuseFresh ==
    ASSUME Lives, Logins, Fresh, AddSession_Refuse
    PROVE  Logins' /\ Fresh'
  <1>1. PICK s \in Sessions : s = Head(addSessQueue) /\ life[s] = "adding"
    BY HeadSession DEF AddSession_Refuse
  <1>2. Delete({s}, {}) /\ UNCHANGED <<dbQueue, stored, progress>>
    BY <1>1 DEF AddSession_Refuse, Delete, dbVars
  <1>3. Deleted({s}, {})
    <2>1. {s} \in SUBSET Sessions /\ {} \in SUBSET Sessions
      OBVIOUS
    <2> QED
      BY <1>2, <2>1, DeleteIs, Zenon DEF Lives
  <1>4. player[s] = None /\ loginHolder[s] = "none"
    BY <1>1 DEF Lives, Idle
  <1>5. \A t \in Sessions : player'[t] = player[t] /\ loginHolder'[t] = loginHolder[t]
    BY <1>3, <1>4 DEF Deleted
  <1>6. \A t \in Sessions : /\ loginHolder'[t] = "ready" => loaded'[t] = loaded[t]
                            /\ life[t] = "gone" => life'[t] = "gone"
    BY <1>3, <1>4, <1>5 DEF Deleted
  <1> QED
    BY <1>2, <1>5, <1>6, FreshKept

LEMMA FreshInitially == Init => Logins /\ Fresh
  <1> SUFFICES ASSUME Init PROVE Logins /\ Fresh
    OBVIOUS
  <1>1. Logins
    BY DEF Init, Logins, Sent
  <1>2. \A a \in Accounts : PendingSaves(a) = {} /\ stored[a] = progress[a]
    BY DEF Init, PendingSaves
  <1>3. \A a \in Accounts : LatestSaveIs(a, progress[a])
    BY <1>2 DEF LatestSaveIs
  <1>4. \A s \in Sessions : player[s] = None /\ loginHolder[s] # "ready"
    BY DEF Init
  <1> QED
    BY <1>1, <1>3, <1>4 DEF Fresh

LEMMA FreshNext ==
    ASSUME Lives, Waiting, Logins, Fresh, [Next]_vars
    PROVE  Logins' /\ Fresh'
  <1>1. ASSUME UNCHANGED <<dbQueue, stored, progress, player, loginHolder, loaded>>,
               \A t \in Sessions : life[t] = "gone" => life'[t] = "gone"
        PROVE  Logins' /\ Fresh'
    BY <1>1, FreshKept
  <1> USE DEF sessionVars, loginVars, dbVars
  <1>2. CASE UNCHANGED vars
    BY <1>1, <1>2 DEF vars
  <1>3. CASE \E s \in Sessions : AddSession(s)
    <2>1. PICK s \in Sessions : AddSession(s)
      BY <1>3
    <2>2. \A t \in Sessions : life[t] = "gone" => life'[t] = "gone"
      BY <2>1 DEF AddSession, Lives, TypeOK
    <2> QED
      BY <1>1, <2>1, <2>2 DEF AddSession
  <1>4. CASE (\E s \in Sessions : CloseSocket(s) \/ Kick(s)) \/ KickAll
    BY <1>1, <1>4 DEF CloseSocket, Kick, KickAll
  <1>5. CASE DbExecute
    BY <1>5, DbFresh
  <1>6. CASE UpdateSessions \/ UpdateSessions_Added \/ (\E a \in Accounts : Update(a))
               \/ Update_Keep \/ UpdateSessions_End
    BY <1>1, <1>6 DEF UpdateSessions, UpdateSessions_Added, Update, Update_Keep, UpdateSessions_End
  <1>7. CASE AddSession_Refuse
    BY <1>7, RefuseFresh
  <1>8. CASE AddSession_
    BY <1>8, JoinFresh
  <1>9. CASE \E legit \in BOOLEAN : HandlePlayerLoginOpcode(legit)
    BY <1>9, LoginFresh
  <1>10. CASE HandleLogoutRequestOpcode \/ Update_Logout \/ \E s \in Sessions : AutoSave(s)
    BY <1>10, LogoutFresh
  <1>11. CASE ProcessQueryCallbacks
    BY <1>11, CallbackFresh
  <1>12. CASE Update_Remove
    BY <1>12, LeaveFresh
  <1>13. CASE \E s \in Sessions : Play(s)
    BY <1>13, PlayFresh
  <1>14. CASE Terminating
    BY <1>2, <1>14 DEF Terminating
  <1> QED
    BY <1>2, <1>3, <1>4, <1>5, <1>6, <1>7, <1>8, <1>9, <1>10, <1>11, <1>12, <1>13, <1>14
       DEF Next, WorldThread

-----------------------------------------------------------------------------
(* Loads and kicks come to an end                                          *)

\* A load that no query answers belongs to a session with a closed socket, and
\* so does a kick: WorldSession::Update will return false for it.
Rests(s) ==
    /\ s \in loading => loginHolder[s] # "none" \/ socket[s] = "closed"
    /\ s \in forceExit => socket[s] = "closed" /\ life[s] = "live"
    /\ socket[s] = "null" => life[s] = "gone"

AllRest == \A s \in Sessions : Rests(s)

\* Nothing is left of the sessions that are deleted.
LEMMA RestsDeleted ==
    ASSUME Lives, AllRest, NEW D, NEW B, Deleted(D, B),
           \A t \in Sessions : t \in B => life[t] = "adding",
           \A t \in Sessions : t \in D => t \notin B
    PROVE  AllRest'
  <1> SUFFICES ASSUME NEW t \in Sessions PROVE Rests(t)'
    BY DEF AllRest
  <1>1. Rests(t)
    BY DEF AllRest
  <1>2. CASE t \in D
    BY <1>2 DEF Deleted, Rests
  <1>3. CASE t \notin D /\ t \in B
    BY <1>1, <1>3 DEF Deleted, Rests
  <1>4. CASE t \notin D /\ t \notin B
    BY <1>1, <1>4 DEF Deleted, Rests
  <1> QED
    BY <1>2, <1>3, <1>4

\* KickPlayer closes the socket of a session that is in m_sessions.
LEMMA RestsKicked ==
    ASSUME Lives, NEW s \in Sessions, life[s] = "live", AllRest, KickPlayer(s), UNCHANGED life,
           \A t \in Sessions : t \in loading' => t = s \/ (t \in loading /\ loginHolder'[t] = loginHolder[t])
    PROVE  AllRest'
  <1> SUFFICES ASSUME NEW t \in Sessions PROVE Rests(t)'
    BY DEF AllRest
  <1>1. Rests(t) /\ Rests(s) /\ socket[s] # "null"
    BY DEF AllRest, Rests
  <1>2. \A u \in Sessions : socket'[u] = IF u = s THEN "closed" ELSE socket[u]
    BY <1>1 DEF KickPlayer, Lives, TypeOK
  <1>3. forceExit' = forceExit \cup {s}
    BY <1>1 DEF KickPlayer
  <1> QED
    BY <1>1, <1>2, <1>3 DEF Rests

LEMMA RestsNext ==
    ASSUME Lives, Waiting, AllRest, [Next]_vars
    PROVE  AllRest'
  <1> USE DEF sessionVars, loginVars
  <1>1. ASSUME UNCHANGED <<life, socket, forceExit, loading, loginHolder>> PROVE AllRest'
    BY <1>1 DEF AllRest, Rests
  <1>2. CASE UNCHANGED vars
    BY <1>1, <1>2 DEF vars
  <1>3. ASSUME NEW s \in Sessions, AddSession(s) PROVE AllRest'
    <2> SUFFICES ASSUME NEW t \in Sessions PROVE Rests(t)'
      BY DEF AllRest
    <2>1. /\ UNCHANGED <<socket, forceExit, loading, loginHolder>> /\ life[s] = "new"
          /\ life'[t] = IF t = s THEN "adding" ELSE life[t]
      BY <1>3 DEF AddSession, Lives, TypeOK
    <2> QED
      BY <2>1 DEF AllRest, Rests
  <1>4. ASSUME NEW s \in Sessions, CloseSocket(s) PROVE AllRest'
    <2> SUFFICES ASSUME NEW t \in Sessions PROVE Rests(t)'
      BY DEF AllRest
    <2>1. /\ UNCHANGED <<life, forceExit, loading, loginHolder>>
          /\ socket'[t] = socket[t] \/ socket'[t] = "closed"
      BY <1>4 DEF CloseSocket, Lives, TypeOK
    <2> QED
      BY <2>1 DEF AllRest, Rests
  <1>5. CASE DbExecute
    <2> SUFFICES ASSUME NEW t \in Sessions PROVE Rests(t)'
      BY DEF AllRest
    <2>1. UNCHANGED <<life, socket, forceExit, loading>>
      BY <1>5 DEF DbExecute
    <2>2. loginHolder[t] # "none" => loginHolder'[t] # "none"
      BY <1>5, HeadOp, OpTypes DEF DbExecute, Lives, TypeOK
    <2> QED
      BY <2>1, <2>2 DEF AllRest, Rests
  <1>6. CASE UpdateSessions \/ UpdateSessions_Added \/ (\E a \in Accounts : Update(a))
               \/ Update_Keep \/ UpdateSessions_End \/ HandleLogoutRequestOpcode \/ Update_Logout
               \/ (\E s \in Sessions : Play(s) \/ AutoSave(s))
    BY <1>1, <1>6 DEF UpdateSessions, UpdateSessions_Added, Update, Update_Keep, UpdateSessions_End,
       HandleLogoutRequestOpcode, Update_Logout, Play, AutoSave
  <1>7. CASE AddSession_Refuse
    <2>1. PICK s \in Sessions : s = Head(addSessQueue) /\ life[s] = "adding"
      BY <1>7, HeadSession DEF AddSession_Refuse
    <2>2. Delete({s}, {})
      BY <1>7, <2>1 DEF AddSession_Refuse, Delete
    <2>3. {s} \in SUBSET Sessions /\ {} \in SUBSET Sessions
      OBVIOUS
    <2>4. Deleted({s}, {})
      BY <2>2, <2>3, DeleteIs, Zenon DEF Lives
    <2> QED
      BY <2>4, RestsDeleted
  <1>8. CASE AddSession_
    <2>0. PICK s \in Sessions, old \in Sessions \cup {None}, waits \in BOOLEAN : \E r : Joins(s, old, r, waits)
      BY <1>8, AddJoins
    <2>1. PICK r : Joins(s, old, r, waits)
      BY <2>0
    <2>2. life[s] = "adding" /\ Account[s] \in Accounts
      BY <2>1, HeadSession DEF Joins
    <2>3. old # None => life[old] = "live"
      BY <2>1, <2>2 DEF Joins, Lives, Registered
    <2>4. \A t \in Sessions : t \in {old} \ {None} => t \notin {s}
      BY <2>2, <2>3
    <2>5. \A t \in Sessions : t \in {s} => life[t] = "adding"
      BY <2>2
    <2>6. Deleted({old} \ {None}, {s})
      BY <2>1 DEF Joins
    <2> QED
      BY <2>4, <2>5, <2>6, RestsDeleted
  <1>9. ASSUME NEW legit \in BOOLEAN, HandlePlayerLoginOpcode(legit) PROVE AllRest'
    <2>1. PICK s \in Sessions : s = sessions[cur] /\ life[s] = "live"
      BY <1>9, Current DEF HandlePlayerLoginOpcode
    <2>2. UNCHANGED life
      BY <1>9 DEF HandlePlayerLoginOpcode
    <2>3. CASE KickPlayer(s) /\ UNCHANGED loginHolder /\ loading' \subseteq loading \cup {s}
      BY <2>1, <2>2, <2>3, RestsKicked
    <2>4. CASE /\ loading' = loading \cup {s} /\ loginHolder' = [loginHolder EXCEPT ![s] = "asked"]
               /\ UNCHANGED <<socket, forceExit>>
      <3> SUFFICES ASSUME NEW t \in Sessions PROVE Rests(t)'
        BY DEF AllRest
      <3>1. loginHolder'[t] = IF t = s THEN "asked" ELSE loginHolder[t]
        BY <2>4 DEF Lives, TypeOK
      <3> QED
        BY <2>2, <2>4, <3>1 DEF AllRest, Rests
    <2> QED
      BY <1>9, <2>1, <2>3, <2>4 DEF HandlePlayerLoginOpcode
  <1>10. CASE ProcessQueryCallbacks
    <2>1. PICK s \in Sessions : s = sessions[cur] /\ life[s] = "live"
      BY <1>10, Current DEF ProcessQueryCallbacks
    <2>2. UNCHANGED life
      BY <1>10 DEF ProcessQueryCallbacks
    <2>3. CASE UNCHANGED <<loginHolder, loading, socket, forceExit>>
      BY <1>1, <2>2, <2>3
    <2>4. CASE /\ loginHolder' = [loginHolder EXCEPT ![s] = "none"] /\ loading' = loading \ {s}
               /\ UNCHANGED <<socket, forceExit>> \/ KickPlayer(s)
      <3>1. \A t \in Sessions : t # s => loginHolder'[t] = loginHolder[t]
        BY <2>4 DEF Lives, TypeOK
      <3>2. CASE KickPlayer(s)
        BY <2>1, <2>2, <2>4, <3>1, <3>2, RestsKicked
      <3>3. CASE UNCHANGED <<socket, forceExit>>
        BY <2>2, <2>4, <3>1, <3>3 DEF AllRest, Rests
      <3> QED
        BY <2>4, <3>2, <3>3
    <2> QED
      BY <1>10, <2>1, <2>3, <2>4 DEF ProcessQueryCallbacks, HandlePlayerLogin
  <1>11. CASE Update_Remove
    <2>0. PICK s \in Sessions : \E r1, r2 : Leaves(s, r1, r2)
      BY <1>11, RemoveLeaves
    <2>1. Deleted({s}, {})
      BY <2>0 DEF Leaves
    <2> QED
      BY <2>1, RestsDeleted
  <1>12. ASSUME NEW s \in Sessions, Kick(s) PROVE AllRest'
    BY <1>12, RestsKicked DEF Kick
  <1>13. CASE KickAll
    <2> SUFFICES ASSUME NEW t \in Sessions PROVE Rests(t)'
      BY DEF AllRest
    <2>1. OnlineLive
      BY OnlineNow
    <2>2. /\ UNCHANGED <<life, loading, loginHolder>> /\ forceExit' = forceExit \cup Online
          /\ socket'[t] = IF t \in Online THEN "closed" ELSE socket[t]
      BY <1>13 DEF KickAll, Put
    <2> QED
      BY <2>1, <2>2 DEF AllRest, Rests, OnlineLive
  <1>14. CASE Terminating
    BY <1>2, <1>14 DEF Terminating
  <1> QED
    BY <1>2, <1>3, <1>4, <1>5, <1>6, <1>7, <1>8, <1>9, <1>10, <1>11, <1>12, <1>13, <1>14
       DEF Next, WorldThread

-----------------------------------------------------------------------------
(* The theorems                                                            *)

LEMMA SessionsInvariant == Spec => []SessionsInv
  <1>1. Init => SessionsInv
    BY LivesInit, QueueInitially, FreshInitially DEF SessionsInv
  <1>2. SessionsInv /\ [Next]_vars => SessionsInv'
    <2> SUFFICES ASSUME SessionsInv, [Next]_vars PROVE SessionsInv'
      OBVIOUS
    <2>1. Lives /\ Waiting /\ NoRoomWhileQueued /\ LimitKept /\ Logins /\ Fresh
      BY DEF SessionsInv
    <2>2. Lives'
      BY <2>1, LivesNext
    <2>3. Waiting'
      BY <2>1, QueueNext
    <2>4. NoRoomWhileQueued' /\ LimitKept'
      BY <2>1, <2>2, <2>3, RoomNext
    <2>5. Logins' /\ Fresh'
      BY <2>1, FreshNext
    <2> QED
      BY <2>2, <2>3, <2>4, <2>5 DEF SessionsInv
  <1> QED
    BY <1>1, <1>2, PTL DEF Spec

\* Every variable keeps its type: RemoveQueuedPlayer, which counts down from the
\* number of active sessions, and the holders and rows of the callbacks included.
THEOREM SessionTypes == Spec => []TypeOK
  <1>1. SessionsInv => TypeOK
    BY DEF SessionsInv, Lives
  <1> QED
    BY <1>1, SessionsInvariant, PTL

\* World::AddQueuedPlayer and RemoveQueuedPlayer, called from AddSession_ and twice
\* from UpdateSessions, keep the login queue free of sessions that were deleted and
\* of repetitions, and nobody is told to wait who is not in it, has not been let
\* in and was not kicked.
THEOREM QueueIsSound == Spec => []QueueSound
  <1>1. SessionsInv => QueueSound
    BY DEF SessionsInv, Waiting
  <1> QED
    BY <1>1, SessionsInvariant, PTL

\* Nobody waits in the login queue while there is room: RemoveQueuedPlayer lets in
\* the first of it for every active session that AddSession_ replaces or
\* UpdateSessions deletes.
THEOREM NobodyWaitsBesideRoom == Spec => []NoRoomWhileQueued
  <1>1. SessionsInv => NoRoomWhileQueued
    BY DEF SessionsInv
  <1> QED
    BY <1>1, SessionsInvariant, PTL

\* However sessions come, go, come back and skip the queue, RemoveQueuedPlayer and
\* AddSession_ let no more of those in that have to keep to m_playerLimit.
THEOREM LimitIsKept == Spec => []LimitKept
  <1>1. SessionsInv => LimitKept
    BY DEF SessionsInv
  <1> QED
    BY <1>1, SessionsInvariant, PTL

\* No character is played twice or goes back in time, whatever the order in which
\* it is saved by Player::Update, LogoutPlayer and ~WorldSession, its session is
\* kicked, deleted or replaced, and HandlePlayerLoginOpcode asks for it again while
\* those saves are still in the queue of the database.
THEOREM NoCharacterRollsBack == Spec => []NoRollback
  <1>1. SessionsInv => NoRollback
    <2> SUFFICES ASSUME Lives, Fresh, NEW a \in Accounts
                 PROVE  LET holders == {s \in Sessions : Account[s] = a /\ player[s] # None} IN
                        /\ Cardinality(holders) <= 1
                        /\ \A s \in holders : player[s] = progress[a]
                        /\ holders = {} => LatestSaveIs(a, progress[a])
                        /\ \A s \in Sessions : Account[s] = a /\ loginHolder[s] = "ready" => loaded[s] = progress[a]
      BY DEF SessionsInv, NoRollback
    <2> DEFINE holders == {s \in Sessions : Account[s] = a /\ player[s] # None}
    <2>1. \A s, t \in holders : s = t
      BY OneOfAccount
    <2>2. Cardinality(holders) <= 1
      <3>1. CASE holders = {}
        BY <3>1, FS_EmptySet
      <3>2. ASSUME NEW s \in holders PROVE Cardinality(holders) <= 1
        <4>1. holders = {s}
          BY <2>1, <3>2
        <4>2. Cardinality({s}) = 1
          BY FS_Singleton
        <4> QED
          BY <4>1, <4>2
      <3> QED
        BY <3>1, <3>2
    <2>3. \A s \in holders : player[s] = progress[a]
      BY DEF Fresh
    <2>4. holders = {} => LatestSaveIs(a, progress[a])
      BY DEF Fresh
    <2>5. \A s \in Sessions : Account[s] = a /\ loginHolder[s] = "ready" => loaded[s] = progress[a]
      BY DEF Fresh
    <2> QED
      BY <2>2, <2>3, <2>4, <2>5
  <1> QED
    BY <1>1, SessionsInvariant, PTL

\* What a session needs to come to rest: the query for its character in the queue
\* of the database, the answer ready, or a closed socket; and a closed socket when
\* it was kicked.
UnderWay ==
    \A s \in Sessions :
        /\ s \in loading => Sent(s) \/ loginHolder[s] = "ready" \/ socket[s] = "closed"
        /\ s \in forceExit => sessions[Account[s]] = s /\ socket[s] = "closed"

\* Whatever Settles waits for is under way: a session whose m_playerLoading is set
\* has its query in the queue of the database, or the answer ready, or a closed
\* socket, and one that was kicked is in m_sessions with a closed socket, where
\* the next UpdateSessions deletes it.
THEOREM LoadsAndKicksAreUnderWay == Spec => []UnderWay
  <1>1. Init => AllRest
    BY DEF Init, AllRest, Rests
  <1>2. SessionsInv /\ AllRest /\ [Next]_vars => AllRest'
    BY RestsNext DEF SessionsInv
  <1>3. ASSUME SessionsInv, AllRest PROVE UnderWay
    <2> SUFFICES ASSUME NEW s \in Sessions
                 PROVE  /\ s \in loading => Sent(s) \/ loginHolder[s] = "ready" \/ socket[s] = "closed"
                        /\ s \in forceExit => sessions[Account[s]] = s /\ socket[s] = "closed"
      BY DEF UnderWay
    <2>1. Rests(s)
      BY <1>3 DEF AllRest
    <2>2. loginHolder[s] \in Holder /\ (loginHolder[s] = "asked" => Sent(s))
      BY <1>3 DEF SessionsInv, Lives, TypeOK, Logins
    <2>3. life[s] = "live" => sessions[Account[s]] = s
      BY <1>3 DEF SessionsInv, Lives, Registered
    <2> QED
      BY <2>1, <2>2, <2>3 DEF Rests, Holder
  <1>4. Spec => []AllRest
    BY <1>1, <1>2, SessionsInvariant, PTL DEF Spec
  <1> QED
    BY <1>3, <1>4, SessionsInvariant, PTL

=============================================================================
