--------------------------- MODULE MPSCQueueProofs ---------------------------
(***************************************************************************)
(* Proofs about MPSCQueue, for any number of producers and packets: it is  *)
(* the queue of PacketFifo, no node is used after it was deleted, and none *)
(* is cut off from the others.                                             *)
(*                                                                         *)
(* The nodes from _tail to _head form a chain without repetitions in which *)
(* every link is right or still null (Chain, Links).  A link is null until *)
(* exactly one thread, which knows both of its ends, stores it (Linkers),  *)
(* and there always is such a thread (NoneForgotten).                      *)
(* The consumer passes a node only over a link that is not null, so nobody *)
(* has anything to do with the nodes it has passed, and the chain is what  *)
(* is allocated (Memory).                                                  *)
(***************************************************************************)
EXTENDS MPSCQueue, SequenceTheorems, TLAPS

\* The history variable is the chain that the code keeps.
Chain ==
    /\ chain # <<>> /\ \A i, j \in 1..Len(chain) : chain[i] = chain[j] => i = j
    /\ chain[1] = tail /\ chain[Len(chain)] = head

\* A node is linked to its successor or to nothing; the head has none.
Links ==
    /\ link[head] = Null
    /\ \A i \in 1..(Len(chain) - 1) : link[chain[i]] \in {chain[i + 1], Null}

\* m follows n in the chain c, and n has still to be linked to it.
Pending(c, l, n, m) ==
    \E i \in 1..(Len(c) - 1) : n = c[i] /\ m = c[i + 1] /\ l[n] = Null

\* Threads between the exchange and the store of Enqueue are about to link two
\* neighbours, and no two of them the same ones.
Linkers ==
    /\ \A p \in Producers : ppc[p] = "link" => Pending(chain, link, prevHead[p], item[p])
    /\ cpc = "dummylink" => Pending(chain, link, dummyPrev, Dummy)
    /\ \A p, q \in Producers : ppc[p] = "link" /\ ppc[q] = "link" /\ prevHead[p] = prevHead[q] => p = q
    /\ \A p \in Producers : ppc[p] = "link" /\ cpc = "dummylink" => prevHead[p] # dummyPrev

\* The allocated packets are those in the chain and the one being deleted.
Memory ==
    /\ \A v \in Packets : (\E i \in 1..Len(chain) : chain[i] = v) <=> v \in alive /\ v # result
    /\ result # Null <=> cpc = "delete"
    /\ result # Null => result \in alive

\* Where the consumer is in Dequeue tells where the dummy is not.
DummyOnce ==
    /\ cpc \in {"next", "dummy"} => \A i \in 1..Len(chain) : chain[i] # Dummy
    /\ cpc \in {"head", "dummylink", "again"} => tail # Dummy

QueueInv == TypeOK /\ Chain /\ Links /\ Linkers /\ Memory /\ DummyOnce

-----------------------------------------------------------------------------
(* The invariant                                                           *)

\* The constructor establishes the invariant.
LEMMA QueueInit == Init => QueueInv
  <1> SUFFICES ASSUME Init PROVE QueueInv
    OBVIOUS
  <1> USE DEF Init, Nodes
  <1>1. TypeOK
    BY DEF TypeOK
  <1>2. Chain /\ Links
    BY DEF Chain, Links
  <1>3. Linkers /\ Memory /\ DummyOnce
    BY QueueAssumption DEF Linkers, Memory, DummyOnce
  <1>4. QED
    BY <1>1, <1>2, <1>3 DEF QueueInv

\* A new packet becomes the last of the chain, not linked yet.
LEMMA ExchangeInv ==
    ASSUME NEW p \in Producers, NEW v \in Packets, QueueInv, Enqueue_Exchange(p, v)
    PROVE  QueueInv'
  <1> USE DEF Enqueue_Exchange, QueueInv, Nodes
  <1>0. v # Null /\ v # Dummy
    BY QueueAssumption
  <1>1. TypeOK'
    BY AppendProperties DEF TypeOK
  <1>2. /\ chain \in Seq(Nodes) /\ Len(chain) > 0 /\ Len(chain') = Len(chain) + 1
        /\ \A i \in 1..Len(chain) : chain'[i] = chain[i]
        /\ chain'[Len(chain) + 1] = v
    BY DEF TypeOK, Chain
  <1>3. \A i \in 1..Len(chain) : chain[i] # v
    BY <1>0 DEF Memory
  <1>4. Chain'
    BY <1>2, <1>3 DEF Chain
  <1>5. \A n \in Nodes \ {v} : link'[n] = link[n]
    BY DEF TypeOK
  <1>6. \A i \in 1..Len(chain) : chain[i] \in Nodes /\ link'[chain[i]] = link[chain[i]]
    BY <1>2, <1>3, <1>5
  <1>7. Links'
    BY <1>2, <1>3, <1>5, <1>6 DEF Links, Chain, TypeOK
  <1>8. \A n, m : Pending(chain, link, n, m) => Pending(chain', link', n, m) /\ n # head
    <2> SUFFICES ASSUME NEW i \in 1..(Len(chain) - 1), link[chain[i]] = Null
                 PROVE  Pending(chain', link', chain[i], chain[i + 1]) /\ chain[i] # head
      BY DEF Pending
    <2>1. i \in 1..Len(chain) /\ i + 1 \in 1..Len(chain) /\ i \in 1..(Len(chain') - 1)
      BY <1>2
    <2>2. chain'[i] = chain[i] /\ chain'[i + 1] = chain[i + 1] /\ link'[chain[i]] = Null
      BY <1>2, <1>6, <2>1
    <2>3. chain[i] # head
      BY <1>2, <2>1 DEF Chain
    <2>4. QED
      BY <2>1, <2>2, <2>3, Zenon DEF Pending
  <1>9. Pending(chain', link', head, v)
    BY <1>2, <1>6 DEF Pending, Links, Chain
  <1>10. Linkers'
    <2>1. \A q \in Producers : ppc'[q] = "link" => Pending(chain', link', prevHead'[q], item'[q])
      BY <1>8, <1>9 DEF Linkers, TypeOK
    <2>2. \A q \in Producers : q # p /\ ppc'[q] = "link" => prevHead'[q] # prevHead'[p]
      BY <1>8 DEF Linkers, TypeOK
    <2>3. \A q, r \in Producers : ppc'[q] = "link" /\ ppc'[r] = "link" /\ prevHead'[q] = prevHead'[r] => q = r
      BY <2>2 DEF Linkers, TypeOK
    <2>4. cpc' = "dummylink" => Pending(chain', link', dummyPrev', Dummy) /\ prevHead'[p] # dummyPrev'
      BY <1>8 DEF Linkers, TypeOK
    <2>5. QED
      BY <2>1, <2>3, <2>4 DEF Linkers, TypeOK
  <1>11. Memory'
    BY <1>0, <1>2, <1>3 DEF Memory
  <1>12. DummyOnce'
    BY <1>0, <1>2 DEF DummyOnce
  <1>13. QED
    BY <1>1, <1>4, <1>7, <1>10, <1>11, <1>12

\* Storing a pending link leaves the others pending.
LEMMA Linked ==
    ASSUME QueueInv, NEW n, NEW m, Pending(chain, link, n, m),
           link' = [link EXCEPT ![n] = m], UNCHANGED <<chain, head, tail>>
    PROVE  /\ link' \in [Nodes -> Nodes \cup {Null}] /\ Chain' /\ Links'
           /\ \A k, l : k # n /\ Pending(chain, link, k, l) => Pending(chain', link', k, l)
  <1> USE DEF QueueInv
  <1>1. PICK i \in 1..(Len(chain) - 1) : n = chain[i] /\ m = chain[i + 1] /\ link[n] = Null
    BY DEF Pending
  <1>2. chain \in Seq(Nodes) /\ n \in Nodes /\ m \in Nodes
    BY <1>1 DEF TypeOK
  <1>3. n # head
    BY <1>1, <1>2 DEF Chain
  <1>4. \A j \in 1..Len(chain) : chain[j] \in Nodes /\ link'[chain[j]] = IF j = i THEN m ELSE link[chain[j]]
    BY <1>1, <1>2 DEF Chain, TypeOK
  <1>5. Links'
    BY <1>1, <1>2, <1>3, <1>4 DEF Links, TypeOK
  <1>6. \A k, l : k # n /\ Pending(chain, link, k, l) => Pending(chain', link', k, l)
    BY <1>1, <1>2, <1>4 DEF Pending
  <1>7. QED
    BY <1>1, <1>2, <1>5, <1>6 DEF Chain, TypeOK

\* A producer stores its link.
LEMMA LinkInv ==
    ASSUME NEW p \in Producers, QueueInv, Enqueue_Link(p)
    PROVE  QueueInv'
  <1> USE DEF Enqueue_Link, QueueInv
  <1>1. Pending(chain, link, prevHead[p], item[p])
    BY DEF Linkers
  <1>2. /\ link' \in [Nodes -> Nodes \cup {Null}] /\ Chain' /\ Links'
        /\ \A k, l : k # prevHead[p] /\ Pending(chain, link, k, l) => Pending(chain', link', k, l)
    BY <1>1, Linked
  <1>3. TypeOK'
    BY <1>2 DEF TypeOK
  <1>4. \A q \in Producers : ppc'[q] = "link" =>
            q # p /\ ppc[q] = "link" /\ prevHead'[q] = prevHead[q] /\ item'[q] = item[q]
    BY DEF TypeOK
  <1>5. Linkers'
    BY <1>2, <1>4 DEF Linkers
  <1>6. Memory' /\ DummyOnce'
    BY DEF Memory, DummyOnce
  <1>7. QED
    BY <1>2, <1>3, <1>5, <1>6

\* The consumer links the dummy.
LEMMA DummyLinkInv == QueueInv /\ Dequeue_DummyLink => QueueInv'
  <1> SUFFICES ASSUME QueueInv, Dequeue_DummyLink PROVE QueueInv'
    OBVIOUS
  <1> USE DEF Dequeue_DummyLink, QueueInv, producerVars
  <1>1. Pending(chain, link, dummyPrev, Dummy)
    BY DEF Linkers
  <1>2. /\ link' \in [Nodes -> Nodes \cup {Null}] /\ Chain' /\ Links'
        /\ \A k, l : k # dummyPrev /\ Pending(chain, link, k, l) => Pending(chain', link', k, l)
    BY <1>1, Linked
  <1>3. TypeOK'
    BY <1>2 DEF TypeOK
  <1>4. Linkers'
    BY <1>2 DEF Linkers
  <1>5. Memory' /\ DummyOnce'
    BY DEF Memory, DummyOnce
  <1>6. QED
    BY <1>2, <1>3, <1>4, <1>5

\* The dummy, which is nowhere in the chain, becomes its last node.
LEMMA DummyExchangeInv == QueueInv /\ Dequeue_DummyExchange => QueueInv'
  <1> SUFFICES ASSUME QueueInv, Dequeue_DummyExchange PROVE QueueInv'
    OBVIOUS
  <1> USE DEF Dequeue_DummyExchange, QueueInv, Nodes, producerVars
  <1>1. TypeOK'
    BY AppendProperties DEF TypeOK
  <1>2. /\ chain \in Seq(Nodes) /\ Len(chain) > 0 /\ Len(chain') = Len(chain) + 1
        /\ \A i \in 1..Len(chain) : chain'[i] = chain[i]
        /\ chain'[Len(chain) + 1] = Dummy
    BY DEF TypeOK, Chain
  <1>3. \A i \in 1..Len(chain) : chain[i] # Dummy
    BY DEF DummyOnce
  <1>4. Chain'
    BY <1>2, <1>3 DEF Chain
  <1>5. \A i \in 1..Len(chain) : chain[i] \in Nodes /\ link'[chain[i]] = link[chain[i]]
    BY <1>2, <1>3 DEF TypeOK
  <1>6. Links'
    BY <1>2, <1>3, <1>5 DEF Links, Chain, TypeOK
  <1>7. \A n, m : Pending(chain, link, n, m) => Pending(chain', link', n, m) /\ n # head
    BY <1>2, <1>5 DEF Pending, Chain
  <1>8. Pending(chain', link', head, Dummy)
    BY <1>2, <1>5 DEF Pending, Links, Chain
  <1>9. Linkers'
    BY <1>7, <1>8 DEF Linkers
  <1>10. Memory'
    BY <1>2, QueueAssumption DEF Memory
  <1>11. DummyOnce'
    BY <1>2, <1>3 DEF DummyOnce, Chain
  <1>12. QED
    BY <1>1, <1>4, <1>6, <1>9, <1>10, <1>11

\* The consumer passes the tail over a link that is not null: the rest of the
\* chain is a chain, and whatever link was pending still is.
LEMMA Advance ==
    ASSUME QueueInv, link[tail] # Null,
           tail' = link[tail], chain' = Tail(chain), UNCHANGED <<head, link>>
    PROVE  /\ tail' \in Nodes /\ chain' \in Seq(Nodes) /\ Chain' /\ Links'
           /\ Len(chain) > 1 /\ Len(chain') = Len(chain) - 1
           /\ \A i \in 1..Len(chain') : chain'[i] = chain[i + 1] /\ chain'[i] # tail
           /\ \A n, m : Pending(chain, link, n, m) => Pending(chain', link', n, m)
  <1> USE DEF QueueInv
  <1>1. chain \in Seq(Nodes) /\ chain # <<>>
    BY DEF TypeOK, Chain
  <1>2. Len(chain) > 1
    BY <1>1 DEF Chain, Links
  <1>3. /\ chain' \in Seq(Nodes) /\ Len(chain') = Len(chain) - 1
        /\ \A i \in 1..Len(chain') : chain'[i] = chain[i + 1]
    BY <1>1, HeadTailProperties
  <1>4. tail' = chain[2] /\ tail' \in Nodes
    BY <1>1, <1>2 DEF Chain, Links, TypeOK
  <1>5. Chain'
    <2>1. \A i, j \in 1..Len(chain') : chain'[i] = chain'[j] => i = j
      <3> TAKE i, j \in 1..Len(chain')
      <3>1. i + 1 \in 1..Len(chain) /\ j + 1 \in 1..Len(chain)
        BY <1>1, <1>2, <1>3
      <3>2. chain'[i] = chain[i + 1] /\ chain'[j] = chain[j + 1]
        BY <1>3
      <3>3. QED
        BY <3>1, <3>2 DEF Chain
    <2>2. 1 \in 1..Len(chain') /\ Len(chain') \in 1..Len(chain')
      BY <1>1, <1>2, <1>3
    <2>3. chain'[1] = chain[1 + 1] /\ chain'[Len(chain')] = chain[Len(chain') + 1]
      BY <1>3, <2>2
    <2>4. chain' # <<>>
      BY <1>2, <1>3
    <2>5. Len(chain') + 1 = Len(chain) /\ 1 + 1 = 2
      BY <1>1, <1>3
    <2>6. chain'[1] = tail' /\ chain'[Len(chain')] = head'
      BY <1>4, <2>3, <2>5 DEF Chain
    <2>7. QED
      BY <2>1, <2>4, <2>6 DEF Chain
  <1>6. Links'
    BY <1>1, <1>2, <1>3 DEF Links
  <1>7. \A i \in 1..Len(chain') : chain'[i] # tail
    BY <1>1, <1>2, <1>3 DEF Chain
  <1>8. ASSUME NEW n, NEW m, Pending(chain, link, n, m)
        PROVE  Pending(chain', link', n, m)
    <2>1. PICK i \in 1..(Len(chain) - 1) : n = chain[i] /\ m = chain[i + 1] /\ link[n] = Null
      BY <1>8 DEF Pending
    <2>2. i # 1
      BY <2>1 DEF Chain
    <2>3. i - 1 \in 1..(Len(chain') - 1) /\ n = chain'[i - 1] /\ m = chain'[(i - 1) + 1]
      BY <1>1, <1>2, <1>3, <2>1, <2>2
    <2>4. \E j \in 1..(Len(chain') - 1) : n = chain'[j] /\ m = chain'[j + 1]
      BY <2>3
    <2>5. QED
      BY <2>1, <2>4 DEF Pending
  <1>9. QED
    BY <1>2, <1>3, <1>4, <1>5, <1>6, <1>7, <1>8

\* The dummy is passed; the packets of the chain remain.
LEMMA SkipDummyInv == QueueInv /\ Dequeue_SkipDummy => QueueInv'
  <1> SUFFICES ASSUME QueueInv, Dequeue_SkipDummy PROVE QueueInv'
    OBVIOUS
  <1> USE DEF Dequeue_SkipDummy, QueueInv, producerVars
  <1>1. /\ tail' \in Nodes /\ chain' \in Seq(Nodes) /\ Chain' /\ Links'
        /\ Len(chain) > 1 /\ Len(chain') = Len(chain) - 1
        /\ \A i \in 1..Len(chain') : chain'[i] = chain[i + 1] /\ chain'[i] # tail
        /\ \A n, m : Pending(chain, link, n, m) => Pending(chain', link', n, m)
    BY Advance
  <1>2. TypeOK'
    BY <1>1 DEF TypeOK
  <1>3. Linkers'
    BY <1>1 DEF Linkers
  <1>4. ASSUME NEW v \in Packets
        PROVE  (\E i \in 1..Len(chain) : chain[i] = v) <=> (\E i \in 1..Len(chain') : chain'[i] = v)
    <2>1. v # chain[1]
      BY QueueAssumption DEF Chain
    <2>2. ASSUME NEW i \in 1..Len(chain), chain[i] = v
          PROVE  i - 1 \in 1..Len(chain') /\ chain'[i - 1] = v
      BY <1>1, <2>1, <2>2 DEF TypeOK
    <2>3. ASSUME NEW i \in 1..Len(chain'), chain'[i] = v
          PROVE  i + 1 \in 1..Len(chain) /\ chain[i + 1] = v
      BY <1>1, <2>3 DEF TypeOK
    <2>4. QED
      BY <2>2, <2>3
  <1>5. Memory'
    BY <1>4 DEF Memory
  <1>6. DummyOnce'
    BY <1>1 DEF DummyOnce
  <1>7. QED
    BY <1>1, <1>2, <1>3, <1>5, <1>6

\* A packet is passed and becomes the result.
LEMMA TakeInv ==
    ASSUME QueueInv, Take, tail # Dummy, cpc \in {"idle", "next", "again"},
           UNCHANGED <<head, link, producerVars, dummyPrev, alive>>
    PROVE  QueueInv'
  <1> USE DEF Take, QueueInv, producerVars
  <1>1. /\ tail' \in Nodes /\ chain' \in Seq(Nodes) /\ Chain' /\ Links'
        /\ Len(chain) > 1 /\ Len(chain') = Len(chain) - 1
        /\ \A i \in 1..Len(chain') : chain'[i] = chain[i + 1] /\ chain'[i] # tail
        /\ \A n, m : Pending(chain, link, n, m) => Pending(chain', link', n, m)
    BY Advance
  <1>2. tail \in Packets /\ result = Null
    BY DEF TypeOK, Nodes, Memory
  <1>3. TypeOK'
    BY <1>1, <1>2 DEF TypeOK
  <1>4. Linkers'
    BY <1>1 DEF Linkers
  <1>5. ASSUME NEW v \in Packets
        PROVE  (\E i \in 1..Len(chain') : chain'[i] = v) <=> (v # tail /\ \E i \in 1..Len(chain) : chain[i] = v)
    <2>1. ASSUME NEW i \in 1..Len(chain), chain[i] = v, v # tail
          PROVE  i - 1 \in 1..Len(chain') /\ chain'[i - 1] = v
      BY <1>1, <2>1 DEF TypeOK, Chain
    <2>2. ASSUME NEW i \in 1..Len(chain'), chain'[i] = v
          PROVE  i + 1 \in 1..Len(chain) /\ chain[i + 1] = v /\ v # tail
      BY <1>1, <2>2 DEF TypeOK
    <2>3. QED
      BY <2>1, <2>2
  <1>6. tail \in alive
    BY <1>1, <1>2 DEF Memory, Chain
  <1>7. Memory'
    BY <1>2, <1>5, <1>6, QueueAssumption DEF Memory
  <1>8. DummyOnce'
    BY DEF DummyOnce
  <1>9. QED
    BY <1>1, <1>3, <1>4, <1>7, <1>8

\* Every step of a producer or the consumer keeps the invariant.
LEMMA QueueNext == QueueInv /\ [Next]_vars => QueueInv'
  <1> SUFFICES ASSUME QueueInv, [Next]_vars PROVE QueueInv'
    OBVIOUS
  <1> USE DEF QueueInv, producerVars
  <1>1. CASE Dequeue_Next
    <2>1. CASE Take
      BY <1>1, <2>1, TakeInv, QueueAssumption DEF Dequeue_Next, DummyOnce, Chain, TypeOK
    <2>2. CASE link[tail] = Null /\ cpc' = "head" /\ UNCHANGED <<result, tail, chain>>
      BY <1>1, <2>2 DEF Dequeue_Next, TypeOK, Chain, Links, Linkers, Memory, DummyOnce
    <2>3. QED
      BY <1>1, <2>1, <2>2 DEF Dequeue_Next
  <1>2. CASE Dequeue_Head
    BY <1>2 DEF Dequeue_Head, TypeOK, Chain, Links, Linkers, Memory, DummyOnce
  <1>3. CASE Dequeue_Again
    <2>1. CASE Take
      BY <1>3, <2>1, TakeInv DEF Dequeue_Again, DummyOnce
    <2>2. CASE link[tail] = Null /\ cpc' = "idle" /\ UNCHANGED <<result, tail, chain>>
      BY <1>3, <2>2 DEF Dequeue_Again, TypeOK, Chain, Links, Linkers, Memory, DummyOnce
    <2>3. QED
      BY <1>3, <2>1, <2>2 DEF Dequeue_Again
  <1>4. CASE Delete
    BY <1>4, QueueAssumption DEF Delete, TypeOK, Chain, Links, Linkers, Memory, DummyOnce
  <1>5. CASE UNCHANGED vars
    BY <1>5 DEF vars, TypeOK, Chain, Links, Linkers, Memory, DummyOnce
  <1>6. QED
    BY <1>1, <1>2, <1>3, <1>4, <1>5, ExchangeInv, LinkInv, DummyLinkInv, DummyExchangeInv,
       SkipDummyInv DEF Next, Consumer

\* The invariant of MPSCQueue holds in every state.
LEMMA QueueInvariant == Spec => []QueueInv
  BY QueueInit, QueueNext, PTL DEF Spec

-----------------------------------------------------------------------------
(* contents: the chain without the dummy                                   *)

\* Without a dummy there is nothing to remove.
LEMMA WithoutDummy ==
    ASSUME NEW s \in Seq(Nodes), \A i \in 1..Len(s) : s[i] # Dummy
    PROVE  RemoveFirst(s, Dummy) = s
  BY DEF RemoveFirst

\* The only dummy is the one removed.
LEMMA WithDummy ==
    ASSUME NEW s \in Seq(Nodes), NEW d \in 1..Len(s), s[d] = Dummy,
           \A i \in 1..Len(s) : s[i] = Dummy => i = d
    PROVE  RemoveFirst(s, Dummy) = RemoveAt(s, d)
  <1>1. {i \in 1..Len(s) : s[i] = Dummy} = {d}
    OBVIOUS
  <1>2. Min({d}) = d
    BY DEF Min
  <1>3. SelectInSeq(s, LAMBDA v : v = Dummy) = d
    BY <1>1, <1>2 DEF SelectInSeq
  <1>4. QED
    BY <1>3 DEF RemoveFirst

\* RemoveAt moves what is behind the node by one.
LEMMA Removed ==
    ASSUME NEW s \in Seq(Nodes), NEW d \in 1..Len(s)
    PROVE  /\ RemoveAt(s, d) \in Seq(Nodes) /\ Len(RemoveAt(s, d)) = Len(s) - 1
           /\ \A i \in 1..(Len(s) - 1) : RemoveAt(s, d)[i] = IF i < d THEN s[i] ELSE s[i + 1]
  <1> DEFINE before == SubSeq(s, 1, d - 1)
             after == SubSeq(s, d + 1, Len(s))
  <1>1. /\ before \in Seq(Nodes) /\ Len(before) = d - 1
        /\ \A i \in 1..(d - 1) : before[i] = s[i]
    OBVIOUS
  <1>2. /\ after \in Seq(Nodes) /\ Len(after) = Len(s) - d
        /\ \A i \in 1..(Len(s) - d) : after[i] = s[d + i]
    OBVIOUS
  <1>3. RemoveAt(s, d) = before \o after
    BY DEF RemoveAt
  <1> HIDE DEF before, after
  <1>4. /\ before \o after \in Seq(Nodes) /\ Len(before \o after) = Len(s) - 1
        /\ \A i \in 1..(Len(s) - 1) :
              (before \o after)[i] = IF i <= Len(before) THEN before[i] ELSE after[i - Len(before)]
    BY <1>1, <1>2, ConcatProperties
  <1>5. \A i \in 1..(Len(s) - 1) : i >= d => after[i - (d - 1)] = s[i + 1]
    BY <1>2
  <1>6. QED
    BY <1>1, <1>3, <1>4, <1>5

\* The dummy is in s once or not at all.
AtMostOnce(s) == \A i, j \in 1..Len(s) : s[i] = Dummy /\ s[j] = Dummy => i = j

\* A packet appended to the chain is appended to its contents.
LEMMA RemoveAppend ==
    ASSUME NEW s \in Seq(Nodes), AtMostOnce(s), NEW v \in Packets
    PROVE  RemoveFirst(Append(s, v), Dummy) = Append(RemoveFirst(s, Dummy), v)
  <1>1. v \in Nodes /\ v # Dummy
    BY QueueAssumption DEF Nodes
  <1>2. /\ Append(s, v) \in Seq(Nodes) /\ Len(Append(s, v)) = Len(s) + 1
        /\ \A i \in 1..Len(s) : Append(s, v)[i] = s[i]
        /\ Append(s, v)[Len(s) + 1] = v
    BY <1>1, AppendProperties
  <1>3. CASE \A i \in 1..Len(s) : s[i] # Dummy
    <2>1. \A i \in 1..Len(Append(s, v)) : Append(s, v)[i] # Dummy
      BY <1>1, <1>2, <1>3
    <2>2. QED
      BY <1>2, <1>3, <2>1, WithoutDummy
  <1>4. ASSUME NEW d \in 1..Len(s), s[d] = Dummy
        PROVE  RemoveFirst(Append(s, v), Dummy) = Append(RemoveFirst(s, Dummy), v)
    <2>1. RemoveFirst(s, Dummy) = RemoveAt(s, d)
      BY <1>4, WithDummy DEF AtMostOnce
    <2>2. RemoveFirst(Append(s, v), Dummy) = RemoveAt(Append(s, v), d)
      <3>1. d \in 1..Len(Append(s, v)) /\ Append(s, v)[d] = Dummy
        BY <1>2, <1>4
      <3>2. \A i \in 1..Len(Append(s, v)) : Append(s, v)[i] = Dummy => i = d
        BY <1>1, <1>2, <1>4 DEF AtMostOnce
      <3>3. QED
        BY <1>2, <3>1, <3>2, WithDummy
    <2> DEFINE x == RemoveAt(Append(s, v), d)
               y == RemoveAt(s, d)
    <2>3. /\ y \in Seq(Nodes) /\ Len(y) = Len(s) - 1
          /\ \A i \in 1..(Len(s) - 1) : y[i] = IF i < d THEN s[i] ELSE s[i + 1]
      BY <1>4, Removed
    <2>4. /\ x \in Seq(Nodes) /\ Len(x) = Len(s)
          /\ \A i \in 1..Len(s) : x[i] = IF i < d THEN Append(s, v)[i] ELSE Append(s, v)[i + 1]
      <3>1. d \in 1..Len(Append(s, v)) /\ Len(Append(s, v)) - 1 = Len(s)
        BY <1>2, <1>4
      <3>2. QED
        BY <1>2, <3>1, Removed
    <2> HIDE DEF x, y
    <2>5. /\ Append(y, v) \in Seq(Nodes) /\ Len(Append(y, v)) = Len(s)
          /\ \A i \in 1..(Len(s) - 1) : Append(y, v)[i] = y[i]
          /\ Append(y, v)[Len(s)] = v
      BY <1>1, <2>3, AppendProperties
    <2>6. \A i \in 1..Len(s) : x[i] = Append(y, v)[i]
      <3> TAKE i \in 1..Len(s)
      <3>1. CASE i = Len(s)
        BY <1>2, <1>4, <2>4, <2>5, <3>1
      <3>2. CASE i < Len(s)
        <4>1. i \in 1..(Len(s) - 1) /\ i + 1 \in 1..Len(s)
          BY <3>2
        <4>2. Append(s, v)[i] = s[i] /\ Append(s, v)[i + 1] = s[i + 1]
          BY <1>2, <4>1
        <4>3. x[i] = y[i]
          BY <2>3, <2>4, <4>1, <4>2
        <4>4. QED
          BY <2>5, <4>1, <4>3
      <3>3. i = Len(s) \/ i < Len(s)
        OBVIOUS
      <3>4. QED
        BY <3>1, <3>2, <3>3
    <2>7. x = Append(y, v)
      BY <2>4, <2>5, <2>6, SeqEqual
    <2>8. QED
      BY <2>1, <2>2, <2>7 DEF x, y
  <1>5. QED
    BY <1>3, <1>4

\* A packet at the tail is the first of the contents.
LEMMA RemoveTail ==
    ASSUME NEW s \in Seq(Nodes), AtMostOnce(s), s # <<>>, s[1] # Dummy
    PROVE  /\ RemoveFirst(s, Dummy) # <<>> /\ Head(RemoveFirst(s, Dummy)) = s[1]
           /\ RemoveFirst(Tail(s), Dummy) = Tail(RemoveFirst(s, Dummy))
  <1>1. /\ Tail(s) \in Seq(Nodes) /\ Len(Tail(s)) = Len(s) - 1
        /\ \A i \in 1..(Len(s) - 1) : Tail(s)[i] = s[i + 1]
    BY HeadTailProperties
  <1>2. CASE \A i \in 1..Len(s) : s[i] # Dummy
    <2>1. \A i \in 1..Len(Tail(s)) : Tail(s)[i] # Dummy
      BY <1>1, <1>2
    <2>2. RemoveFirst(s, Dummy) = s /\ RemoveFirst(Tail(s), Dummy) = Tail(s)
      BY <1>1, <1>2, <2>1, WithoutDummy
    <2>3. QED
      BY <2>2
  <1>3. ASSUME NEW d \in 1..Len(s), s[d] = Dummy
        PROVE  /\ RemoveFirst(s, Dummy) # <<>> /\ Head(RemoveFirst(s, Dummy)) = s[1]
               /\ RemoveFirst(Tail(s), Dummy) = Tail(RemoveFirst(s, Dummy))
    <2> DEFINE x == RemoveAt(Tail(s), d - 1)
               y == RemoveAt(s, d)
    <2>1. d > 1
      BY <1>3
    <2>2. d - 1 \in 1..Len(Tail(s)) /\ Tail(s)[d - 1] = Dummy
      BY <1>1, <1>3, <2>1
    <2>3. \A i \in 1..Len(Tail(s)) : Tail(s)[i] = Dummy => i = d - 1
      <3> SUFFICES ASSUME NEW i \in 1..Len(Tail(s)), Tail(s)[i] = Dummy PROVE i + 1 = d
        BY <1>3
      <3>1. i + 1 \in 1..Len(s) /\ s[i + 1] = Dummy
        BY <1>1
      <3>2. QED
        BY <1>3, <3>1 DEF AtMostOnce
    <2>4. RemoveFirst(Tail(s), Dummy) = x
      BY <1>1, <2>2, <2>3, WithDummy
    <2>5. RemoveFirst(s, Dummy) = y
      BY <1>3, WithDummy DEF AtMostOnce
    <2>6. /\ y \in Seq(Nodes) /\ Len(y) = Len(s) - 1
          /\ \A i \in 1..(Len(s) - 1) : y[i] = IF i < d THEN s[i] ELSE s[i + 1]
      BY <1>3, Removed
    <2>7. /\ x \in Seq(Nodes) /\ Len(x) = Len(s) - 2
          /\ \A i \in 1..(Len(s) - 2) : x[i] = IF i < d - 1 THEN Tail(s)[i] ELSE Tail(s)[i + 1]
      <3>1. Len(Tail(s)) - 1 = Len(s) - 2
        BY <1>1
      <3>2. QED
        BY <1>1, <2>2, <3>1, Removed
    <2> HIDE DEF x, y
    <2>8. y # <<>> /\ Head(y) = s[1]
      BY <1>3, <2>1, <2>6
    <2>9. /\ Tail(y) \in Seq(Nodes) /\ Len(Tail(y)) = Len(s) - 2
          /\ \A i \in 1..(Len(s) - 2) : Tail(y)[i] = y[i + 1]
      BY <2>6, <2>8, HeadTailProperties
    <2>10. \A i \in 1..(Len(s) - 2) : x[i] = Tail(y)[i]
      BY <1>1, <1>3, <2>6, <2>7, <2>9
    <2>11. x = Tail(y)
      BY <2>7, <2>9, <2>10, SeqEqual
    <2>12. QED
      BY <2>4, <2>5, <2>8, <2>11
  <1>4. QED
    BY <1>2, <1>3

\* Skipping the dummy at the tail changes no contents.
LEMMA RemoveFirstNode ==
    ASSUME NEW s \in Seq(Nodes), AtMostOnce(s), s # <<>>, s[1] = Dummy
    PROVE  RemoveFirst(s, Dummy) = Tail(s) /\ RemoveFirst(Tail(s), Dummy) = Tail(s)
  <1>1. /\ Tail(s) \in Seq(Nodes) /\ Len(Tail(s)) = Len(s) - 1
        /\ \A i \in 1..(Len(s) - 1) : Tail(s)[i] = s[i + 1]
    BY HeadTailProperties
  <1>2. 1 \in 1..Len(s)
    OBVIOUS
  <1>3. RemoveFirst(s, Dummy) = RemoveAt(s, 1)
    BY <1>2, WithDummy DEF AtMostOnce
  <1>4. /\ RemoveAt(s, 1) \in Seq(Nodes) /\ Len(RemoveAt(s, 1)) = Len(s) - 1
        /\ \A i \in 1..(Len(s) - 1) : RemoveAt(s, 1)[i] = IF i < 1 THEN s[i] ELSE s[i + 1]
    BY <1>2, Removed
  <1>5. \A i \in 1..(Len(s) - 1) : RemoveAt(s, 1)[i] = Tail(s)[i]
    BY <1>1, <1>4
  <1>6. RemoveAt(s, 1) = Tail(s)
    BY <1>1, <1>4, <1>5, SeqEqual
  <1>7. \A i \in 1..Len(Tail(s)) : Tail(s)[i] # Dummy
    <2> SUFFICES ASSUME NEW i \in 1..Len(Tail(s)) PROVE Tail(s)[i] # Dummy
      OBVIOUS
    <2>1. i + 1 \in 1..Len(s) /\ Tail(s)[i] = s[i + 1] /\ i + 1 # 1
      BY <1>1
    <2>2. QED
      BY <1>2, <2>1 DEF AtMostOnce
  <1>8. QED
    BY <1>1, <1>3, <1>6, <1>7, WithoutDummy

\* Nor does appending the dummy.
LEMMA RemoveLastNode ==
    ASSUME NEW s \in Seq(Nodes), \A i \in 1..Len(s) : s[i] # Dummy
    PROVE  RemoveFirst(Append(s, Dummy), Dummy) = s
  <1> DEFINE t == Append(s, Dummy)
             d == Len(s) + 1
  <1>1. /\ t \in Seq(Nodes) /\ Len(t) = d /\ d \in 1..Len(t) /\ t[d] = Dummy
        /\ \A i \in 1..Len(s) : t[i] = s[i]
    BY AppendProperties DEF Nodes
  <1>2. \A i \in 1..Len(t) : t[i] = Dummy => i = d
    BY <1>1
  <1>3. Len(t) - 1 = Len(s) /\ \A i \in 1..Len(s) : i < d
    BY <1>1
  <1> HIDE DEF t, d
  <1>4. RemoveFirst(t, Dummy) = RemoveAt(t, d)
    BY <1>1, <1>2, WithDummy
  <1>5. /\ RemoveAt(t, d) \in Seq(Nodes) /\ Len(RemoveAt(t, d)) = Len(t) - 1
        /\ \A i \in 1..(Len(t) - 1) : RemoveAt(t, d)[i] = IF i < d THEN t[i] ELSE t[i + 1]
    BY <1>1, Removed
  <1>6. \A i \in 1..Len(s) : RemoveAt(t, d)[i] = s[i]
    BY <1>1, <1>3, <1>5
  <1>7. RemoveAt(t, d) = s
    BY <1>3, <1>5, <1>6, SeqEqual
  <1>8. QED
    BY <1>4, <1>7 DEF t

\* The contents are nodes of the chain.
LEMMA RemoveIncludes ==
    ASSUME NEW s \in Seq(Nodes), AtMostOnce(s)
    PROVE  \A i \in DOMAIN RemoveFirst(s, Dummy) :
               \E j \in 1..Len(s) : RemoveFirst(s, Dummy)[i] = s[j]
  <1>1. CASE \A i \in 1..Len(s) : s[i] # Dummy
    BY <1>1, WithoutDummy
  <1>2. ASSUME NEW d \in 1..Len(s), s[d] = Dummy,
               NEW i \in DOMAIN RemoveFirst(s, Dummy)
        PROVE  \E j \in 1..Len(s) : RemoveFirst(s, Dummy)[i] = s[j]
    <2>1. RemoveFirst(s, Dummy) = RemoveAt(s, d)
      BY <1>2, WithDummy DEF AtMostOnce
    <2>2. /\ RemoveAt(s, d) \in Seq(Nodes) /\ Len(RemoveAt(s, d)) = Len(s) - 1
          /\ \A k \in 1..(Len(s) - 1) : RemoveAt(s, d)[k] = IF k < d THEN s[k] ELSE s[k + 1]
      BY <1>2, Removed
    <2>3. i \in 1..(Len(s) - 1)
      BY <1>2, <2>1, <2>2
    <2>4. i \in 1..Len(s) /\ i + 1 \in 1..Len(s)
      BY <2>3
    <2>5. QED
      BY <2>1, <2>2, <2>3, <2>4
  <1>3. QED
    BY <1>1, <1>2

-----------------------------------------------------------------------------
(* The refinement                                                          *)

\* Every step of MPSCQueue is one of PacketFifo, or changes neither the contents
\* nor the result: Enqueue takes effect with the exchange, Dequeue with the step
\* of _tail.
LEMMA FifoNext == QueueInv /\ QueueInv' /\ [Next]_vars => [Fifo!Next]_(Fifo!vars)
  <1> SUFFICES ASSUME QueueInv, QueueInv', [Next]_vars PROVE [Fifo!Next]_(Fifo!vars)
    OBVIOUS
  <1> USE DEF Fifo!Next, Fifo!vars, contents
  <1>1. chain \in Seq(Nodes) /\ AtMostOnce(chain) /\ chain # <<>>
    BY DEF QueueInv, Chain, TypeOK, AtMostOnce
  <1>2. ASSUME NEW p \in Producers, NEW v \in Packets, Enqueue_Exchange(p, v)
        PROVE  Fifo!Enqueue(v)
    <2>1. contents' = Append(contents, v)
      BY <1>1, <1>2, RemoveAppend DEF Enqueue_Exchange
    <2>2. \A i \in DOMAIN contents : contents[i] # v
      <3>1. \A j \in 1..Len(chain) : chain[j] # v
        BY <1>2 DEF Enqueue_Exchange, QueueInv, Memory
      <3>2. QED
        BY <1>1, <3>1, RemoveIncludes
    <2>3. QED
      BY <1>2, <2>1, <2>2 DEF Enqueue_Exchange, Fifo!Enqueue
  <1>3. ASSUME Take, tail # Dummy
        PROVE  Fifo!Dequeue
    BY <1>1, <1>3, RemoveTail DEF Take, Fifo!Dequeue, QueueInv, Chain
  <1>4. CASE Dequeue_SkipDummy
    BY <1>1, <1>4, RemoveFirstNode DEF Dequeue_SkipDummy, QueueInv, Chain
  <1>5. CASE Dequeue_DummyExchange
    BY <1>1, <1>5, RemoveLastNode, WithoutDummy DEF Dequeue_DummyExchange, QueueInv, DummyOnce
  <1>6. CASE Delete
    BY <1>6 DEF Delete, Fifo!Release
  <1>7. ASSUME NEW p \in Producers, Enqueue_Link(p)
        PROVE  UNCHANGED <<contents, result>>
    BY <1>7 DEF Enqueue_Link
  <1>8. CASE Dequeue_Next
    <2>1. CASE Take
      <3>1. tail # Dummy
        BY <1>1, <1>8 DEF Dequeue_Next, QueueInv, DummyOnce, Chain
      <3>2. QED
        BY <1>3, <2>1, <3>1
    <2>2. CASE UNCHANGED <<result, tail, chain>>
      BY <2>2
    <2>3. QED
      BY <1>8, <2>1, <2>2 DEF Dequeue_Next
  <1>9. CASE Dequeue_Again
    BY <1>3, <1>9 DEF Dequeue_Again, QueueInv, DummyOnce
  <1>10. CASE Dequeue_Head \/ Dequeue_DummyLink \/ UNCHANGED vars
    BY <1>10 DEF Dequeue_Head, Dequeue_DummyLink, vars
  <1>11. QED
    BY <1>2, <1>4, <1>5, <1>6, <1>7, <1>8, <1>9, <1>10 DEF Next, Consumer

\* A new queue is empty.
LEMMA FifoInit == Init => Fifo!Init
  <1> SUFFICES ASSUME Init PROVE Fifo!Init
    OBVIOUS
  <1>1. chain = <<Dummy>> /\ chain \in Seq(Nodes)
    BY DEF Init, Nodes
  <1>2. AtMostOnce(chain) /\ chain # <<>> /\ chain[1] = Dummy
    BY <1>1 DEF AtMostOnce
  <1>3. contents = Tail(chain)
    BY <1>1, <1>2, RemoveFirstNode DEF contents
  <1>4. QED
    BY <1>1, <1>3 DEF Init, Fifo!Init

\* MPSCQueueIntrusive is a first-in first-out queue, for any number of producers
\* that are stopped between exchange and store for any time.
THEOREM Refinement == Spec => ImplementsFifo
  BY FifoInit, FifoNext, QueueInvariant, PTL DEF Spec, ImplementsFifo, Fifo!Spec

\* The state of MPSCQueue keeps its type.
THEOREM QueueTypes == Spec => []TypeOK
  <1>1. QueueInv => TypeOK
    BY DEF QueueInv
  <1>2. QED
    BY <1>1, QueueInvariant, PTL

\* No producer, and neither _head nor _tail, refers to a packet that the consumer
\* has deleted, although addresses are used again.
THEOREM MemorySafe == Spec => []NoUseAfterDelete
  <1>1. ASSUME QueueInv PROVE NoUseAfterDelete
    <2>1. \A i \in 1..Len(chain) : chain[i] \in alive \cup {Dummy}
      BY <1>1 DEF QueueInv, TypeOK, Memory, Nodes
    <2>2. 1 \in 1..Len(chain) /\ Len(chain) \in 1..Len(chain)
      BY <1>1 DEF QueueInv, TypeOK, Chain
    <2>3. {head, tail} \subseteq alive \cup {Dummy}
      BY <1>1, <2>1, <2>2 DEF QueueInv, Chain
    <2>4. \A n, m : Pending(chain, link, n, m) => n \in alive \cup {Dummy}
      BY <1>1, <2>1 DEF QueueInv, TypeOK, Pending
    <2>5. cpc = "dummylink" => dummyPrev # Dummy
      <3> SUFFICES ASSUME cpc = "dummylink" PROVE dummyPrev # Dummy
        OBVIOUS
      <3>1. PICK i \in 1..(Len(chain) - 1) : dummyPrev = chain[i] /\ Dummy = chain[i + 1]
        BY <1>1 DEF QueueInv, Linkers, Pending
      <3>2. QED
        BY <1>1, <3>1 DEF QueueInv, TypeOK, Chain
    <2>6. QED
      BY <1>1, <2>3, <2>4, <2>5 DEF QueueInv, Linkers, NoUseAfterDelete
  <1>2. QED
    BY <1>1, QueueInvariant, PTL
-----------------------------------------------------------------------------
(* No hole in the chain                                                    *)

\* Two neighbours that are not linked yet have a thread that will link them;
\* Linkers says the converse.
NoneForgotten == \A n, m \in Nodes : Pending(chain, link, n, m) => Linking(n, m)

\* The exchange of a producer opens one hole, which the producer will close.
LEMMA ExchangeCloses ==
    ASSUME NEW p \in Producers, NEW v \in Packets, QueueInv, NoneForgotten,
           Enqueue_Exchange(p, v)
    PROVE  NoneForgotten'
  <1> SUFFICES ASSUME NEW n \in Nodes, NEW m \in Nodes, Pending(chain', link', n, m)
               PROVE  Linking(n, m)'
    BY DEF NoneForgotten
  <1> USE DEF Enqueue_Exchange, QueueInv
  <1>1. PICK i \in 1..(Len(chain') - 1) : n = chain'[i] /\ m = chain'[i + 1] /\ link'[n] = Null
    BY DEF Pending
  <1>2. /\ chain \in Seq(Nodes) /\ Len(chain) > 0 /\ Len(chain') = Len(chain) + 1
        /\ \A k \in 1..Len(chain) : chain'[k] = chain[k]
        /\ chain'[Len(chain) + 1] = v
    BY DEF TypeOK, Chain, Nodes
  <1>3. CASE i = Len(chain)
    <2>1. n = head /\ m = v
      BY <1>1, <1>2, <1>3 DEF Chain
    <2>2. ppc'[p] = "link" /\ prevHead'[p] = head /\ item'[p] = v
      BY DEF TypeOK
    <2>3. QED
      BY <2>1, <2>2 DEF Linking
  <1>4. CASE i # Len(chain)
    <2>1. i \in 1..(Len(chain) - 1) /\ n = chain[i] /\ m = chain[i + 1]
      BY <1>1, <1>2, <1>4
    <2>2. \A k \in 1..Len(chain) : chain[k] # v
      BY QueueAssumption DEF Memory
    <2>3. n # v
      BY <1>2, <2>1, <2>2
    <2>4. link[n] = Null
      BY <1>1, <2>3 DEF TypeOK
    <2>5. Linking(n, m)
      BY <2>1, <2>4 DEF Pending, NoneForgotten
    <2>6. \A q \in Producers : ppc[q] = "link" =>
              ppc'[q] = "link" /\ prevHead'[q] = prevHead[q] /\ item'[q] = item[q]
      BY DEF TypeOK
    <2>7. QED
      BY <2>5, <2>6 DEF Linking
  <1>5. QED
    BY <1>3, <1>4

\* So does the exchange of the consumer, with the dummy.
LEMMA DummyExchangeCloses ==
    ASSUME QueueInv, NoneForgotten, Dequeue_DummyExchange
    PROVE  NoneForgotten'
  <1> SUFFICES ASSUME NEW n \in Nodes, NEW m \in Nodes, Pending(chain', link', n, m)
               PROVE  Linking(n, m)'
    BY DEF NoneForgotten
  <1> USE DEF Dequeue_DummyExchange, QueueInv, producerVars
  <1>1. PICK i \in 1..(Len(chain') - 1) : n = chain'[i] /\ m = chain'[i + 1] /\ link'[n] = Null
    BY DEF Pending
  <1>2. /\ chain \in Seq(Nodes) /\ Len(chain) > 0 /\ Len(chain') = Len(chain) + 1
        /\ \A k \in 1..Len(chain) : chain'[k] = chain[k]
        /\ chain'[Len(chain) + 1] = Dummy
    BY DEF TypeOK, Chain, Nodes
  <1>3. CASE i = Len(chain)
    BY <1>1, <1>2, <1>3 DEF Chain, Linking
  <1>4. CASE i # Len(chain)
    <2>1. i \in 1..(Len(chain) - 1) /\ n = chain[i] /\ m = chain[i + 1]
      BY <1>1, <1>2, <1>4
    <2>2. n # Dummy
      BY <1>2, <2>1 DEF DummyOnce
    <2>3. link[n] = Null
      BY <1>1, <2>2 DEF TypeOK
    <2>4. Linking(n, m)
      BY <2>1, <2>3 DEF Pending, NoneForgotten
    <2>5. QED
      BY <2>4 DEF Linking
  <1>5. QED
    BY <1>3, <1>4

\* A stored link closes one hole and no other.
LEMMA LinkedCloses ==
    ASSUME QueueInv, NoneForgotten, NEW k, NEW l, Pending(chain, link, k, l),
           link' = [link EXCEPT ![k] = l], chain' = chain,
           NEW n \in Nodes, NEW m \in Nodes, Pending(chain', link', n, m)
    PROVE  n # k /\ Linking(n, m)
  <1> USE DEF QueueInv
  <1>1. PICK i \in 1..(Len(chain) - 1) : k = chain[i] /\ l = chain[i + 1]
    BY DEF Pending
  <1>2. k \in Nodes /\ l \in Nodes
    BY <1>1 DEF TypeOK
  <1>3. n # k
    BY <1>2, QueueAssumption DEF Pending, TypeOK, Nodes
  <1>4. Pending(chain, link, n, m)
    BY <1>3 DEF Pending, TypeOK
  <1>5. QED
    BY <1>3, <1>4 DEF NoneForgotten

\* Passing the tail opens no hole.
LEMMA AdvanceCloses ==
    ASSUME QueueInv, link[tail] # Null, tail' = link[tail], chain' = Tail(chain),
           UNCHANGED <<head, link>>, NEW n, NEW m, Pending(chain', link', n, m)
    PROVE  Pending(chain, link, n, m)
  <1>1. PICK i \in 1..(Len(chain') - 1) : n = chain'[i] /\ m = chain'[i + 1] /\ link'[n] = Null
    BY DEF Pending
  <1>2. /\ Len(chain) > 1 /\ Len(chain') = Len(chain) - 1
        /\ \A j \in 1..Len(chain') : chain'[j] = chain[j + 1]
    BY Advance
  <1>3. chain \in Seq(Nodes)
    BY DEF QueueInv, TypeOK
  <1>4. i + 1 \in 1..(Len(chain) - 1) /\ n = chain[i + 1] /\ m = chain[(i + 1) + 1]
    BY <1>1, <1>2, <1>3
  <1>5. \E j \in 1..(Len(chain) - 1) : n = chain[j] /\ m = chain[j + 1]
    BY <1>4
  <1>6. QED
    BY <1>1, <1>5 DEF Pending

\* No step leaves a hole that nobody will close.
LEMMA ForgottenNext == QueueInv /\ NoneForgotten /\ [Next]_vars => NoneForgotten'
  <1> SUFFICES ASSUME QueueInv, NoneForgotten, [Next]_vars PROVE NoneForgotten'
    OBVIOUS
  <1>1. ASSUME NEW p \in Producers, Enqueue_Link(p) PROVE NoneForgotten'
    <2> SUFFICES ASSUME NEW n \in Nodes, NEW m \in Nodes, Pending(chain', link', n, m)
                 PROVE  Linking(n, m)'
      BY DEF NoneForgotten
    <2>1. Pending(chain, link, prevHead[p], item[p])
      BY <1>1 DEF Enqueue_Link, QueueInv, Linkers
    <2>2. n # prevHead[p] /\ Linking(n, m)
      BY <1>1, <2>1, LinkedCloses DEF Enqueue_Link
    <2>3. \A q \in Producers : q # p =>
              ppc'[q] = ppc[q] /\ prevHead'[q] = prevHead[q] /\ item'[q] = item[q]
      BY <1>1 DEF Enqueue_Link, QueueInv, TypeOK
    <2>4. QED
      BY <1>1, <2>2, <2>3 DEF Linking, Enqueue_Link
  <1>2. CASE Dequeue_DummyLink
    <2> SUFFICES ASSUME NEW n \in Nodes, NEW m \in Nodes, Pending(chain', link', n, m)
                 PROVE  Linking(n, m)'
      BY DEF NoneForgotten
    <2>1. Pending(chain, link, dummyPrev, Dummy)
      BY <1>2 DEF Dequeue_DummyLink, QueueInv, Linkers
    <2>2. n # dummyPrev /\ Linking(n, m)
      BY <1>2, <2>1, LinkedCloses DEF Dequeue_DummyLink
    <2>3. QED
      BY <1>2, <2>2 DEF Linking, Dequeue_DummyLink, producerVars
  <1>3. CASE Dequeue_SkipDummy \/ (Take /\ (Dequeue_Next \/ Dequeue_Again))
    <2> SUFFICES ASSUME NEW n \in Nodes, NEW m \in Nodes, Pending(chain', link', n, m)
                 PROVE  Linking(n, m)'
      BY DEF NoneForgotten
    <2>1. /\ link[tail] # Null /\ tail' = link[tail] /\ chain' = Tail(chain)
          /\ UNCHANGED <<head, link, producerVars, dummyPrev>> /\ cpc # "dummylink"
      BY <1>3 DEF Dequeue_SkipDummy, Take, Dequeue_Next, Dequeue_Again
    <2>2. Linking(n, m)
      BY <2>1, AdvanceCloses DEF NoneForgotten
    <2>3. QED
      BY <2>1, <2>2 DEF Linking, producerVars
  <1>4. ASSUME UNCHANGED <<chain, link, producerVars, dummyPrev>>, cpc' = cpc \/ cpc # "dummylink"
        PROVE  NoneForgotten'
    BY <1>4 DEF NoneForgotten, Pending, Linking, producerVars
  <1>5. CASE ~Take /\ (Dequeue_Next \/ Dequeue_Again)
    BY <1>4, <1>5 DEF Dequeue_Next, Dequeue_Again
  <1>6. CASE Dequeue_Head \/ Delete \/ UNCHANGED vars
    BY <1>4, <1>6 DEF Dequeue_Head, Delete, vars
  <1>7. QED
    BY <1>1, <1>2, <1>3, <1>5, <1>6, ExchangeCloses, DummyExchangeCloses DEF Next, Consumer

\* However many threads enqueue at once, and wherever they stop, every node from
\* _tail to _head leads to the next one or a thread inside Enqueue is about to
\* link the two: no packet is lost for the consumer.
THEOREM NoHoles == Spec => []NothingCutOff
  <1>1. ASSUME Init PROVE NoneForgotten
    BY <1>1 DEF Init, NoneForgotten, Pending
  <1>2. ASSUME QueueInv, NoneForgotten PROVE NothingCutOff
    <2> SUFFICES ASSUME NEW i \in 1..(Len(chain) - 1), link[chain[i]] # chain[i + 1]
                 PROVE  link[chain[i]] = Null /\ Linking(chain[i], chain[i + 1])
      BY DEF NothingCutOff
    <2>1. link[chain[i]] = Null
      BY <1>2 DEF QueueInv, Links
    <2>2. chain[i] \in Nodes /\ chain[i + 1] \in Nodes
      BY <1>2 DEF QueueInv, TypeOK
    <2>3. Pending(chain, link, chain[i], chain[i + 1])
      BY <2>1 DEF Pending
    <2>4. QED
      BY <1>2, <2>1, <2>2, <2>3 DEF NoneForgotten
  <1>3. Spec => []NoneForgotten
    BY <1>1, ForgottenNext, QueueInvariant, PTL DEF Spec
  <1>4. QED
    BY <1>2, <1>3, QueueInvariant, PTL

=============================================================================
