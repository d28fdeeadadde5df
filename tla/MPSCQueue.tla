------------------------------ MODULE MPSCQueue ------------------------------
(***************************************************************************)
(* MPSCQueueIntrusive of common/Threading/MPSCQueue.h, the lock-free queue *)
(* through which any thread hands packets to the network thread: many      *)
(* producers, one consumer, packets linked through a field of their own    *)
(* and one dummy node.                                                     *)
(*                                                                         *)
(* A step is one access to an atomic that another thread can see.  Stores  *)
(* are release and loads acquire (the exchange is both), so every thread   *)
(* sees a packet's own stores before the link to it, and interleaving the  *)
(* accesses is enough.  The consumer deletes what it gets; the allocator   *)
(* may give the same address to a later packet.                            *)
(***************************************************************************)
EXTENDS Naturals, Sequences, SequencesExt

CONSTANTS
    Producers,      \* threads in Enqueue
    Packets,        \* addresses of packets
    Dummy,          \* _dummyPtr
    Null            \* nullptr, and no packet

ASSUME QueueAssumption == {Dummy, Null} \cap Packets = {} /\ Dummy # Null

Nodes == Packets \cup {Dummy}

VARIABLES
    head, tail,     \* _head and _tail
    link,           \* IntrusiveLink of each node
    ppc,            \* of each producer: where it is in Enqueue
    item, prevHead, \* of each producer: input and prevHead
    cpc,            \* the consumer: where it is in Dequeue
    dummyPrev,      \* the consumer: prevHead of its own Enqueue
    result,         \* the packet the consumer got and has not deleted yet
    alive,          \* the packets that are allocated
    chain           \* history: the nodes from _tail to _head, in the order
                    \* of the exchanges

producerVars == <<ppc, item, prevHead>>
vars == <<head, tail, link, producerVars, cpc, dummyPrev, result, alive, chain>>

TypeOK ==
    /\ head \in Nodes /\ tail \in Nodes
    /\ link \in [Nodes -> Nodes \cup {Null}]
    /\ ppc \in [Producers -> {"idle", "link"}]
    /\ item \in [Producers -> Packets \cup {Null}]
    /\ prevHead \in [Producers -> Nodes \cup {Null}]
    /\ cpc \in {"idle", "next", "head", "dummy", "dummylink", "again", "delete"}
    /\ dummyPrev \in Nodes \cup {Null}
    /\ result \in Packets \cup {Null}
    /\ alive \subseteq Packets
    /\ chain \in Seq(Nodes)

Init ==
    /\ head = Dummy /\ tail = Dummy
    /\ link = [n \in Nodes |-> Null]
    /\ ppc = [p \in Producers |-> "idle"]
    /\ item = [p \in Producers |-> Null]
    /\ prevHead = [p \in Producers |-> Null]
    /\ cpc = "idle" /\ dummyPrev = Null /\ result = Null
    /\ alive = {} /\ chain = <<Dummy>>

-----------------------------------------------------------------------------
(* Enqueue, on any thread                                                  *)

\* A new packet, its link set to nullptr while nobody else knows it, becomes
\* the head.
Enqueue_Exchange(p, v) ==
    /\ ppc[p] = "idle"
    /\ v \notin alive
    /\ alive' = alive \cup {v}
    /\ link' = [link EXCEPT ![v] = Null]
    /\ item' = [item EXCEPT ![p] = v]
    /\ prevHead' = [prevHead EXCEPT ![p] = head]
    /\ head' = v
    /\ chain' = Append(chain, v)
    /\ ppc' = [ppc EXCEPT ![p] = "link"]
    /\ UNCHANGED <<tail, cpc, dummyPrev, result>>

\* Mutant: the link of the packet is reset only after the exchange.
LinkResetLate(p) ==
    /\ ppc[p] = "link"
    /\ link' = [link EXCEPT ![prevHead[p]] = item[p], ![item[p]] = Null]
    /\ ppc' = [ppc EXCEPT ![p] = "idle"]
    /\ item' = [item EXCEPT ![p] = Null]
    /\ prevHead' = [prevHead EXCEPT ![p] = Null]
    /\ UNCHANGED <<head, tail, cpc, dummyPrev, result, alive, chain>>

\* The former head learns its successor.
Enqueue_Link(p) ==
    /\ ppc[p] = "link"
    /\ link' = [link EXCEPT ![prevHead[p]] = item[p]]
    /\ ppc' = [ppc EXCEPT ![p] = "idle"]
    /\ item' = [item EXCEPT ![p] = Null]
    /\ prevHead' = [prevHead EXCEPT ![p] = Null]
    /\ UNCHANGED <<head, tail, cpc, dummyPrev, result, alive, chain>>

-----------------------------------------------------------------------------
(* Dequeue, on the network thread                                          *)

\* The tail is handed out and its successor becomes the tail.
Take ==
    /\ link[tail] # Null
    /\ result' = tail
    /\ tail' = link[tail]
    /\ chain' = Tail(chain)
    /\ cpc' = "delete"

\* The dummy at the tail is skipped; without a successor Dequeue returns
\* false.
Dequeue_SkipDummy ==
    /\ cpc = "idle" /\ tail = Dummy
    /\ link[Dummy] # Null
    /\ tail' = link[Dummy]
    /\ chain' = Tail(chain)
    /\ cpc' = "next"
    /\ UNCHANGED <<head, link, producerVars, dummyPrev, result, alive>>

\* Mutant: the dummy is handed out like a packet.
NextTakesDummy ==
    /\ cpc \in {"next", "idle"}
    /\ \/ Take
       \/ link[tail] = Null /\ cpc' = "head" /\ UNCHANGED <<result, tail, chain>>
    /\ UNCHANGED <<head, link, producerVars, dummyPrev, alive>>

\* A tail with a successor is handed out.
Dequeue_Next ==
    /\ cpc = "next" \/ (cpc = "idle" /\ tail # Dummy)
    /\ \/ Take
       \/ link[tail] = Null /\ cpc' = "head" /\ UNCHANGED <<result, tail, chain>>
    /\ UNCHANGED <<head, link, producerVars, dummyPrev, alive>>

\* Mutant: an unlinked tail that is not the head is handed out all the same.
TakeAhead ==
    /\ cpc = "head"
    /\ IF tail # head
       THEN result' = tail /\ tail' = head /\ chain' = <<head>> /\ cpc' = "delete"
       ELSE cpc' = "dummy" /\ UNCHANGED <<result, tail, chain>>
    /\ UNCHANGED <<head, link, producerVars, dummyPrev, alive>>

\* Mutant: Dequeue returns false when the tail is the only node.
LastNodeStays ==
    /\ cpc = "head"
    /\ cpc' = "idle"
    /\ UNCHANGED <<head, tail, link, producerVars, dummyPrev, result, alive, chain>>

\* No successor yet.  When the tail is not the head a producer is about to
\* link one: false.
Dequeue_Head ==
    /\ cpc = "head"
    /\ cpc' = IF tail # head THEN "idle" ELSE "dummy"
    /\ UNCHANGED <<head, tail, link, producerVars, dummyPrev, result, alive, chain>>

\* The last node cannot be given away while _head refers to it: the dummy is
\* enqueued behind it, with the same two steps as a packet ...
Dequeue_DummyExchange ==
    /\ cpc = "dummy"
    /\ link' = [link EXCEPT ![Dummy] = Null]
    /\ dummyPrev' = head
    /\ head' = Dummy
    /\ chain' = Append(chain, Dummy)
    /\ cpc' = "dummylink"
    /\ UNCHANGED <<tail, producerVars, result, alive>>

Dequeue_DummyLink ==
    /\ cpc = "dummylink"
    /\ link' = [link EXCEPT ![dummyPrev] = Dummy]
    /\ dummyPrev' = Null
    /\ cpc' = "again"
    /\ UNCHANGED <<head, tail, producerVars, result, alive, chain>>

\* ... and the successor looked for once more: there is none when a producer
\* came in between and has not linked yet.
Dequeue_Again ==
    /\ cpc = "again"
    /\ \/ Take
       \/ link[tail] = Null /\ cpc' = "idle" /\ UNCHANGED <<result, tail, chain>>
    /\ UNCHANGED <<head, link, producerVars, dummyPrev, alive>>

\* WorldSocket::Update has copied the packet and deletes it.
Delete ==
    /\ cpc = "delete"
    /\ alive' = alive \ {result}
    /\ result' = Null
    /\ cpc' = "idle"
    /\ UNCHANGED <<head, tail, link, producerVars, dummyPrev, chain>>

-----------------------------------------------------------------------------
Consumer ==
    \/ Dequeue_SkipDummy \/ Dequeue_Next \/ Dequeue_Head \/ Dequeue_DummyExchange
    \/ Dequeue_DummyLink \/ Dequeue_Again \/ Delete

Next ==
    \/ \E p \in Producers : Enqueue_Link(p) \/ \E v \in Packets : Enqueue_Exchange(p, v)
    \/ Consumer

Spec == Init /\ [][Next]_vars

\* A producer inside Enqueue goes on, and the network thread calls Dequeue
\* again in its next update; nobody has to enqueue anything.
FairSpec == Spec /\ WF_vars(Consumer) /\ \A p \in Producers : WF_vars(Enqueue_Link(p))

-----------------------------------------------------------------------------
(* Properties                                                              *)

\* The dummy is in the chain at most once.
contents == RemoveFirst(chain, Dummy)

\* The queue is first-in first-out, in the order of the exchanges, whatever
\* the producers and the dummy do in between.
Fifo == INSTANCE PacketFifo WITH NoPacket <- Null
ImplementsFifo == Fifo!Spec

\* Nobody touches a packet after the consumer deleted it: neither a producer
\* that still has to link the former head, nor _head and _tail themselves.
NoUseAfterDelete ==
    /\ {head, tail} \subseteq alive \cup {Dummy}
    /\ \A p \in Producers : ppc[p] = "link" => prevHead[p] \in alive \cup {Dummy}
    /\ cpc = "dummylink" => dummyPrev \in alive

\* m will be linked behind n by a thread that is between the two steps of its
\* Enqueue.
Linking(n, m) ==
    \/ \E p \in Producers : ppc[p] = "link" /\ prevHead[p] = n /\ item[p] = m
    \/ cpc = "dummylink" /\ dummyPrev = n /\ m = Dummy

\* Nothing is ever cut off: from _tail to _head every node leads to the next, or
\* a thread inside Enqueue is about to link the two.  When Dequeue gives up on a
\* queue that is not empty, it waits for such a thread.
NothingCutOff ==
    \A i \in 1..(Len(chain) - 1) :
        \/ link[chain[i]] = chain[i + 1]
        \/ link[chain[i]] = Null /\ Linking(chain[i], chain[i + 1])

\* Every packet that was enqueued is dequeued, the last one too, although
\* Dequeue may return false while packets are in the queue.
Delivered == \A v \in Packets : v \in Range(contents) ~> v \notin Range(contents)

=============================================================================
