---------------------------- MODULE GProxyLists -----------------------------
(***************************************************************************)
(* GProxy with the linked lists of the two proxies beside the sets that    *)
(* PSender and PReceiver keep in their place: every step that touches a    *)
(* list runs the function of listUtils.c that the code calls, which works  *)
(* on the pointers alone, and ListsAgree compares the two.                 *)
(***************************************************************************)
EXTENDS GProxy, PacketList, Functions

ASSUME NumNodesAssumption == NumNodes \in Nat /\ NumNodes > 0

VARIABLES
    sHeap,   \* psender's memory: its list toSend
    rHeap,   \* preceiver's: toSend and toAck
    visiting \* forEach(toSend, ...) of preceiver: the node it comes to next

listVars == <<sHeap, rHeap, visiting>>

ListsInit ==
    /\ Init
    /\ sHeap = EmptyHeap(Ending)
    /\ rHeap = EmptyHeap(Ending)
    /\ visiting = NULL

-----------------------------------------------------------------------------
(* psender. *)

(* allocNode and appendNode. *)
AppendPacket(h, p) ==
    AppendNode(AllocNode(h, p), ToSendHead, FreshNode(h))

SenderLists ==
    /\ UNCHANGED <<preceiverVars, sourceVars, rHeap, visiting>>
    /\ \/ /\ ReadChunk
          /\ sHeap' = AppendPacket(sHeap,
                                   [id |-> currentId, body |-> nread + 1])
       \/ /\ ReadEnd
          /\ sHeap' = AppendPacket(sHeap, Ending)
       \/ \E m \in netS :
            /\ RecvAck(m)
            /\ sHeap' = DiscardNodeById(sHeap, ToSendHead, m.body, Ending)

-----------------------------------------------------------------------------
(* preceiver. *)

(* RTop goes on to forEach(toSend, ...). *)
StartDeliverLists ==
    /\ RTop
    /\ visiting' = IF rPc' = "deliver" THEN rHeap.next[ToSendHead] ELSE NULL
    /\ UNCHANGED rHeap

(* Bug: forEach reads next after the callback. *)
VisitToSend_nextAfter ==
    /\ \E p \in rToSend : SendToReceiver(p)
    /\ rHeap' = InsertNodeById(RemoveNode(rHeap, visiting), ToAckHead,
                              visiting)
    /\ visiting' = rHeap'.next[visiting]

(* sendToReceiver removes the node it is called on and puts it in toAck. *)
VisitToSend ==
    /\ \E p \in rToSend : SendToReceiver(p)
    /\ rHeap' = InsertNodeById(RemoveNode(rHeap, visiting), ToAckHead,
                              visiting)
    /\ visiting' = rHeap.next[visiting]

(* The nodes left are not in their turn: the callback does nothing. *)
EndDeliverLists ==
    /\ EndDeliver \/ SinkFails
    /\ visiting' = NULL
    /\ UNCHANGED rHeap

(* forEach(toAck, ...). *)
AckLists ==
    /\ AckPackets
    /\ rHeap' = ForEachAck(rHeap, ToAckHead, Ending, RMax)
    /\ UNCHANGED visiting

(* receiveFromPsender.  A node that is not inserted since its id is present
   is not freed either: nothing points to it from then on. *)
RecvLists(m) ==
    LET p     == [id |-> m.id, body |-> m.body]
        n     == FreshNode(rHeap)
        h     == AllocNode(rHeap, p)
        into  == IF m.id >= lastSentId THEN ToSendHead ELSE ToAckHead
        after == InsertNodeById(h, into, n)
    IN  /\ RecvBody(m)
        /\ rHeap' = IF \/ after = h
                       \/ into = ToAckHead /\ rHeap.length[ToAckHead] >= RMax
                    THEN ClearNode(h, n, Ending) ELSE after
        /\ UNCHANGED visiting

ReceiverLists ==
    /\ UNCHANGED <<sourceVars, psenderVars, ticked, sHeap>>
    /\ \/ StartDeliverLists
       \/ VisitToSend
       \/ EndDeliverLists
       \/ AckLists
       \/ \E m \in netR : RecvLists(m)

-----------------------------------------------------------------------------
(* The steps that touch no list. *)
OtherSender ==
    /\ \/ SendPackets
       \/ \E r \in BOOLEAN : SSelect(r)
       \/ LeaveRead
       \/ \E m \in netS : SRecvIcmp(m)
       \/ LeaveCheck
    /\ UNCHANGED <<sourceVars, preceiverVars>>

OtherReceiver ==
    /\ RSelect \/ (\E m \in netR : RRecvIcmp(m)) \/ EndRecv
    /\ UNCHANGED <<sourceVars, psenderVars, ticked>>

NoListStep ==
    /\ \/ Network
       \/ Source
       \/ OtherSender
       \/ SenderTimeout
       \/ OtherReceiver
       \/ ReceiverTimeout
       \/ Finished
    /\ UNCHANGED listVars

ListsNext ==
    \/ SenderLists
    \/ ReceiverLists
    \/ NoListStep

ListsSpec == ListsInit /\ [][ListsNext]_<<vars, listVars>>

-----------------------------------------------------------------------------
(* psender appends, preceiver inserts by id. *)
SRank == [p \in Node |-> Position(p)]
RRank == [p \in Node |-> p.id]

(* The list of head holds the packets of S, each once, in the order of their
   ranks, as a walk from the head meets them, and its length is right. *)
Holds(h, head, S, rank) ==
    LET chain == Forward(h, head)
        packet(k) == h.packet[chain[k]]
    IN  /\ Len(chain) = Cardinality(S) /\ h.length[head] = Cardinality(S)
        /\ {packet(k) : k \in DOMAIN chain} = S
        /\ \A i, j \in DOMAIN chain : i < j => rank[packet(i)] < rank[packet(j)]

(* The pointers hold what the sets say: psender's nodes in the order they
   were appended, preceiver's sorted by id, and length is their number. *)
ListsAgree ==
    /\ Holds(sHeap, ToSendHead, sToSend, SRank)
    /\ Holds(rHeap, ToSendHead, rToSend, RRank)
    /\ Holds(rHeap, ToAckHead, toAck, RRank)

(* The lists are sound: prev undoes next, each node knows the head of the
   list it is on, no node is on two lists, and what is on a list is exactly
   what is allocated: no freed node is reachable, and whatever is not freed
   and not reachable was given up by RecvLists. *)
SoundHeap(h) ==
    /\ \A c \in Heads \cup h.used :
          /\ h.next[c] \in Heads \cup h.used
          /\ h.prev[h.next[c]] = c
    /\ \A head \in Heads :
          LET nodes == Range(Forward(h, head))
          IN  /\ nodes = Range(Backward(h, head))
              /\ nodes = {n \in h.used : h.head[n] = head}
    /\ \A n \in h.used : h.head[n] \in Heads

HeapsSound == SoundHeap(sHeap) /\ SoundHeap(rHeap)

(* psender's forEach, limited to maxPackets, reaches the end of its list.
   forEach over preceiver's toSend, whose callback takes nodes away, comes
   next to a node that is still on that list or to its head; and if a packet
   is in its turn, to that packet's node: none is skipped. *)
ForEachOnTrack ==
    /\ ForEachEnd(sHeap, ToSendHead, SMax) = ToSendHead
    /\ rPc = "deliver" =>
         /\ \/ visiting = ToSendHead
            \/ /\ visiting \in rHeap.used
               /\ rHeap.head[visiting] = ToSendHead
         /\ rCount < RMax =>
              \A p \in rToSend : p.id = lastSentId =>
                 /\ visiting # ToSendHead
                 /\ rHeap.packet[visiting] = p

-----------------------------------------------------------------------------
(* The inductive invariant behind ListsAgree, HeapsSound and ForEachOnTrack.
   It needs IInv, InvAcks and EnoughNodes. *)

(* malloc always has a node: while one is allocated, each list holds no more
   than its proxy's maxPackets. *)
EnoughNodes == NumNodes > SMax + RMax

InvSenderHeap ==
    /\ Sound(sHeap, Node, SRank)
    /\ Contents(sHeap, ToSendHead) = sToSend
    /\ Contents(sHeap, ToAckHead) = {}

InvReceiverHeap ==
    /\ Sound(rHeap, Node, RRank)
    /\ Contents(rHeap, ToSendHead) = rToSend
    /\ Contents(rHeap, ToAckHead) = toAck

(* forEach over preceiver's toSend comes next to the node whose turn it is, if
   that packet is there. *)
InvVisiting ==
    rPc = "deliver" =>
        LET nodes == Nodes(rHeap, ToSendHead)
        IN  /\ visiting \in nodes \cup {ToSendHead}
            /\ \A n \in nodes : rHeap.packet[n].id = lastSentId => visiting = n

ListsInv == InvSenderHeap /\ InvReceiverHeap /\ InvVisiting
=============================================================================
