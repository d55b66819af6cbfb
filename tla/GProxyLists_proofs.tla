------------------------- MODULE GProxyLists_proofs -------------------------
(***************************************************************************)
(* The pointers of the two proxies' lists hold what the sets of GProxy say, *)
(* in every reachable state and for every value of the constants.          *)
(***************************************************************************)
EXTENDS GProxyLists, GProxy_proofs, PacketWalk_proofs, SequenceTheorems

(* The actions of GProxyLists are those of GProxy with the heaps beside them,
   which no guard reads: by construction, what holds of every run of GProxy holds
   of its runs. *)
LEMMA ListsRefine == ListsSpec => Spec
<1>1. ListsInit => Init
  BY DEF ListsInit
<1>2. [ListsNext]_<<vars, listVars>> => [Next]_vars
  <2> SUFFICES ASSUME [ListsNext]_<<vars, listVars>> PROVE [Next]_vars
    OBVIOUS
  <2>1. CASE SenderLists
    <3>1. Sender
      BY <2>1 DEF SenderLists, Sender, PSenderStep
    <3> QED BY <3>1 DEF Next
  <2>2. CASE ReceiverLists
    <3>1. Receiver
      BY <2>2 DEF ReceiverLists, StartDeliverLists, VisitToSend, EndDeliverLists,
                  AckLists, RecvLists, Receiver, PReceiverStep
    <3> QED BY <3>1 DEF Next
  <2>3. CASE NoListStep
    <3>1. CASE OtherSender
      BY <3>1 DEF OtherSender, Sender, PSenderStep, Next
    <3>2. CASE OtherReceiver
      BY <3>2 DEF OtherReceiver, Receiver, PReceiverStep, Next
    <3> QED BY <2>3, <3>1, <3>2 DEF NoListStep, Next
  <2>4. CASE UNCHANGED <<vars, listVars>>
    BY <2>4
  <2> QED BY <2>1, <2>2, <2>3, <2>4 DEF ListsNext
<1> QED BY <1>1, <1>2, PTL DEF ListsSpec, Spec

-----------------------------------------------------------------------------
(* Ranks are integers; preceiver's are the ids. *)
LEMMA RankFacts ==
    /\ SRank \in [Node -> Int] /\ RRank \in [Node -> Int]
    /\ \A p \in Node : SRank[p] = Position(p) /\ RRank[p] = p.id
    /\ Ending \in Node
<1>1. NumChunks \in Nat /\ 0 \in Ids
  BY ConstantsAssumption DEF Ids
<1>2. Ending \in Node
  BY <1>1 DEF Ending, Node
<1>3. \A p \in Node : p.id \in Int /\ Position(p) \in Int
  BY <1>1, ConstantsAssumption DEF Node, Ids, Position
<1> QED BY <1>2, <1>3 DEF SRank, RRank

(* The capacity of the memory. *)
LEMMA Capacity ==
    ASSUME EnoughNodes
    PROVE  /\ NumNodes \in Nat /\ SMax \in Nat /\ RMax \in Nat
           /\ SMax + RMax < NumNodes
BY NumNodesAssumption, ConstantsAssumption DEF EnoughNodes

(* An allocation finds a node while each list holds no more than its bound. *)
LEMMA RoomLeft ==
    ASSUME EnoughNodes, NEW A, IsFiniteSet(A), NEW B, IsFiniteSet(B),
           Cardinality(A) <= SMax, Cardinality(B) <= RMax
    PROVE  Cardinality(A) + Cardinality(B) < NumNodes
<1>1. Cardinality(A) \in Nat /\ Cardinality(B) \in Nat
  BY FS_CardinalityType
<1> QED BY <1>1, Capacity

(* No list and no node. *)
LEMMA InitLists == EnoughNodes /\ ListsInit => ListsInv
<1> SUFFICES ASSUME EnoughNodes, ListsInit PROVE ListsInv
  OBVIOUS
<1>1. ToSendHead \in Heads /\ ToAckHead \in Heads
  BY DEF Heads
<1>2. /\ sToSend = {} /\ rToSend = {} /\ toAck = {} /\ rPc = "loop"
      /\ sHeap = EmptyHeap(Ending) /\ rHeap = EmptyHeap(Ending)
  BY DEF ListsInit, Init, PSenderInit, PReceiverInit
<1>3. /\ Sound(sHeap, Node, SRank) /\ Sound(rHeap, Node, RRank)
      /\ \A head \in Heads : Contents(sHeap, head) = {} /\ Contents(rHeap, head) = {}
  BY <1>2, RankFacts, Capacity, EmptyHeapSound
<1> QED BY <1>1, <1>2, <1>3
        DEF ListsInv, InvSenderHeap, InvReceiverHeap, InvVisiting

-----------------------------------------------------------------------------
(* psender. *)

(* A node that goes behind the others. *)
LEMMA AppendPacketKeeps ==
    ASSUME EnoughNodes, IInv, InvSenderHeap, RoomToRead, NEW p \in Node,
           \A q \in sToSend : SRank[q] < SRank[p],
           sHeap' = AppendPacket(sHeap, p), sToSend' = sToSend \cup {p}
    PROVE  InvSenderHeap'
<1>1. /\ Sound(sHeap, Node, SRank) /\ Contents(sHeap, ToSendHead) = sToSend
      /\ Contents(sHeap, ToAckHead) = {}
  BY DEF InvSenderHeap
<1>2. Cardinality(Contents(sHeap, ToSendHead)) + Cardinality(Contents(sHeap, ToAckHead))
          < NumNodes
  <2>1. IsFiniteSet(sToSend) /\ Cardinality(sToSend) <= SMax
    BY DEF IInv, InvSenderList
  <2>2. IsFiniteSet({}) /\ Cardinality({}) <= RMax
    BY FS_EmptySet, Capacity
  <2> QED BY <1>1, <2>1, <2>2, RoomLeft
<1>3. ToSendHead \in Heads /\ ToAckHead \in Heads \ {ToSendHead}
  BY CellFacts
<1>4. /\ Sound(sHeap', Node, SRank)
      /\ Contents(sHeap', ToSendHead) = Contents(sHeap, ToSendHead) \cup {p}
      /\ Contents(sHeap', ToAckHead) = Contents(sHeap, ToAckHead)
  <2>1. \A q \in Contents(sHeap, ToSendHead) : SRank[q] < SRank[p]
    BY <1>1
  <2>2. SRank \in [Node -> Int] /\ NumNodes \in Nat
    BY RankFacts, Capacity
  <2>3. sHeap' = AppendNode(AllocNode(sHeap, p), ToSendHead, FreshNode(sHeap))
    BY DEF AppendPacket
  <2>4. /\ Sound(sHeap', Node, SRank)
        /\ Contents(sHeap', ToSendHead) = Contents(sHeap, ToSendHead) \cup {p}
        /\ \A other \in Heads \ {ToSendHead} :
              Contents(sHeap', other) = Contents(sHeap, other)
    BY <1>1, <1>2, <1>3, <2>1, <2>2, <2>3, AppendSound
  <2> QED BY <1>3, <2>4
<1> QED BY <1>1, <1>4 DEF InvSenderHeap

(* The ids of psender's list differ. *)
LEMMA SenderIds ==
    ASSUME TypeOK, IInv
    PROVE  /\ \A p, q \in sToSend : p.id = q.id => p = q
           /\ \A id : RemoveNodeById(sToSend, id) = {p \in sToSend : p.id # id}
<1>1. \A p, q \in sToSend : p.id = q.id => p = q
  BY DEF TypeOK, IInv, InvSenderList, Node
<1>2. ASSUME NEW id PROVE RemoveNodeById(sToSend, id) = {p \in sToSend : p.id # id}
  <2>1. \A p \in sToSend : Position(p) \in Int
    BY RankFacts DEF TypeOK
  <2>2. \A p, q \in sToSend : p.id = id /\ q.id = id => Position(p) <= Position(q)
    BY <1>1, <2>1
  <2> QED BY <2>2 DEF RemoveNodeById
<1> QED BY <1>1, <1>2

(* The steps of psender keep its list. *)
LEMMA SenderKeeps ==
    ASSUME EnoughNodes, TypeOK, IInv, InvSenderHeap, SenderLists
    PROVE  InvSenderHeap'
<1>0. /\ NumChunks \in Nat /\ nread \in Nat /\ nread <= NumChunks
      /\ sToSend \subseteq Node
  BY ConstantsAssumption DEF TypeOK
<1>1. ASSUME ReadChunk,
             sHeap' = AppendPacket(sHeap, [id |-> currentId, body |-> nread + 1])
      PROVE  InvSenderHeap'
  <2> DEFINE p == [id |-> currentId, body |-> nread + 1]
  <2>1. RoomToRead /\ nread < readable /\ readable <= written /\ written <= NumChunks
        /\ sToSend' = sToSend \cup {p}
    BY <1>1 DEF ReadChunk, TypeOK
  <2>2. p \in Node /\ p # Ending
    BY <1>0, <2>1 DEF TypeOK, Node, Ending
  <2>3. \A q \in sToSend : q # Ending /\ q.body <= nread
    BY <2>1 DEF RoomToRead, IInv, InvSenderList
  <2>4. \A q \in sToSend : SRank[q] < SRank[p]
    BY <1>0, <2>2, <2>3, RankFacts DEF Position, Node
  <2> HIDE DEF p
  <2> QED BY <1>1, <2>1, <2>2, <2>4, AppendPacketKeeps DEF p
<1>2. ASSUME ReadEnd, sHeap' = AppendPacket(sHeap, Ending)
      PROVE  InvSenderHeap'
  <2>1. RoomToRead /\ sToSend' = sToSend \cup {Ending}
    BY <1>2 DEF ReadEnd
  <2>2. \A q \in sToSend : q # Ending /\ q.body <= nread
    BY <2>1 DEF RoomToRead, IInv, InvSenderList
  <2>3. \A q \in sToSend : SRank[q] < SRank[Ending]
    BY <1>0, <2>2, RankFacts DEF Position, Node
  <2> QED BY <1>2, <2>1, <2>3, RankFacts, AppendPacketKeeps
<1>3. ASSUME NEW m \in netS, RecvAck(m),
             sHeap' = DiscardNodeById(sHeap, ToSendHead, m.body, Ending)
      PROVE  InvSenderHeap'
  <2>1. /\ Sound(sHeap, Node, SRank) /\ Contents(sHeap, ToSendHead) = sToSend
        /\ Contents(sHeap, ToAckHead) = {}
    BY DEF InvSenderHeap
  <2>2. ToSendHead \in Heads /\ ToAckHead \in Heads \ {ToSendHead}
    BY CellFacts
  <2>3. \A p, q \in Contents(sHeap, ToSendHead) : p.id = q.id => p = q
    BY <2>1, SenderIds
  <2>4. /\ Sound(sHeap', Node, SRank)
        /\ Contents(sHeap', ToSendHead)
              = {q \in Contents(sHeap, ToSendHead) : q.id # m.body}
        /\ \A other \in Heads \ {ToSendHead} :
              Contents(sHeap', other) = Contents(sHeap, other)
    BY <1>3, <2>1, <2>2, <2>3, RankFacts, Capacity, DiscardSound
  <2>5. sToSend' = RemoveNodeById(sToSend, m.body)
    BY <1>3 DEF RecvAck
  <2>6. sToSend' = {p \in sToSend : p.id # m.body}
    BY <2>5, SenderIds
  <2> QED BY <2>1, <2>2, <2>4, <2>6 DEF InvSenderHeap
<1> QED BY <1>1, <1>2, <1>3 DEF SenderLists

-----------------------------------------------------------------------------
(* preceiver. *)

(* Its list toSend holds no id below lastSentId, toAck only such. *)
LEMMA ReceiverIds ==
    ASSUME TypeOK, IInv
    PROVE  /\ rToSend \subseteq Node /\ toAck \subseteq Node /\ lastSentId \in Int
           /\ \A p \in rToSend : p.id >= lastSentId
           /\ \A p \in toAck : p.id < lastSentId
BY DEF TypeOK, IInv, InvReceiverLists, Ids

(* forEach starts with the node whose turn it is, if it is there. *)
LEMMA StartKeeps ==
    ASSUME EnoughNodes, TypeOK, IInv, InvReceiverHeap, StartDeliverLists
    PROVE  InvReceiverHeap' /\ InvVisiting'
<1> DEFINE N == Nodes(rHeap, ToSendHead)
           n0 == rHeap.next[ToSendHead]
<1>1. /\ rHeap' = rHeap /\ rToSend' = rToSend /\ toAck' = toAck
      /\ lastSentId' = lastSentId
      /\ rPc' = "deliver" => visiting' = n0
  BY DEF StartDeliverLists, RTop
<1>2. InvReceiverHeap'
  BY <1>1 DEF InvReceiverHeap
<1>3. InOrder(rHeap, Node, RRank) /\ Contents(rHeap, ToSendHead) = rToSend
  BY DEF InvReceiverHeap, Sound
<1>4. RRank \in [Node -> Int] /\ NumNodes \in Nat /\ ToSendHead \in Heads
  BY RankFacts, Capacity, CellFacts
<1>5. IF n0 = ToSendHead THEN N = {} /\ Contents(rHeap, ToSendHead) = {}
      ELSE n0 \in N /\ \A n \in N : RRank[rHeap.packet[n0]] <= RRank[rHeap.packet[n]]
  BY <1>3, <1>4, FirstNode
<1>6. \A n \in N : /\ rHeap.packet[n] \in Node
                   /\ RRank[rHeap.packet[n]] = rHeap.packet[n].id
                   /\ RRank[rHeap.packet[n]] >= lastSentId
                   /\ RRank[rHeap.packet[n]] \in Int
  <2>1. \A n \in N : rHeap.packet[n] \in rToSend
    BY <1>3 DEF Contents
  <2> QED BY <2>1, <1>4, ReceiverIds, RankFacts
<1>7. \A m, n \in N : RRank[rHeap.packet[m]] = RRank[rHeap.packet[n]] => m = n
  BY <1>3, <1>4 DEF InOrder, Ordered
<1>8. n0 \in N \cup {ToSendHead}
  BY <1>5
<1>9. ASSUME NEW n \in N, rHeap.packet[n].id = lastSentId PROVE n0 = n
  <2>1. n0 \in N /\ RRank[rHeap.packet[n0]] <= RRank[rHeap.packet[n]]
    BY <1>5
  <2> QED BY <1>6, <1>7, <1>9, <2>1, ReceiverIds
<1>10. InvVisiting'
  BY <1>1, <1>8, <1>9 DEF InvVisiting
<1> QED BY <1>2, <1>10

(* A packet goes from toSend to toAck, and forEach comes next to the node
   after it: the one with the next id, if it is there. *)
LEMMA VisitKeeps ==
    ASSUME NoIdWrap, EnoughNodes, TypeOK, IInv, InvReceiverHeap, InvVisiting,
           VisitToSend
    PROVE  InvReceiverHeap' /\ InvVisiting'
<1> DEFINE N == Nodes(rHeap, ToSendHead)
<1>1. PICK p \in rToSend : SendToReceiver(p)
  BY DEF VisitToSend
<1>2. /\ rPc = "deliver" /\ rPc' = "deliver" /\ p.id = lastSentId
      /\ lastSentId' = (lastSentId + 1) % IdMod
      /\ rToSend' = rToSend \ {p} /\ toAck' = InsertById(toAck, p)
  BY <1>1 DEF SendToReceiver
<1>3. /\ rHeap' = InsertNodeById(RemoveNode(rHeap, visiting), ToAckHead, visiting)
      /\ visiting' = rHeap.next[visiting]
  BY DEF VisitToSend
<1>4. /\ Sound(rHeap, Node, RRank) /\ InOrder(rHeap, Node, RRank)
      /\ Contents(rHeap, ToSendHead) = rToSend /\ Contents(rHeap, ToAckHead) = toAck
  BY DEF InvReceiverHeap, Sound
<1>5. visiting \in N /\ rHeap.packet[visiting] = p
  <2>1. PICK n \in N : rHeap.packet[n] = p
    BY <1>4 DEF Contents
  <2> QED BY <1>2, <2>1 DEF InvVisiting
<1>6. /\ RRank \in [Node -> Int] /\ NumNodes \in Nat /\ ToSendHead \in Heads
      /\ \A q \in Node : RRank[q] = q.id
  BY RankFacts, Capacity, CellFacts
<1>7. toAck' = toAck \cup {p}
  <2>1. \A q \in toAck : q.id # p.id
    BY <1>2, ReceiverIds DEF Node, Ids
  <2> QED BY <1>2, <2>1 DEF InsertById
<1>8. /\ Sound(rHeap', Node, RRank) /\ rHeap'.packet = rHeap.packet
      /\ Nodes(rHeap', ToSendHead) = N \ {visiting}
      /\ Contents(rHeap', ToSendHead) = Contents(rHeap, ToSendHead) \ {p}
      /\ Contents(rHeap', ToAckHead) = Contents(rHeap, ToAckHead) \cup {p}
  <2>1. \A q \in Contents(rHeap, ToAckHead) : q.id # rHeap.packet[visiting].id
    BY <1>2, <1>4, <1>5, ReceiverIds DEF Node, Ids
  <2> QED BY <1>3, <1>4, <1>5, <1>6, <2>1, MoveSound
<1>9. InvReceiverHeap'
  BY <1>2, <1>4, <1>7, <1>8 DEF InvReceiverHeap
<1>10. lastSentId' = lastSentId + 1
  <2>1. lastSentId \in Nat /\ lastSentId + 1 < IdMod
    BY <1>1, <1>2, ConstantsAssumption
       DEF TypeOK, Ids, IInv, InvReceiverLists, NoIdWrap
  <2> QED BY <1>2, <2>1, ConstantsAssumption, ModSmall
<1>11. /\ visiting' \in (N \ {visiting}) \cup {ToSendHead}
       /\ visiting' \in N => RRank[p] < RRank[rHeap.packet[visiting']]
       /\ \A m \in N : RRank[p] < RRank[rHeap.packet[m]]
             => /\ visiting' \in N
                /\ RRank[rHeap.packet[visiting']] <= RRank[rHeap.packet[m]]
  BY <1>3, <1>4, <1>5, <1>6, NextFacts
<1>12. ASSUME NEW n \in N \ {visiting}, rHeap.packet[n].id = lastSentId'
       PROVE  visiting' = n
  <2>1. \A m \in N : rHeap.packet[m] \in Node
    BY <1>4, ReceiverIds DEF Contents
  <2>2. \A m \in N : RRank[rHeap.packet[m]] = rHeap.packet[m].id
    BY <1>6, <2>1
  <2>3. \A m \in N : rHeap.packet[m].id \in Int
    BY <2>1 DEF Node, Ids
  <2>4. RRank[p] = lastSentId /\ RRank[rHeap.packet[n]] = lastSentId + 1
    BY <1>2, <1>5, <1>10, <1>12, <2>2
  <2>5. RRank[p] < RRank[rHeap.packet[n]]
    BY <2>4, ReceiverIds
  <2>6. /\ visiting' \in N
        /\ RRank[p] < RRank[rHeap.packet[visiting']]
        /\ RRank[rHeap.packet[visiting']] <= RRank[rHeap.packet[n]]
    BY <1>11, <2>5
  <2>7. RRank[rHeap.packet[visiting']] = RRank[rHeap.packet[n]]
    BY <2>2, <2>3, <2>4, <2>6, ReceiverIds
  <2>8. \A k, m \in N : RRank[rHeap.packet[k]] = RRank[rHeap.packet[m]] => k = m
    BY <1>4, <1>6 DEF InOrder, Ordered
  <2> QED BY <2>6, <2>7, <2>8
<1>13. InvVisiting'
  BY <1>8, <1>11, <1>12 DEF InvVisiting
<1> QED BY <1>9, <1>13

(* forEach(toAck, ...) frees the first nodes of toAck. *)
LEMMA AckKeeps ==
    ASSUME EnoughNodes, TypeOK, InvReceiverHeap, AckLists
    PROVE  InvReceiverHeap' /\ InvVisiting'
<1>1. /\ rToSend' = rToSend /\ toAck' = toAck \ FirstNodes(toAck, RMax)
      /\ rPc' = "select"
      /\ rHeap' = ForEachAck(rHeap, ToAckHead, Ending, RMax)
  BY DEF AckLists, AckPackets
<1>2. /\ Sound(rHeap, Node, RRank) /\ Contents(rHeap, ToSendHead) = rToSend
      /\ Contents(rHeap, ToAckHead) = toAck
  BY DEF InvReceiverHeap
<1>3. /\ RRank \in [Node -> Int] /\ NumNodes \in Nat /\ RMax \in Nat
      /\ Ending \in Node /\ ToAckHead \in Heads /\ ToSendHead \in Heads \ {ToAckHead}
  BY RankFacts, Capacity, CellFacts
<1>4. /\ Sound(rHeap', Node, RRank)
      /\ Contents(rHeap', ToAckHead) = toAck \ FirstPackets(toAck, RRank, RMax)
      /\ \A other \in Heads \ {ToAckHead} :
            Contents(rHeap', other) = Contents(rHeap, other)
  BY <1>1, <1>2, <1>3, ForEachAcks
<1>5. FirstPackets(toAck, RRank, RMax) = FirstNodes(toAck, RMax)
  <2>1. \A q \in toAck : RRank[q] = q.id
    BY RankFacts DEF TypeOK
  <2>2. \A p \in toAck : Below(toAck, RRank, p) = {q \in toAck : q.id < p.id}
    BY <2>1 DEF Below
  <2> QED BY <2>2 DEF FirstPackets, FirstNodes
<1> QED BY <1>1, <1>2, <1>3, <1>4, <1>5 DEF InvReceiverHeap, InvVisiting

(* A packet that has come is put in its list, or its node is given up: when
   its id is there, or when toAck is full. *)
LEMMA RecvKeeps ==
    ASSUME EnoughNodes, TypeOK, IInv, InvAcks, InvReceiverHeap,
           NEW m \in netR, RecvLists(m)
    PROVE  InvReceiverHeap' /\ InvVisiting'
<1> DEFINE p     == [id |-> m.id, body |-> m.body]
           a     == AllocNode(rHeap, p)
           n     == FreshNode(rHeap)
           into  == IF m.id >= lastSentId THEN ToSendHead ELSE ToAckHead
           after == InsertNodeById(a, into, n)
           full  == into = ToAckHead /\ rHeap.length[ToAckHead] >= RMax
           given == ClearNode(a, n, Ending)
           list  == Contents(rHeap, into)
<1>0. InvVisiting'
  BY DEF RecvLists, RecvBody, InvVisiting
<1>1. /\ RecvBody(m)
      /\ rHeap' = IF after = a \/ full THEN given ELSE after
  BY DEF RecvLists
<1>2. /\ rPc = "recv" /\ rPc' = "recv"
      /\ IF m.id >= lastSentId
         THEN rToSend' = InsertById(rToSend, p) /\ toAck' = toAck
         ELSE /\ rToSend' = rToSend
              /\ toAck' = IF Cardinality(toAck) < RMax
                          THEN InsertById(toAck, p) ELSE toAck
  BY <1>1 DEF RecvBody
<1>3. p \in Node
  BY DEF TypeOK, ToReceiver, Node
<1>4. /\ Sound(rHeap, Node, RRank) /\ InOrder(rHeap, Node, RRank)
      /\ Contents(rHeap, ToSendHead) = rToSend /\ Contents(rHeap, ToAckHead) = toAck
  BY DEF InvReceiverHeap, Sound
<1>5. /\ RRank \in [Node -> Int] /\ NumNodes \in Nat /\ SMax \in Nat /\ RMax \in Nat
      /\ Ending \in Node /\ into \in Heads /\ ToSendHead \in Heads /\ ToAckHead \in Heads
      /\ ToSendHead # ToAckHead /\ Heads = {ToSendHead, ToAckHead}
      /\ \A q \in Node : RRank[q] = q.id
  BY RankFacts, Capacity, CellFacts DEF Heads
<1>6. Cardinality(Contents(rHeap, ToSendHead)) + Cardinality(Contents(rHeap, ToAckHead))
         < NumNodes
  <2>1. IsFiniteSet(rToSend) /\ IsFiniteSet(toAck)
    BY <1>4, <1>5, ContentsCount
  <2>2. Cardinality(rToSend) <= SMax
    BY InvWindow DEF WindowBound
  <2>3. Cardinality(toAck) <= RMax
    BY <1>2 DEF InvAcks
  <2> QED BY <1>4, <2>1, <2>2, <2>3, RoomLeft
<1>7. /\ Sound(given, Node, RRank)
      /\ \A head \in Heads : Contents(given, head) = Contents(rHeap, head)
  BY <1>3, <1>4, <1>5, <1>6, GiveUpSound
<1>8. IF \E q \in list : q.id = p.id
      THEN after = a
      ELSE /\ after # a /\ Sound(after, Node, RRank)
           /\ Contents(after, into) = list \cup {p}
           /\ \A other \in Heads \ {into} : Contents(after, other) = Contents(rHeap, other)
  <2> HIDE DEF p, into
  <2> QED BY <1>3, <1>4, <1>5, <1>6, InsertSound
<1>9. rHeap.length[ToAckHead] = Cardinality(toAck) /\ Cardinality(toAck) \in Nat
  BY <1>4, <1>5, ContentsCount
<1> HIDE DEF p, a, n, after, given
<1>10. CASE m.id >= lastSentId
  <2>1. into = ToSendHead /\ ~full /\ list = rToSend
    BY <1>4, <1>5, <1>10
  <2>2. rToSend' = InsertById(rToSend, p) /\ toAck' = toAck
    BY <1>2, <1>10
  <2>3. CASE \E q \in list : q.id = p.id
    <3>1. rHeap' = given
      BY <1>1, <1>8, <2>3
    <3>2. rToSend' = rToSend
      BY <2>1, <2>2, <2>3 DEF InsertById
    <3> QED BY <1>0, <1>4, <1>5, <1>7, <2>2, <3>1, <3>2 DEF InvReceiverHeap
  <2>4. CASE ~\E q \in list : q.id = p.id
    <3>1. rHeap' = after
      BY <1>1, <1>8, <2>1, <2>4
    <3>2. rToSend' = rToSend \cup {p}
      BY <2>1, <2>2, <2>4 DEF InsertById
    <3>3. /\ Sound(after, Node, RRank) /\ Contents(after, ToSendHead) = rToSend \cup {p}
          /\ Contents(after, ToAckHead) = toAck
      BY <1>4, <1>5, <1>8, <2>1, <2>4
    <3> QED BY <1>0, <2>2, <3>1, <3>2, <3>3 DEF InvReceiverHeap
  <2> QED BY <2>3, <2>4
<1>11. CASE ~(m.id >= lastSentId)
  <2>1. into = ToAckHead /\ list = toAck
    BY <1>4, <1>5, <1>11
  <2>2. /\ rToSend' = rToSend
        /\ toAck' = IF Cardinality(toAck) < RMax THEN InsertById(toAck, p) ELSE toAck
    BY <1>2, <1>11
  <2>3. full = ~(Cardinality(toAck) < RMax)
    BY <1>5, <1>9, <2>1
  <2>4. CASE full \/ \E q \in list : q.id = p.id
    <3>1. rHeap' = given
      BY <1>1, <1>8, <2>4
    <3>2. toAck' = toAck
      BY <2>1, <2>2, <2>3, <2>4 DEF InsertById
    <3> QED BY <1>0, <1>4, <1>5, <1>7, <2>2, <3>1, <3>2 DEF InvReceiverHeap
  <2>5. CASE ~full /\ ~\E q \in list : q.id = p.id
    <3>1. rHeap' = after
      BY <1>1, <1>8, <2>5
    <3>2. toAck' = toAck \cup {p}
      BY <2>1, <2>2, <2>3, <2>5 DEF InsertById
    <3>3. /\ Sound(after, Node, RRank) /\ Contents(after, ToAckHead) = toAck \cup {p}
          /\ Contents(after, ToSendHead) = rToSend
      BY <1>4, <1>5, <1>8, <2>1, <2>5
    <3> QED BY <1>0, <2>2, <3>1, <3>2, <3>3 DEF InvReceiverHeap
  <2> QED BY <2>4, <2>5
<1> QED BY <1>10, <1>11

-----------------------------------------------------------------------------
(* Every step keeps the invariant. *)
LEMMA NextLists ==
    ASSUME NoIdWrap, EnoughNodes, TypeOK, IInv, InvAcks, ListsInv,
           [ListsNext]_<<vars, listVars>>
    PROVE  ListsInv'
<1> USE DEF ListsInv
<1>1. CASE SenderLists
  <2>1. InvSenderHeap'
    BY <1>1, SenderKeeps
  <2>2. /\ rHeap' = rHeap /\ visiting' = visiting /\ rPc' = rPc
        /\ rToSend' = rToSend /\ toAck' = toAck /\ lastSentId' = lastSentId
    BY <1>1 DEF SenderLists, preceiverVars
  <2>3. InvReceiverHeap' /\ InvVisiting'
    BY <2>2 DEF InvReceiverHeap, InvVisiting
  <2> QED BY <2>1, <2>3
<1>2. CASE ReceiverLists
  <2>1. sHeap' = sHeap /\ sToSend' = sToSend
    BY <1>2 DEF ReceiverLists, psenderVars
  <2>2. InvSenderHeap'
    BY <2>1 DEF InvSenderHeap
  <2>3. CASE StartDeliverLists
    BY <2>2, <2>3, StartKeeps
  <2>4. CASE VisitToSend
    BY <2>2, <2>4, VisitKeeps
  <2>5. CASE EndDeliverLists
    <3>1. /\ rHeap' = rHeap /\ rToSend' = rToSend /\ toAck' = toAck
          /\ rPc' # "deliver"
      BY <2>5 DEF EndDeliverLists, EndDeliver, SinkFails
    <3> QED BY <2>2, <3>1 DEF InvReceiverHeap, InvVisiting
  <2>6. CASE AckLists
    BY <2>2, <2>6, AckKeeps
  <2>7. CASE \E m \in netR : RecvLists(m)
    BY <2>2, <2>7, RecvKeeps
  <2> QED BY <1>2, <2>3, <2>4, <2>5, <2>6, <2>7 DEF ReceiverLists
<1>3. CASE NoListStep \/ UNCHANGED <<vars, listVars>>
  <2>1. /\ sHeap' = sHeap /\ rHeap' = rHeap /\ visiting' = visiting
        /\ sToSend' = sToSend /\ rToSend' = rToSend /\ toAck' = toAck
        /\ lastSentId' = lastSentId
    BY <1>3
       DEF NoListStep, listVars, vars, Network, Source, SourceNext, OtherSender,
           OtherReceiver, SenderTimeout, STimeout, ReceiverTimeout, RTimeout, Finished,
           SendPackets, SSelect, LeaveRead, EndOfPass, SRecvIcmp, LeaveCheck, RSelect,
           RRecvIcmp, EndRecv, preceiverVars, psenderVars
  <2>2. rPc' = "deliver" => rPc = "deliver"
    BY <1>3
       DEF NoListStep, vars, Network, Source, SourceNext, OtherSender, OtherReceiver,
           SenderTimeout, STimeout, ReceiverTimeout, RTimeout, Finished, RSelect,
           RRecvIcmp, EndRecv, preceiverVars
  <2> QED BY <2>1, <2>2 DEF InvSenderHeap, InvReceiverHeap, InvVisiting
<1> QED BY <1>1, <1>2, <1>3 DEF ListsNext

(* The heaps hold, in order, what the sets say, for streams whose ids fit in
   an unsigned int and a malloc that does not fail. *)
THEOREM ListsInvariant == NoIdWrap /\ EnoughNodes => (ListsSpec => []ListsInv)
<1> SUFFICES ASSUME NoIdWrap, EnoughNodes PROVE ListsSpec => []ListsInv
  OBVIOUS
<1>1. ListsInit => ListsInv
  BY InitLists
<1>2. TypeOK /\ IInv /\ InvAcks /\ ListsInv /\ [ListsNext]_<<vars, listVars>> => ListsInv'
  BY NextLists
<1>3. ListsSpec => []TypeOK /\ []IInv /\ []InvAcks
  BY ListsRefine, TypeCorrect, Invariant, AcksInvariant
<1> QED BY <1>1, <1>2, <1>3, PTL DEF ListsSpec

-----------------------------------------------------------------------------
(* What follows from the invariant. *)

(* A walk along a list in order meets its packets in that order, each once. *)
LEMMA SoundHolds ==
    ASSUME NumNodes \in Nat, NEW rank \in [Node -> Int], NEW h,
           Sound(h, Node, rank), NEW head \in Heads
    PROVE  Holds(h, head, Contents(h, head), rank)
<1> DEFINE s == Forward(h, head)
           N == Nodes(h, head)
           l == Cardinality(N)
           C == Contents(h, head)
<1>1. InOrder(h, Node, rank)
  BY DEF Sound
<1>2. /\ l \in Nat /\ s \in [1 .. l -> N]
      /\ \A i, j \in 1 .. l :
            i < j => rank[h.packet[s[i]]] < rank[h.packet[s[j]]]
      /\ \A n \in N : \E i \in 1 .. l : s[i] = n
  BY <1>1, ForwardFacts
<1>3. Cardinality(C) = l /\ h.length[head] = l
  BY <1>1, ContentsCount
<1>4. C = {h.packet[n] : n \in N}
  BY DEF Contents
<1> HIDE DEF s, N, l, C
<1>5. DOMAIN s = 1 .. l
  BY <1>2
<1>6. Len(s) = l
  <2>1. s \in Seq(N)
    BY <1>2, SeqDef
  <2>2. Len(s) \in Nat /\ 1 .. Len(s) = 1 .. l
    BY <1>5, <2>1, LenProperties
  <2> QED BY <1>2, <2>2
<1>7. {h.packet[s[k]] : k \in DOMAIN s} = C
  <2>1. \A k \in 1 .. l : s[k] \in N
    BY <1>2
  <2> QED BY <1>2, <1>4, <1>5, <2>1
<1>8. \A i, j \in DOMAIN s : i < j => rank[h.packet[s[i]]] < rank[h.packet[s[j]]]
  BY <1>2, <1>5
<1> QED BY <1>3, <1>6, <1>7, <1>8 DEF Holds, s, C

(* ListsAgree: psender's and preceiver's linked lists, walked from their
   heads, are the lists of GProxy. *)
THEOREM ListsAgreeHolds == NoIdWrap /\ EnoughNodes => (ListsSpec => []ListsAgree)
<1> SUFFICES ASSUME NoIdWrap, EnoughNodes PROVE ListsSpec => []ListsAgree
  OBVIOUS
<1>1. ListsInv => ListsAgree
  <2> SUFFICES ASSUME ListsInv PROVE ListsAgree
    OBVIOUS
  <2>1. /\ NumNodes \in Nat /\ ToSendHead \in Heads /\ ToAckHead \in Heads
        /\ SRank \in [Node -> Int] /\ RRank \in [Node -> Int]
    BY Capacity, CellFacts, RankFacts
  <2>2. /\ Sound(sHeap, Node, SRank) /\ Contents(sHeap, ToSendHead) = sToSend
        /\ Sound(rHeap, Node, RRank) /\ Contents(rHeap, ToSendHead) = rToSend
        /\ Contents(rHeap, ToAckHead) = toAck
    BY DEF ListsInv, InvSenderHeap, InvReceiverHeap
  <2>3. Holds(sHeap, ToSendHead, sToSend, SRank)
    BY <2>1, <2>2, SoundHolds
  <2>4. Holds(rHeap, ToSendHead, rToSend, RRank)
    BY <2>1, <2>2, SoundHolds
  <2>5. Holds(rHeap, ToAckHead, toAck, RRank)
    BY <2>1, <2>2, SoundHolds
  <2> QED BY <2>3, <2>4, <2>5 DEF ListsAgree
<1> QED BY <1>1, ListsInvariant, PTL

(* The nodes in use are those on the lists, and the links undo each other. *)
LEMMA SoundIsSound ==
    ASSUME NumNodes \in Nat, NEW rank \in [Node -> Int], NEW h, Sound(h, Node, rank)
    PROVE  SoundHeap(h)
<1>1. InOrder(h, Node, rank) /\ AllListed(h)
  BY DEF Sound
<1>2. /\ h.used = Nodes(h, ToSendHead) \cup Nodes(h, ToAckHead)
      /\ Heads = {ToSendHead, ToAckHead}
  BY UsedFacts DEF Heads
<1>3. ASSUME NEW c \in Heads \cup h.used
      PROVE  h.next[c] \in Heads \cup h.used /\ h.prev[h.next[c]] = c
  <2>1. PICK head \in Heads : c \in Nodes(h, head) \cup {head}
    BY <1>2
  <2>2. Linked(h, Nodes(h, head) \cup {head})
    BY <1>1 DEF InOrder, Ordered
  <2>3. Nodes(h, head) \subseteq h.used
    BY DEF Nodes
  <2> QED BY <2>1, <2>2, <2>3 DEF Linked
<1>4. ASSUME NEW head \in Heads
      PROVE  /\ Range(Forward(h, head)) = Nodes(h, head)
             /\ Range(Backward(h, head)) = Nodes(h, head)
  <2> DEFINE f == Forward(h, head)
             b == Backward(h, head)
             N == Nodes(h, head)
             l == Cardinality(N)
  <2>1. f \in [1 .. l -> N] /\ \A n \in N : \E i \in 1 .. l : f[i] = n
    BY <1>1, ForwardFacts
  <2>2. b \in [1 .. l -> N] /\ \A n \in N : \E i \in 1 .. l : b[i] = n
    BY <1>1, BackwardFacts
  <2> HIDE DEF f, b, N, l
  <2> QED BY <2>1, <2>2 DEF Range, f, b, N
<1>5. \A n \in h.used : h.head[n] \in Heads
  BY <1>1, HeapFields DEF InOrder, AllListed
<1> QED BY <1>3, <1>4, <1>5 DEF SoundHeap, Nodes

(* HeapsSound: no freed node is on a list, no node on two. *)
THEOREM HeapsSoundHolds == NoIdWrap /\ EnoughNodes => (ListsSpec => []HeapsSound)
<1> SUFFICES ASSUME NoIdWrap, EnoughNodes PROVE ListsSpec => []HeapsSound
  OBVIOUS
<1>1. ListsInv => HeapsSound
  BY SoundIsSound, Capacity, RankFacts
     DEF ListsInv, InvSenderHeap, InvReceiverHeap, HeapsSound
<1> QED BY <1>1, ListsInvariant, PTL

(* ForEachOnTrack: psender's forEach comes to the end of its list, and
   preceiver's, whose callback takes nodes away, skips none in its turn. *)
THEOREM ForEachOnTrackHolds ==
    NoIdWrap /\ EnoughNodes => (ListsSpec => []ForEachOnTrack)
<1> SUFFICES ASSUME NoIdWrap, EnoughNodes PROVE ListsSpec => []ForEachOnTrack
  OBVIOUS
<1>1. IInv /\ ListsInv => ForEachOnTrack
  <2> SUFFICES ASSUME IInv, ListsInv PROVE ForEachOnTrack
    OBVIOUS
  <2>1. /\ NumNodes \in Nat /\ SMax \in Nat /\ ToSendHead \in Heads
        /\ SRank \in [Node -> Int] /\ RRank \in [Node -> Int]
    BY Capacity, CellFacts, RankFacts
  <2>2. ForEachEnd(sHeap, ToSendHead, SMax) = ToSendHead
    <3>1. InOrder(sHeap, Node, SRank) /\ Contents(sHeap, ToSendHead) = sToSend
      BY DEF ListsInv, InvSenderHeap, Sound
    <3>2. Cardinality(Nodes(sHeap, ToSendHead)) = Cardinality(sToSend)
      BY <2>1, <3>1, ContentsCount
    <3>3. Cardinality(Nodes(sHeap, ToSendHead)) <= SMax
      BY <3>2 DEF IInv, InvSenderList
    <3> QED BY <2>1, <3>1, <3>3, ForEachReachesEnd
  <2>3. ASSUME rPc = "deliver"
        PROVE  /\ \/ visiting = ToSendHead
                  \/ visiting \in rHeap.used /\ rHeap.head[visiting] = ToSendHead
               /\ \A p \in rToSend : p.id = lastSentId =>
                     visiting # ToSendHead /\ rHeap.packet[visiting] = p
    <3> DEFINE N == Nodes(rHeap, ToSendHead)
    <3>1. InOrder(rHeap, Node, RRank) /\ Contents(rHeap, ToSendHead) = rToSend
      BY DEF ListsInv, InvReceiverHeap, Sound
    <3>2. /\ visiting \in N \cup {ToSendHead}
          /\ \A n \in N : rHeap.packet[n].id = lastSentId => visiting = n
      BY <2>3 DEF ListsInv, InvVisiting
    <3>3. ToSendHead \notin N
      BY <2>1, <3>1, HeapFields, CellFacts DEF InOrder, Nodes
    <3>4. \A p \in rToSend : \E n \in N : rHeap.packet[n] = p
      BY <3>1 DEF Contents
    <3> QED BY <3>2, <3>3, <3>4 DEF Nodes
  <2> QED BY <2>2, <2>3 DEF ForEachOnTrack
<1>2. ListsSpec => []IInv /\ []ListsInv
  BY ListsRefine, Invariant, ListsInvariant
<1> QED BY <1>1, <1>2, PTL
=============================================================================
