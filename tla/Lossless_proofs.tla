-------------------------- MODULE Lossless_proofs ---------------------------
(***************************************************************************)
(* What the proxies achieve on a network that loses nothing, with timeouts *)
(* longer than its delays, for every value of the other constants: the     *)
(* sink's stream is ended only when it is complete, and psender never      *)
(* gives up.                                                               *)
(***************************************************************************)
EXTENDS GProxy_proofs

(* The numbers behind the two invariants. *)
LEMMA Counts ==
    ASSUME TypeOK, IInv
    PROVE  /\ nread \in Nat /\ Len(delivered) \in Nat /\ Len(delivered) <= nread
           /\ lastSentId = Len(delivered) + 1 /\ currentId = nread + 1
           /\ SMax \in Nat /\ SMax > 0 /\ RMax \in Nat /\ RMax > 0
           /\ \A p \in sToSend \cup rToSend \cup toAck : p.id \in Nat
           /\ \A m \in netR : m.id \in Nat
BY ConstantsAssumption
   DEF TypeOK, IInv, Integrity, InvIds, Node, Ids, ToReceiver

(* The node that insertNodeById is called on has its id in the list
   afterwards, its own or an older one. *)
LEMMA InsertedId ==
    ASSUME NEW list, NEW p
    PROVE  \E q \in InsertById(list, p) : q.id = p.id
BY DEF InsertById

(* What is received is in the network no more, at most. *)
LEMMA RemainsRest ==
    ASSUME NEW net, NEW m, NEW left \in Remains(net, m)
    PROVE  \A x \in net : x = m \/ x \in left
BY DEF Remains

(* A list that has no room left is not empty. *)
LEMMA NoRoomNotEmpty ==
    ASSUME ~(Cardinality(toAck) < RMax)
    PROVE  toAck # {}
BY ConstantsAssumption, FS_EmptySet

(* A forEach over a list that is not empty visits a node. *)
LEMMA FirstNodesSome ==
    ASSUME TypeOK, InvAcks, toAck # {}
    PROVE  FirstNodes(toAck, RMax) # {}
<1> SUFFICES ASSUME FirstNodes(toAck, RMax) = {} PROVE FALSE
    OBVIOUS
<1>1. /\ toAck \in SUBSET Node /\ IsFiniteSet(toAck) /\ RMax \in Nat /\ RMax > 0
      /\ \A p, q \in toAck : p.id = q.id => p = q
    BY ConstantsAssumption DEF TypeOK, InvAcks
<1>2. toAck \ FirstNodes(toAck, RMax) = toAck
    OBVIOUS
<1>3. /\ RMax <= Cardinality(toAck) => Cardinality(toAck) <= Cardinality(toAck) - RMax
      /\ Cardinality(toAck) < RMax => Cardinality(toAck) = 0
    BY <1>1, <1>2, FirstNodesRest
<1>4. Cardinality(toAck) \in Nat /\ Cardinality(toAck) # 0
    BY <1>1, FS_CardinalityType, FS_EmptySet
<1> QED  BY <1>1, <1>3, <1>4

-----------------------------------------------------------------------------
(* It holds at the start. *)
LEMMA InitLossless == Init => LosslessInv
<1> SUFFICES ASSUME Init PROVE LosslessInv
    OBVIOUS
<1> USE DEF Init, DelayNetInit, PSenderInit, PReceiverInit
<1>1. InvWire /\ InvLast
    BY DEF InvWire, InvLast
<1>2. InvReceiverEnd /\ InvUnderWay
    BY DEF InvReceiverEnd, InvUnderWay
<1>3. InvPass /\ NoGiveUp
    BY DEF InvPass, NoGiveUp
<1> QED  BY <1>1, <1>2, <1>3 DEF LosslessInv

(* A step that changes no more than what the source has written and where
   psender is, and does not start its select. *)
LEMMA LosslessSenderFrame ==
    ASSUME LosslessInv,
           UNCHANGED <<netR, netS, ticked, nread, sToSend, sFinalize,
                       preceiverVars>>,
           \/ sPc' = sPc
           \/ sPc' \in {"send", "read", "check"} /\ sPc # "exited"
           \/ sPc' = "exited" /\ sToSend = {}
    PROVE  LosslessInv'
<1> USE DEF preceiverVars
<1>1. InvWire' /\ InvLast'
    BY DEF LosslessInv, InvWire, InvLast
<1>2. InvReceiverEnd'
    BY DEF LosslessInv, InvReceiverEnd
<1>3. InvUnderWay'
    BY DEF LosslessInv, InvUnderWay
<1>4. InvPass' /\ NoGiveUp'
    BY DEF LosslessInv, InvPass, NoGiveUp
<1> QED  BY <1>1, <1>2, <1>3, <1>4 DEF LosslessInv

(* psender sends all that it keeps, and the ending packet not before it has
   read all; it forgets a packet only for an ack that has come. *)
LEMMA LosslessSender ==
    ASSUME TypeOK, IInv, LosslessInv, Sender
    PROVE  LosslessInv'
<1> USE DEF preceiverVars
<1>0. PSenderStep /\ UNCHANGED preceiverVars
    BY DEF Sender
<1>a. ~endingRead => /\ ~sFinalize /\ ~rFinalize /\ rPc # "exited"
    BY DEF IInv, InvEnd, LosslessInv, InvLast, InvReceiverEnd
<1>1. CASE SendPackets
  <2>1. /\ netR' = netR \cup {BodyPkt(sChannel, p) : p \in sToSend}
        /\ sFinalize' = (sFinalize \/ \E p \in sToSend : p.id = 0)
        /\ sPc' = "select" /\ ticked' = FALSE
        /\ UNCHANGED <<netS, nread, sToSend>>
      BY <1>1 DEF SendPackets
  <2>2. \A p \in sToSend : /\ BodyPkt(sChannel, p) \in netR'
                           /\ BodyPkt(sChannel, p).type = "B"
                           /\ BodyPkt(sChannel, p).id = p.id
      BY <2>1 DEF BodyPkt
  <2>3. \A m \in netR' : \/ m \in netR
                         \/ m.type = "B" /\ \E p \in sToSend : m.id = p.id
      BY <2>1 DEF BodyPkt
  <2>4. InvWire'
      BY <2>1, <2>3 DEF LosslessInv, InvWire
  <2>5. InvLast'
    <3>1. \A n \in 1 .. nread : \/ n <= Len(delivered)
                                \/ \E m \in netR' : m.id = n
        BY <2>2 DEF IInv, NothingForgotten, InvSenderList
    <3>2. (\E m \in netR' : m.id = 0) => sFinalize'
        BY <2>1, <2>3 DEF LosslessInv, InvLast
    <3> QED  BY <1>0, <2>1, <3>1, <3>2 DEF LosslessInv, InvLast
  <2>6. InvReceiverEnd'
      BY <1>0, <2>1 DEF LosslessInv, InvReceiverEnd
  <2>7. InvUnderWay'
      BY <1>0, <2>1, <2>2 DEF LosslessInv, InvUnderWay
  <2>8. InvPass' /\ NoGiveUp'
      BY <1>0, <2>1 DEF LosslessInv, InvPass, NoGiveUp
  <2> QED  BY <2>4, <2>5, <2>6, <2>7, <2>8 DEF LosslessInv
<1>2. ASSUME NEW r \in BOOLEAN, SSelect(r) PROVE LosslessInv'
    BY <1>0, <1>2, LosslessSenderFrame DEF SSelect, netVars
<1>3. CASE ReadChunk \/ ReadEnd
  <2>1. /\ ~endingRead /\ sPc = "read"
        /\ UNCHANGED <<netR, netS, ticked, sPc, sFinalize>>
      BY <1>3 DEF ReadChunk, ReadEnd, RoomToRead, netVars
  <2>2. ~sFinalize /\ ~rFinalize /\ rPc # "exited"
      BY <1>a, <2>1
  <2>3. \A p \in sToSend' : p \in sToSend \/ p.id = 0 \/ p.id >= lastSentId
      BY <1>3, Counts DEF ReadChunk, ReadEnd, Ending
  <2>4. InvWire' /\ InvLast'
      BY <1>0, <2>1, <2>2 DEF LosslessInv, InvWire, InvLast
  <2>5. InvReceiverEnd'
      BY <1>0, <2>2 DEF LosslessInv, InvReceiverEnd
  <2>6. InvUnderWay'
    <3>1. \A p \in sToSend' : p.id \in Int
        BY <1>3, Counts DEF ReadChunk, ReadEnd, Ending
    <3>2. lastSentId \in Int
        BY Counts
    <3> QED  BY <1>0, <2>1, <2>2, <2>3, <3>1, <3>2 DEF LosslessInv, InvUnderWay
  <2>7. InvPass' /\ NoGiveUp'
      BY <1>0, <2>1 DEF LosslessInv, InvPass, NoGiveUp
  <2> QED  BY <2>4, <2>5, <2>6, <2>7 DEF LosslessInv
<1>4. CASE LeaveRead
    BY <1>0, <1>4, LosslessSenderFrame DEF LeaveRead, EndOfPass, netVars
<1>5. ASSUME NEW m \in netS, RecvAck(m) PROVE LosslessInv'
  <2>1. /\ sPc = "check" /\ sPc' = "check" /\ netS' \in Remains(netS, m)
        /\ m.type = "B"
        /\ sToSend' = RemoveNodeById(sToSend, m.body)
        /\ UNCHANGED <<netR, ticked, nread, sFinalize>>
      BY <1>5 DEF RecvAck
  <2>2. sToSend' \subseteq sToSend /\ \A p \in sToSend' : p.id # m.body
    <3>1. sToSend' \subseteq sToSend
        BY <2>1, RemoveFacts
    <3>2. \A p, q \in sToSend : p.id = q.id => p = q
        BY DEF TypeOK, Node, IInv, InvSenderList
    <3>3. \A p \in sToSend : Position(p) <= Position(p)
        BY ConstantsAssumption DEF TypeOK, Node, Position
    <3> QED  BY <2>1, <3>1, <3>2, <3>3 DEF RemoveNodeById
  <2>3. \A x \in netS : x = m \/ x \in netS'
      BY <2>1, RemainsRest
  <2>4. InvWire' /\ InvLast'
      BY <1>0, <2>1 DEF LosslessInv, InvWire, InvLast
  <2>5. InvReceiverEnd'
      BY <1>0, <2>1 DEF LosslessInv, InvReceiverEnd
  <2>6. InvUnderWay'
    <3>1. Ending.id = 0
        BY DEF Ending
    <3> QED  BY <1>0, <2>1, <2>2, <2>3, <3>1 DEF LosslessInv, InvUnderWay
  <2>7. InvPass' /\ NoGiveUp'
      BY <1>0, <2>1 DEF LosslessInv, InvPass, NoGiveUp
  <2> QED  BY <2>4, <2>5, <2>6, <2>7 DEF LosslessInv
<1>6. ASSUME NEW m \in netS, SRecvIcmp(m) PROVE LosslessInv'
  <2>1. /\ sPc = "check" /\ sPc' = "check" /\ netS' \in Remains(netS, m)
        /\ m.type = "I"
        /\ UNCHANGED <<netR, ticked, nread, sFinalize, sToSend>>
      BY <1>6 DEF SRecvIcmp
  <2>2. \A x \in netS : x = m \/ x \in netS'
      BY <2>1, RemainsRest
  <2>3. InvWire' /\ InvLast'
      BY <1>0, <2>1 DEF LosslessInv, InvWire, InvLast
  <2>4. InvReceiverEnd'
      BY <1>0, <2>1 DEF LosslessInv, InvReceiverEnd
  <2>5. InvUnderWay'
      BY <1>0, <2>1, <2>2 DEF LosslessInv, InvUnderWay
  <2>6. InvPass' /\ NoGiveUp'
      BY <1>0, <2>1 DEF LosslessInv, InvPass, NoGiveUp
  <2> QED  BY <2>3, <2>4, <2>5, <2>6 DEF LosslessInv
<1>7. CASE LeaveCheck
    BY <1>0, <1>7, LosslessSenderFrame DEF LeaveCheck, EndOfPass, netVars
<1> QED
    BY <1>0, <1>1, <1>2, <1>3, <1>4, <1>5, <1>6, <1>7 DEF PSenderStep

(* A step of preceiver that takes nothing from the network and changes no
   more than where preceiver is, on its way round the loop. *)
LEMMA LosslessReceiverFrame ==
    ASSUME InvAcks, LosslessInv,
           UNCHANGED <<sourceVars, psenderVars, ticked, netR, netS, rToSend,
                       toAck, rFinalize, lastSentId, delivered>>,
           \/ rPc' = "exited" /\ rPc = "loop" /\ rFinalize /\ rToSend = {} /\ toAck = {}
           \/ rPc' = "deliver" /\ rPc = "loop" /\ rCount' = rCount
           \/ rPc' = "recv" /\ rPc = "select" /\ rCount' = rCount
           \/ rPc' = "loop" /\ rPc = "recv" /\ rCount > 0
    PROVE  LosslessInv'
<1> USE DEF psenderVars
<1>1. InvWire' /\ InvLast'
    BY DEF LosslessInv, InvWire, InvLast
<1>2. InvReceiverEnd'
    BY DEF LosslessInv, InvReceiverEnd, InvAcks
<1>3. InvUnderWay'
    BY DEF LosslessInv, InvUnderWay
<1>4. InvPass' /\ NoGiveUp'
    BY DEF LosslessInv, InvPass, NoGiveUp, InvAcks
<1> QED  BY <1>1, <1>2, <1>3, <1>4 DEF LosslessInv

(* preceiver takes no packet from the network that it does not put on one of
   its lists, from a list none but to the sink or for an ack, and a pass with
   something to acknowledge acknowledges something. *)
LEMMA LosslessReceiver ==
    ASSUME Lossless, TypeOK, IInv, InvAcks, LosslessInv, Receiver
    PROVE  LosslessInv'
<1> USE DEF psenderVars
<1>0. PReceiverStep /\ UNCHANGED <<sourceVars, psenderVars, ticked>>
    BY DEF Receiver
<1>1. CASE RTop
    BY <1>0, <1>1, LosslessReceiverFrame DEF RTop, netVars
<1>2. ASSUME NEW p \in rToSend, SendToReceiver(p) PROVE LosslessInv'
  <2>1. /\ rPc = "deliver" /\ rPc' = "deliver" /\ p.id = lastSentId
        /\ toAck' = InsertById(toAck, p) /\ rToSend' = rToSend \ {p}
        /\ lastSentId' = (lastSentId + 1) % IdMod
        /\ delivered' = Append(delivered, p.body)
        /\ UNCHANGED <<netR, netS, rFinalize>>
      BY <1>2 DEF SendToReceiver, netVars
  <2>2. Len(delivered') = Len(delivered) + 1
      BY <2>1 DEF TypeOK, Node
  <2>3. /\ toAck \subseteq toAck' /\ toAck' \subseteq toAck \cup {p}
        /\ toAck' # {} /\ \E q \in toAck' : q.id = p.id
      BY <2>1, InsertFacts, InsertedId
  <2>4. \A q \in rToSend : q.id = lastSentId \/ q \in rToSend'
      BY <2>1
  <2>5. InvWire'
      BY <1>0, <2>1 DEF LosslessInv, InvWire
  <2>6. InvLast'
    <3>1. (\E q \in toAck' : q.id = 0) => \E q \in toAck : q.id = 0
        BY <2>1, <2>3, Counts
    <3>2. \A n \in 1 .. nread : n = lastSentId => n <= Len(delivered')
        BY <2>2, Counts
    <3>3. \A n \in 1 .. nread : n <= Len(delivered) => n <= Len(delivered')
        BY <2>2, Counts
    <3> QED  BY <1>0, <2>1, <2>4, <3>1, <3>2, <3>3 DEF LosslessInv, InvLast
  <2>7. InvReceiverEnd'
      BY <2>1 DEF InvReceiverEnd
  <2>8. InvUnderWay'
    <3>1. \A q \in sToSend : q.id # 0 /\ q.id < lastSentId' =>
              q.id < lastSentId \/ q.id = p.id
      <4>1. lastSentId' <= lastSentId + 1
          BY <2>1, Counts, ConstantsAssumption
      <4>2. \A q \in sToSend : q.id \in Nat
          BY Counts
      <4>3. lastSentId' \in Nat /\ lastSentId \in Nat
          BY <2>1, Counts, ConstantsAssumption, ModRange
      <4> QED  BY <2>1, <4>1, <4>2, <4>3
    <3> QED  BY <1>0, <2>1, <2>3, <3>1 DEF LosslessInv, InvUnderWay
  <2>9. InvPass' /\ NoGiveUp'
      BY <1>0, <2>1, <2>3 DEF LosslessInv, InvPass, NoGiveUp
  <2> QED  BY <2>5, <2>6, <2>7, <2>8, <2>9 DEF LosslessInv
<1>3. CASE EndDeliver
  <2>1. /\ rPc = "deliver" /\ rPc' = "ack"
        /\ rCount = RMax \/ \A p \in rToSend : p.id # lastSentId
        /\ UNCHANGED <<netR, netS, rToSend, toAck, rFinalize, lastSentId,
                       delivered>>
      BY <1>3 DEF EndDeliver, netVars
  <2>2. InvWire' /\ InvLast'
      BY <1>0, <2>1 DEF LosslessInv, InvWire, InvLast
  <2>3. InvReceiverEnd'
      BY <2>1 DEF InvReceiverEnd
  <2>4. InvUnderWay'
      BY <1>0, <2>1 DEF LosslessInv, InvUnderWay
  <2>5. InvPass' /\ NoGiveUp'
      BY <1>0, <2>1, ConstantsAssumption DEF LosslessInv, InvPass, NoGiveUp
  <2> QED  BY <2>2, <2>3, <2>4, <2>5 DEF LosslessInv
<1>4. CASE AckPackets
  <2> DEFINE acked == FirstNodes(toAck, RMax)
             acks  == {AckPkt(rChannel, p.id) : p \in acked}
  <2>1. /\ rPc = "ack" /\ rPc' = "select"
        /\ netS' = netS \cup acks /\ toAck' = toAck \ acked
        /\ rFinalize' = (rFinalize \/ \E p \in acked : p.id = 0)
        /\ UNCHANGED <<netR, rToSend, lastSentId, delivered>>
      BY <1>4 DEF AckPackets
  <2>2. acked \subseteq toAck
      BY DEF FirstNodes
  <2>3. \A p \in acked : \E m \in netS' : m.type = "B" /\ m.body = p.id
    <3>1. \A p \in acked : AckPkt(rChannel, p.id) \in netS'
        BY <2>1
    <3>2. \A p \in acked : /\ AckPkt(rChannel, p.id).type = "B"
                           /\ AckPkt(rChannel, p.id).body = p.id
        BY DEF AckPkt
    <3> HIDE DEF acked
    <3> QED  BY <3>1, <3>2
  <2>4. toAck # {} => netS' # {}
      BY <2>1, FirstNodesSome
  <2>5. netS \subseteq netS' /\ toAck' \subseteq toAck
      BY <2>1
  <2>6. InvWire'
      BY <1>0, <2>1 DEF LosslessInv, InvWire
  <2>7. InvLast'
      BY <1>0, <2>1, <2>2, <2>5 DEF LosslessInv, InvLast
  <2>8. InvReceiverEnd'
      BY <2>1 DEF InvReceiverEnd
  <2>9. InvUnderWay'
    <3>1. UNCHANGED <<sPc, sToSend, netR, rToSend, lastSentId>>
        BY <1>0, <2>1
    <3>2. ASSUME sPc' = "select", NEW p \in sToSend
          PROVE  \/ \E m \in netR' : m.id = p.id
                 \/ \E q \in rToSend' : q.id = p.id
                 \/ toAck' # {} \/ netS' # {}
        BY <2>4, <2>5, <3>1, <3>2 DEF LosslessInv, InvUnderWay
    <3>3. ASSUME NEW p \in sToSend, p.id # 0, p.id < lastSentId
          PROVE  \/ \E q \in toAck' : q.id = p.id
                 \/ \E m \in netS' : m.type = "B" /\ m.body = p.id
      <4>1. CASE \E q \in toAck : q.id = p.id
          BY <2>1, <2>3, <4>1
      <4>2. CASE \E m \in netS : m.type = "B" /\ m.body = p.id
          BY <2>5, <4>2
      <4> QED  BY <3>3, <4>1, <4>2 DEF LosslessInv, InvUnderWay
    <3>4. rFinalize' /\ Ending \in sToSend
              => \E m \in netS' : m.type = "B" /\ m.body = 0
        BY <2>1, <2>3, <2>5 DEF LosslessInv, InvUnderWay
    <3> QED  BY <3>1, <3>2, <3>3, <3>4 DEF InvUnderWay
  <2>10. InvPass' /\ NoGiveUp'
      BY <1>0, <2>1, <2>2, <2>4 DEF LosslessInv, InvPass, NoGiveUp
  <2> QED  BY <2>6, <2>7, <2>8, <2>9, <2>10 DEF LosslessInv
<1>5. CASE RSelect
    BY <1>0, <1>5, LosslessReceiverFrame DEF RSelect, netVars
<1>6. ASSUME NEW m \in netR, RecvBody(m) PROVE LosslessInv'
  <2> DEFINE node == [id |-> m.id, body |-> m.body]
  <2>1. /\ rPc = "recv" /\ rPc' = "recv" /\ netR' \in Remains(netR, m)
        /\ UNCHANGED <<netS, rFinalize, lastSentId, delivered>>
      BY <1>6 DEF RecvBody
  <2>2. netR' \subseteq netR /\ \A x \in netR : x = m \/ x \in netR'
      BY <2>1, RemainsSubset, RemainsRest
  <2>3. /\ rToSend \subseteq rToSend' /\ toAck \subseteq toAck'
        /\ toAck' \subseteq toAck \cup {node}
        /\ rToSend' # {} \/ toAck' # {}
        /\ (\E q \in rToSend' : q.id = m.id) \/ (m.id < lastSentId /\ toAck' # {})
    <3>1. node.id = m.id
        OBVIOUS
    <3>2. m.id \in Nat /\ lastSentId \in Nat
        BY Counts
    <3>3. CASE m.id >= lastSentId
      <4>1. rToSend' = InsertById(rToSend, node) /\ toAck' = toAck
          BY <1>6, <3>3 DEF RecvBody
      <4> QED  BY <3>1, <4>1, InsertFacts, InsertedId
    <3>4. CASE m.id < lastSentId
      <4>1. /\ rToSend' = rToSend
            /\ toAck' = IF Cardinality(toAck) < RMax
                        THEN InsertById(toAck, node) ELSE toAck
          BY <1>6, <3>2, <3>4 DEF RecvBody
      <4>2. /\ toAck \subseteq InsertById(toAck, node)
            /\ InsertById(toAck, node) \subseteq toAck \cup {node}
            /\ InsertById(toAck, node) # {}
          BY InsertFacts, InsertedId
      <4>3. toAck' # {}
          BY <4>1, <4>2, NoRoomNotEmpty
      <4> QED  BY <3>4, <4>1, <4>2, <4>3
    <3> QED  BY <3>2, <3>3, <3>4
  <2>4. InvWire'
      BY <1>0, <2>2 DEF LosslessInv, InvWire
  <2>5. InvLast'
    <3>1. m.id < lastSentId => m.id <= Len(delivered)
        BY Counts
    <3> QED  BY <1>0, <2>1, <2>2, <2>3, <3>1 DEF LosslessInv, InvLast
  <2>6. InvReceiverEnd'
      BY <2>1, <2>3 DEF InvReceiverEnd
  <2>7. InvUnderWay'
      BY <1>0, <2>1, <2>2, <2>3 DEF LosslessInv, InvUnderWay
  <2>8. InvPass' /\ NoGiveUp'
      BY <1>0, <2>1 DEF LosslessInv, InvPass, NoGiveUp
  <2> QED  BY <2>4, <2>5, <2>6, <2>7, <2>8 DEF LosslessInv
<1>7. ASSUME NEW m \in netR, RRecvIcmp(m) PROVE FALSE
    BY <1>7 DEF RRecvIcmp, LosslessInv, InvWire
<1>8. CASE EndRecv
    BY <1>0, <1>8, LosslessReceiverFrame DEF EndRecv, netVars
<1>9. ~SinkFails
    BY DEF Lossless, SinkFails
<1> QED
    BY <1>0, <1>1, <1>2, <1>3, <1>4, <1>5, <1>6, <1>7, <1>8, <1>9
       DEF PReceiverStep

-----------------------------------------------------------------------------
(* preceiver's timeout finds the network empty: with its lists empty too and
   the ending packet acknowledged, the sink has everything. *)
LEMMA LosslessReceiverTimeout ==
    ASSUME Lossless, TypeOK, IInv, LosslessInv, ReceiverTimeout
    PROVE  LosslessInv'
<1> USE DEF psenderVars, sourceVars
<1>1. /\ netR = {} /\ rPc = "select" /\ rPc' = "loop"
      /\ UNCHANGED <<netR, netS, rToSend, toAck, rFinalize, lastSentId,
                     rCount, delivered, psenderVars>>
    BY DEF Lossless, ReceiverTimeout, RTimeout, netVars
<1>2. InvWire' /\ InvLast'
    BY <1>1 DEF LosslessInv, InvWire, InvLast
<1>3. InvReceiverEnd'
  <2>1. rFinalize /\ rToSend = {} => Len(delivered) = nread
    <3>1. rFinalize /\ rToSend = {} => \A n \in 1 .. nread : n <= Len(delivered)
        BY <1>1 DEF LosslessInv, InvLast
    <3> QED  BY <3>1, Counts
  <2> QED  BY <1>1, <2>1 DEF InvReceiverEnd
<1>4. InvUnderWay'
    BY <1>1 DEF LosslessInv, InvUnderWay
<1>5. InvPass' /\ NoGiveUp'
    BY <1>1 DEF LosslessInv, InvPass, NoGiveUp
<1> QED  BY <1>2, <1>3, <1>4, <1>5 DEF LosslessInv

(* psender's timeout finds nothing on its way to it and preceiver waiting, in
   a pass of its own timeout, or gone: psender's list is empty then. *)
LEMMA LosslessSenderTimeout ==
    ASSUME Lossless, TypeOK, IInv, LosslessInv, SenderTimeout
    PROVE  LosslessInv'
<1>1. /\ sPc = "select" /\ sPc' = "exited" /\ netS = {}
      /\ \/ rPc = "exited"
         \/ rPc = "select" /\ netR = {} /\ ticked
      /\ UNCHANGED <<netR, netS, ticked, nread, sToSend, sFinalize,
                     preceiverVars>>
    BY DEF Lossless, SenderTimeout, STimeout, SenderWaits, ReceiverWaits, netVars
<1>2. ASSUME NEW p \in sToSend PROVE FALSE
  <2>1. CASE rPc = "exited"
    <3>1. rFinalize /\ toAck = {} /\ Len(delivered) = nread
        BY <2>1 DEF LosslessInv, InvReceiverEnd
    <3>2. p # Ending
        BY <1>1, <3>1 DEF LosslessInv, InvUnderWay
    <3>3. p.id # 0 /\ p.id < lastSentId
        BY <3>1, <3>2, Counts DEF TypeOK, Node, Ending, IInv, InvSenderList
    <3> QED  BY <1>1, <3>1, <3>3 DEF LosslessInv, InvUnderWay
  <2>2. CASE rPc = "select" /\ netR = {} /\ ticked
    <3>1. toAck = {} /\ \A q \in rToSend : q.id # lastSentId
        BY <1>1, <2>2 DEF LosslessInv, InvPass
    <3>2. \A s \in sToSend : \E q \in rToSend : q.id = s.id
        BY <1>1, <2>2, <3>1 DEF LosslessInv, InvUnderWay
    <3>3. lastSentId \in 1 .. nread /\ ~(lastSentId <= Len(delivered))
        BY <3>2, Counts DEF IInv, InvReceiverLists
    <3>4. PICK s \in sToSend : s.body = lastSentId
        BY <3>3 DEF IInv, NothingForgotten
    <3>5. s.id = lastSentId
        BY <3>4 DEF IInv, InvSenderList
    <3> QED  BY <3>1, <3>2, <3>5
  <2> QED  BY <1>1, <2>1, <2>2
<1> QED  BY <1>1, <1>2, LosslessSenderFrame

(* Every step keeps the invariant. *)
LEMMA NextLossless ==
    ASSUME Lossless, TypeOK, IInv, InvAcks, LosslessInv, [Next]_vars
    PROVE  LosslessInv'
<1>1. CASE Network
    BY <1>1 DEF Lossless, Network, DelayNetNext, ChangeBurst, DropSilently,
                DropWithIcmp
<1>2. CASE Source \/ Finished \/ UNCHANGED vars
  <2>1. UNCHANGED <<netVars, psenderVars, ticked, preceiverVars>>
      BY <1>2 DEF Source, SourceNext, Finished, vars
  <2> QED  BY <2>1, LosslessSenderFrame DEF netVars, psenderVars
<1> QED
    BY <1>1, <1>2, LosslessSender, LosslessReceiver, LosslessReceiverTimeout,
       LosslessSenderTimeout
       DEF Next

(* The inductive invariant of a run that loses nothing. *)
THEOREM LosslessInvariant == NoIdWrap /\ Lossless => (Spec => []LosslessInv)
<1> SUFFICES ASSUME NoIdWrap, Lossless PROVE Spec => []LosslessInv
    OBVIOUS
<1>1. TypeOK /\ IInv /\ InvAcks /\ LosslessInv /\ [Next]_vars => LosslessInv'
    BY NextLossless
<1> QED
    BY <1>1, InitLossless, TypeCorrect, Invariant, AcksInvariant, PTL DEF Spec

(* preceiver ends the sink's stream, and reports a complete transfer, only
   when the sink has got all that psender reads of the source. *)
THEOREM CompleteExitHolds == NoIdWrap /\ Lossless => (Spec => []CompleteExit)
<1>1. IInv /\ LosslessInv => CompleteExit
    BY DEF IInv, InvEnd, LosslessInv, InvLast, InvReceiverEnd, CompleteExit
<1> QED  BY <1>1, Invariant, LosslessInvariant, PTL

(* psender never exits with a packet that is not acknowledged: its timeout
   only ends a transfer that is over, or one that the source keeps idle. *)
THEOREM NoGiveUpHolds == NoIdWrap /\ Lossless => (Spec => []NoGiveUp)
<1>1. LosslessInv => NoGiveUp
    BY DEF LosslessInv
<1> QED  BY <1>1, LosslessInvariant, PTL

(* Two programs that have both exited agree: all that the source wrote has
   arrived and psender's exit says so.  A reset of the source, which psender
   does not report, is excluded. *)
THEOREM ExitsAgreeHolds ==
    NoIdWrap /\ Lossless /\ "reset" \notin Faults => (Spec => []ExitsAgree)
<1> SUFFICES ASSUME NoIdWrap, Lossless, "reset" \notin Faults
             PROVE  Spec => []ExitsAgree
    OBVIOUS
<1>1. TypeOK /\ IInv /\ LosslessInv /\ NotReset => ExitsAgree
  <2> SUFFICES ASSUME TypeOK, IInv, LosslessInv, NotReset,
                      sPc = "exited", rPc = "exited"
               PROVE  Len(delivered) = written /\ Verdict = "confirmed"
      BY DEF ExitsAgree
  <2>1. rFinalize /\ rToSend = {} /\ toAck = {} /\ Len(delivered) = nread
      BY DEF LosslessInv, InvReceiverEnd
  <2>2. sFinalize /\ sToSend = {}
      BY <2>1 DEF LosslessInv, InvLast, NoGiveUp
  <2>3. nread = written
      BY <2>2, AllAcked DEF NotReset
  <2> QED  BY <2>1, <2>2, <2>3, VerdictCases
<1> QED
    BY <1>1, TypeCorrect, Invariant, LosslessInvariant, NeverReset, PTL
=============================================================================
