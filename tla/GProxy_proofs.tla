--------------------------- MODULE GProxy_proofs ----------------------------
(***************************************************************************)
(* Proofs about GProxy, for every value of its constants.                  *)
(***************************************************************************)
EXTENDS GProxy, TLAPS, FiniteSetTheorems

(* The id counters stay in the range of an unsigned int. *)
LEMMA ModRange ==
    ASSUME NEW a \in Nat, NEW b \in Nat, b > 0
    PROVE  a % b \in 0 .. b - 1
BY SMT

(* An id that does not overflow is the number it counts. *)
LEMMA ModSmall ==
    ASSUME NEW a \in Nat, NEW b \in Nat, a < b
    PROVE  a % b = a
BY SMT

(* What a receive or a drop leaves in the network was there before. *)
LEMMA RemainsSubset ==
    ASSUME NEW net, NEW m, NEW left \in Remains(net, m)
    PROVE  left \subseteq net
BY DEF Remains

(* removeNodeById removes nothing but nodes with that id. *)
LEMMA RemoveFacts ==
    ASSUME NEW list, NEW id
    PROVE  /\ RemoveNodeById(list, id) \subseteq list
           /\ \A p \in list \ RemoveNodeById(list, id) : p.id = id
BY DEF RemoveNodeById

(* insertNodeById adds at most the node. *)
LEMMA InsertFacts ==
    ASSUME NEW list, NEW p
    PROVE  /\ list \subseteq InsertById(list, p)
           /\ InsertById(list, p) \subseteq list \cup {p}
BY DEF InsertById

-----------------------------------------------------------------------------
(* The type invariant holds whatever the ids do. *)

(* Every variable starts with its type. *)
LEMMA InitType == Init => TypeOK
<1> SUFFICES ASSUME Init PROVE TypeOK
    OBVIOUS
<1> USE ConstantsAssumption DEF Init, DelayNetInit, PSenderInit, PReceiverInit
<1>1. currentId \in Ids /\ lastSentId \in Ids /\ sChannel \in Channels /\ rChannel \in Channels
    BY DEF Ids, Channels
<1>2. delivered \in Seq(0 .. NumChunks)
    OBVIOUS
<1>3. /\ sFinalize \in BOOLEAN /\ endingRead \in BOOLEAN /\ rFinalize \in BOOLEAN
      /\ sRitReady \in BOOLEAN /\ ticked \in BOOLEAN
    OBVIOUS
<1>4. /\ written \in 0 .. NumChunks /\ readable \in 0 .. written
      /\ nread \in 0 .. readable
      /\ sCount \in 0 .. SMax /\ rCount \in 0 .. RMax
    OBVIOUS
<1>5. /\ netR \subseteq ToReceiver /\ netS \subseteq ToSender
      /\ burst \subseteq Channels
      /\ sToSend \subseteq Node /\ rToSend \subseteq Node /\ toAck \subseteq Node
    OBVIOUS
<1>6. srcState = "open" /\ sPc = "send" /\ rPc = "loop"
    OBVIOUS
<1> HIDE ConstantsAssumption DEF Init, DelayNetInit, PSenderInit, PReceiverInit
<1> QED  BY <1>1, <1>2, <1>3, <1>4, <1>5, <1>6 DEF TypeOK

(* What the network drops, and the notes it sends, are datagrams. *)
LEMMA NetworkType == TypeOK /\ Network => TypeOK'
<1> SUFFICES ASSUME TypeOK, Network PROVE TypeOK'
    OBVIOUS
<1> USE DEF Network, sourceVars, psenderVars, preceiverVars
<1>1. netR' \subseteq ToReceiver /\ netS' \subseteq ToSender /\ burst' \subseteq Channels
  <2>1. CASE \E ch \in Channels : ChangeBurst(ch)
      BY <2>1 DEF TypeOK, ChangeBurst
  <2>2. CASE DropSilently
      BY <2>2 DEF TypeOK, DropSilently
  <2>3. CASE DropWithIcmp
    <3>1. \A ch \in Channels : IcmpPkt(ch) \in ToReceiver /\ IcmpPkt(ch) \in ToSender
        BY ConstantsAssumption DEF IcmpPkt, ToReceiver, ToSender, Ids
    <3>2. \A m \in netR \cup netS : m.ch \in Channels
        BY DEF TypeOK, ToReceiver, ToSender
    <3> QED  BY <2>3, <3>1, <3>2, RemainsSubset DEF TypeOK, DropWithIcmp
  <2> QED  BY <2>1, <2>2, <2>3 DEF DelayNetNext
<1> QED  BY <1>1 DEF TypeOK

(* The source writes no more than NumChunks. *)
LEMMA SourceType == TypeOK /\ Source => TypeOK'
<1> SUFFICES ASSUME TypeOK, Source PROVE TypeOK'
    OBVIOUS
<1>1. /\ written' \in 0 .. NumChunks /\ readable' \in 0 .. written'
      /\ nread \in 0 .. readable'
      /\ srcState' \in {"open", "closed", "reset"}
    BY ConstantsAssumption
       DEF TypeOK, Source, SourceNext, SourceWrite, SourceClose, SourceReset
<1> QED
    BY <1>1 DEF TypeOK, Source, SourceNext, netVars, psenderVars, preceiverVars

(* The types of what EndOfPass assigns. *)
EndOfPassType ==
    /\ sPc' \in {"send", "select", "read", "check", "exited"}
    /\ sRitReady' \in BOOLEAN
    /\ sCount' \in 0 .. SMax

(* The end of a pass of psender leaves well-typed control variables. *)
LEMMA EndOfPassTyped == EndOfPass => EndOfPassType
<1> SUFFICES ASSUME EndOfPass PROVE EndOfPassType
    OBVIOUS
<1>1. sPc' = "exited" \/ sPc' = "send"
    BY DEF EndOfPass
<1>2. sRitReady' \in BOOLEAN
    BY DEF EndOfPass
<1>3. sCount' \in 0 .. SMax
    BY ConstantsAssumption DEF EndOfPass
<1> QED  BY <1>1, <1>2, <1>3 DEF EndOfPassType

(* psender keeps the types: its ids, its channel and its counter in range. *)
LEMMA SenderType == TypeOK /\ Sender => TypeOK'
<1> SUFFICES ASSUME TypeOK, PSenderStep, UNCHANGED preceiverVars, UNCHANGED sourceVars
             PROVE  TypeOK'
    BY DEF Sender, PSenderStep
<1> USE DEF preceiverVars, sourceVars
<1>1. CASE SendPackets
  <2>1. \A p \in sToSend : BodyPkt(sChannel, p) \in ToReceiver
      BY DEF TypeOK, BodyPkt, ToReceiver, Node
  <2>2. netR' \subseteq ToReceiver
      BY <1>1, <2>1 DEF TypeOK, SendPackets
  <2>3. sFinalize' \in BOOLEAN
      BY <1>1 DEF TypeOK, SendPackets
  <2> QED  BY <1>1, <2>2, <2>3 DEF TypeOK, SendPackets
<1>2. ASSUME NEW r \in BOOLEAN, SSelect(r) PROVE TypeOK'
    BY <1>2, ConstantsAssumption DEF TypeOK, SSelect, netVars
<1>3. CASE ReadChunk
  <2>1. currentId' \in Ids
      BY <1>3, ConstantsAssumption, ModRange DEF TypeOK, ReadChunk, Ids
  <2>2. nread' \in 0 .. readable'
      BY <1>3 DEF TypeOK, ReadChunk
  <2>3. [id |-> currentId, body |-> nread + 1] \in Node
      BY <1>3, ConstantsAssumption DEF TypeOK, ReadChunk, Node
  <2> QED  BY <1>3, <2>1, <2>2, <2>3 DEF TypeOK, ReadChunk, netVars
<1>4. CASE ReadEnd
  <2>1. Ending \in Node
      BY ConstantsAssumption DEF Ending, Node, Ids
  <2> QED  BY <1>4, <2>1 DEF TypeOK, ReadEnd, netVars
<1>5. CASE LeaveRead
  <2>1. EndOfPassType
      BY <1>5, EndOfPassTyped DEF TypeOK, LeaveRead, EndOfPassType
  <2> QED  BY <1>5, <2>1 DEF TypeOK, LeaveRead, EndOfPassType, netVars
<1>6. ASSUME NEW m \in netS, RecvAck(m) PROVE TypeOK'
  <2>1. netS' \subseteq ToSender
      BY <1>6, RemainsSubset DEF TypeOK, RecvAck
  <2>2. sToSend' \subseteq Node
      BY <1>6, RemoveFacts DEF TypeOK, RecvAck
  <2>3. sCount' \in 0 .. SMax
      BY <1>6, ConstantsAssumption DEF TypeOK, RecvAck
  <2> QED  BY <1>6, <2>1, <2>2, <2>3 DEF TypeOK, RecvAck
<1>7. ASSUME NEW m \in netS, SRecvIcmp(m) PROVE TypeOK'
  <2>1. netS' \subseteq ToSender
      BY <1>7, RemainsSubset DEF TypeOK, SRecvIcmp
  <2>2. sChannel' \in Channels
      BY <1>7, ConstantsAssumption, ModRange DEF TypeOK, SRecvIcmp, Channels
  <2>3. sCount' \in 0 .. SMax
      BY <1>7, ConstantsAssumption DEF TypeOK, SRecvIcmp
  <2> QED  BY <1>7, <2>1, <2>2, <2>3 DEF TypeOK, SRecvIcmp
<1>8. CASE LeaveCheck
  <2>1. EndOfPassType
      BY <1>8, EndOfPassTyped DEF LeaveCheck
  <2> QED  BY <1>8, <2>1 DEF TypeOK, LeaveCheck, EndOfPassType, netVars
<1> QED
    BY <1>1, <1>2, <1>3, <1>4, <1>5, <1>6, <1>7, <1>8 DEF PSenderStep

(* preceiver keeps the types. *)
LEMMA ReceiverType == TypeOK /\ Receiver => TypeOK'
<1> SUFFICES ASSUME TypeOK, PReceiverStep, UNCHANGED <<sourceVars, psenderVars, ticked>>
             PROVE  TypeOK'
    BY DEF Receiver
<1> USE DEF sourceVars, psenderVars
<1>1. CASE RTop
    BY <1>1 DEF TypeOK, RTop, netVars
<1>2. ASSUME NEW p \in rToSend, SendToReceiver(p) PROVE TypeOK'
  <2>1. p \in Node /\ p.body \in 0 .. NumChunks
      BY DEF TypeOK, Node
  <2>2. delivered' \in Seq(0 .. NumChunks)
      BY <1>2, <2>1 DEF TypeOK, SendToReceiver
  <2>3. lastSentId' \in Ids
      BY <1>2, ConstantsAssumption, ModRange DEF TypeOK, SendToReceiver, Ids
  <2>4. rToSend' \subseteq Node /\ toAck' \subseteq Node
      BY <1>2, <2>1, InsertFacts DEF TypeOK, SendToReceiver
  <2>5. rCount' \in 0 .. RMax
      BY <1>2, ConstantsAssumption DEF TypeOK, SendToReceiver
  <2> QED  BY <1>2, <2>2, <2>3, <2>4, <2>5 DEF TypeOK, SendToReceiver, netVars
<1>3. CASE SinkFails
    BY <1>3 DEF TypeOK, SinkFails, netVars
<1>4. CASE EndDeliver
    BY <1>4, ConstantsAssumption DEF TypeOK, EndDeliver, netVars
<1>5. CASE AckPackets
  <2>1. FirstNodes(toAck, RMax) \subseteq toAck
      BY DEF FirstNodes
  <2>2. \A p \in toAck : AckPkt(rChannel, p.id) \in ToSender
      BY DEF TypeOK, AckPkt, ToSender, Node
  <2>3. netS' \subseteq ToSender /\ toAck' \subseteq Node
      BY <1>5, <2>1, <2>2 DEF TypeOK, AckPackets
  <2>4. rFinalize' \in BOOLEAN
      BY <1>5 DEF TypeOK, AckPackets
  <2> QED  BY <1>5, <2>3, <2>4 DEF TypeOK, AckPackets
<1>6. CASE RSelect
    BY <1>6 DEF TypeOK, RSelect, netVars
<1>7. ASSUME NEW m \in netR, RecvBody(m) PROVE TypeOK'
  <2> DEFINE node == [id |-> m.id, body |-> m.body]
  <2>1. node \in Node
      BY DEF TypeOK, ToReceiver, Node
  <2>2. rToSend' \subseteq Node /\ toAck' \subseteq Node
      BY <1>7, <2>1, InsertFacts DEF TypeOK, RecvBody
  <2>3. netR' \subseteq ToReceiver
      BY <1>7, RemainsSubset DEF TypeOK, RecvBody
  <2>4. rCount' \in 0 .. RMax
      BY <1>7, ConstantsAssumption DEF TypeOK, RecvBody
  <2> QED  BY <1>7, <2>2, <2>3, <2>4 DEF TypeOK, RecvBody
<1>8. ASSUME NEW m \in netR, RRecvIcmp(m) PROVE TypeOK'
  <2>1. netR' \subseteq ToReceiver
      BY <1>8, RemainsSubset DEF TypeOK, RRecvIcmp
  <2>2. rChannel' \in Channels
      BY <1>8, ConstantsAssumption, ModRange DEF TypeOK, RRecvIcmp, Channels
  <2>3. rCount' \in 0 .. RMax
      BY <1>8, ConstantsAssumption DEF TypeOK, RRecvIcmp
  <2> QED  BY <1>8, <2>1, <2>2, <2>3 DEF TypeOK, RRecvIcmp
<1>9. CASE EndRecv
    BY <1>9, ConstantsAssumption DEF TypeOK, EndRecv, netVars
<1> QED
    BY <1>1, <1>2, <1>3, <1>4, <1>5, <1>6, <1>7, <1>8, <1>9 DEF PReceiverStep

(* Every step of the proxy keeps the types. *)
LEMMA NextType == TypeOK /\ [Next]_vars => TypeOK'
<1> SUFFICES ASSUME TypeOK, [Next]_vars PROVE TypeOK'
    OBVIOUS
<1>1. CASE SenderTimeout
    BY <1>1 DEF TypeOK, SenderTimeout, STimeout, netVars, sourceVars, preceiverVars
<1>2. CASE ReceiverTimeout
    BY <1>2, ConstantsAssumption
       DEF TypeOK, ReceiverTimeout, RTimeout, netVars, sourceVars, psenderVars
<1>3. CASE UNCHANGED vars
    BY <1>3 DEF TypeOK, vars, netVars, sourceVars, psenderVars, preceiverVars
<1> QED
    BY <1>1, <1>2, <1>3, NetworkType, SourceType, SenderType, ReceiverType
       DEF Next, Finished

(* Every variable keeps its type, in every instance, also when ids wrap. *)
THEOREM TypeCorrect == Spec => []TypeOK
BY InitType, NextType, PTL DEF Spec

-----------------------------------------------------------------------------
(* The inductive invariant. *)

(* The inductive invariant holds before anything is read or sent. *)
LEMMA InitInv == Init => IInv
<1> SUFFICES ASSUME Init PROVE IInv
    OBVIOUS
<1> USE DEF Init, DelayNetInit, PSenderInit, PReceiverInit
<1>1. InvIds /\ Integrity /\ NothingForgotten
    BY DEF InvIds, Integrity, NothingForgotten
<1>2. InvSenderList
    BY FS_EmptySet, ConstantsAssumption DEF InvSenderList
<1>3. InvNetR /\ InvReceiverLists /\ InvEnd /\ AckedIsDelivered
    BY DEF InvNetR, InvReceiverLists, InvEnd, AckedIsDelivered
<1> QED  BY <1>1, <1>2, <1>3 DEF IInv

(* The network invents no packet: an ICMP note is not one. *)
LEMMA NetworkInv == IInv /\ Network => IInv'
<1> SUFFICES ASSUME IInv, Network PROVE IInv'
    OBVIOUS
<1> USE DEF Network, sourceVars, psenderVars, preceiverVars
<1>1. /\ \A m \in netR' : m.type = "B" => m \in netR
      /\ \A m \in netS' : m.type = "B" => m \in netS
  <2>1. CASE \E ch \in Channels : ChangeBurst(ch)
      BY <2>1 DEF ChangeBurst
  <2>2. CASE DropSilently
      BY <2>2 DEF DropSilently
  <2>3. CASE DropWithIcmp
      BY <2>3, RemainsSubset DEF DropWithIcmp, IcmpPkt
  <2> QED  BY <2>1, <2>2, <2>3 DEF DelayNetNext
<1>2. InvNetR' /\ AckedIsDelivered'
    BY <1>1 DEF IInv, InvNetR, AckedIsDelivered
<1>3. InvIds' /\ InvSenderList' /\ InvReceiverLists' /\ InvEnd'
    BY DEF IInv, InvIds, InvSenderList, InvReceiverLists, InvEnd
<1>4. Integrity' /\ NothingForgotten'
    BY DEF IInv, Integrity, NothingForgotten
<1> QED  BY <1>2, <1>3, <1>4 DEF IInv

(* The source stops writing when it closes, and only a reset loses chunks. *)
LEMMA SourceInv == TypeOK /\ IInv /\ Source => IInv'
<1> SUFFICES ASSUME TypeOK, IInv, Source PROVE IInv'
    OBVIOUS
<1> USE DEF Source, SourceNext, netVars, psenderVars, preceiverVars
<1>1. InvEnd'
    BY DEF TypeOK, IInv, InvEnd, SourceWrite, SourceClose, SourceReset
<1>2. InvIds' /\ InvSenderList' /\ InvNetR' /\ InvReceiverLists'
    BY DEF IInv, InvIds, InvSenderList, InvNetR, InvReceiverLists
<1>3. Integrity' /\ NothingForgotten' /\ AckedIsDelivered'
    BY DEF IInv, Integrity, NothingForgotten, AckedIsDelivered
<1> QED  BY <1>1, <1>2, <1>3 DEF IInv

(* A node that there is room for keeps psender's list within maxPackets. *)
LEMMA AddToSenderList ==
    ASSUME InvSenderList, RoomToRead, NEW x
    PROVE  /\ IsFiniteSet(sToSend \cup {x})
           /\ Cardinality(sToSend \cup {x}) <= SMax
<1>1. IsFiniteSet(sToSend) /\ Cardinality(sToSend) \in Nat
    BY FS_CardinalityType DEF InvSenderList
<1>2. /\ IsFiniteSet(sToSend \cup {x})
      /\ Cardinality(sToSend \cup {x}) \in
             {Cardinality(sToSend), Cardinality(sToSend) + 1}
    BY <1>1, FS_AddElement
<1>3. Cardinality(sToSend) < SMax
    BY DEF RoomToRead
<1> QED  BY <1>1, <1>2, <1>3, ConstantsAssumption

(* A step that only moves a program counter, a counter or a channel, or
   takes something from netS, keeps the invariant. *)
LEMMA SenderFrame ==
    ASSUME IInv,
           UNCHANGED <<written, readable, srcState, nread, sToSend, sFinalize,
                       endingRead, currentId, netR, preceiverVars>>,
           netS' \subseteq netS
    PROVE  IInv'
<1> USE DEF preceiverVars
<1>1. InvIds' /\ InvSenderList' /\ InvNetR' /\ InvReceiverLists'
    BY DEF IInv, InvIds, InvSenderList, InvNetR, InvReceiverLists
<1>2. InvEnd'
    BY DEF IInv, InvEnd
<1>3. Integrity' /\ NothingForgotten' /\ AckedIsDelivered'
    BY DEF IInv, Integrity, NothingForgotten, AckedIsDelivered
<1> QED  BY <1>1, <1>2, <1>3 DEF IInv

(* psender keeps the invariant: a new packet gets the id of its chunk, and an
   ack removes only a packet that the sink has got. *)
LEMMA SenderInv ==
    ASSUME NoIdWrap, TypeOK, IInv, Sender
    PROVE  IInv'
<1> USE DEF preceiverVars, sourceVars
<1>0. PSenderStep /\ UNCHANGED preceiverVars /\ UNCHANGED sourceVars
    BY DEF Sender, PSenderStep
<1> USE <1>0
<1>1. InvReceiverLists' /\ Integrity'
  <2>1. nread \in Nat /\ nread' \in Nat /\ nread <= nread'
      BY DEF TypeOK, PSenderStep, SendPackets, SSelect, ReadChunk, ReadEnd,
             LeaveRead, RecvAck, SRecvIcmp, LeaveCheck
  <2>2. rToSend \subseteq Node /\ Len(delivered) \in Nat
      BY DEF TypeOK
  <2> QED
      BY <2>1, <2>2 DEF IInv, InvReceiverLists, Integrity, Node, Ids
<1>2. CASE SendPackets
  <2>1. InvNetR'
      BY <1>2 DEF SendPackets, IInv, InvNetR, InvSenderList, BodyPkt
  <2>2. InvEnd'
    <3>1. \A p \in sToSend : p.id = 0 => p = Ending
        BY DEF TypeOK, Node, IInv, InvSenderList, Ending
    <3>2. (\E p \in sToSend : p.id = 0) => endingRead
        BY <3>1 DEF IInv, InvSenderList
    <3>3. sFinalize' => sFinalize \/ \E p \in sToSend : p.id = 0
        BY <1>2 DEF SendPackets
    <3>4. UNCHANGED <<endingRead, nread>>
        BY <1>2 DEF SendPackets
    <3> QED  BY <3>2, <3>3, <3>4 DEF IInv, InvEnd
  <2>3. InvIds' /\ InvSenderList' /\ NothingForgotten' /\ AckedIsDelivered'
      BY <1>2 DEF SendPackets, IInv, InvIds, InvSenderList, NothingForgotten,
                  AckedIsDelivered
  <2> QED  BY <1>1, <2>1, <2>2, <2>3 DEF IInv
<1>3. ASSUME NEW r \in BOOLEAN, SSelect(r) PROVE IInv'
    BY <1>3, SenderFrame DEF SSelect, netVars
<1>4. CASE ReadChunk
  <2> DEFINE new == [id |-> currentId, body |-> nread + 1]
  <2>0. /\ nread \in Nat /\ readable \in Nat /\ written \in Nat
        /\ nread + 1 <= readable /\ readable <= written /\ written <= NumChunks
        /\ NumChunks \in Nat /\ IdMod \in Nat /\ ~endingRead
      BY <1>4, ConstantsAssumption DEF TypeOK, ReadChunk, RoomToRead
  <2>1. InvIds'
    <3>1. currentId + 1 \in Nat /\ currentId + 1 < IdMod
        BY <2>0 DEF NoIdWrap, IInv, InvIds
    <3>2. (currentId + 1) % IdMod = currentId + 1
        BY <2>0, <3>1, ModSmall
    <3> QED  BY <1>4, <2>0, <3>2 DEF ReadChunk, IInv, InvIds
  <2>2. InvSenderList'
    <3>1. \A p \in sToSend' : p.id = p.body /\ p.body <= nread'
        BY <1>4, <2>0 DEF ReadChunk, IInv, InvSenderList, InvIds, TypeOK, Node
    <3>2. new # Ending
        BY <2>0 DEF Ending
    <3>3. Ending \in sToSend' => endingRead'
        BY <1>4, <3>2 DEF ReadChunk, IInv, InvSenderList
    <3>4. IsFiniteSet(sToSend') /\ Cardinality(sToSend') <= SMax
        BY <1>4, AddToSenderList DEF ReadChunk, IInv
    <3> QED  BY <3>1, <3>3, <3>4 DEF InvSenderList
  <2>3. InvNetR'
      BY <1>4, <2>0 DEF ReadChunk, netVars, IInv, InvNetR, TypeOK, ToReceiver
  <2>4. InvEnd'
      BY <1>4, <2>0 DEF ReadChunk, IInv, InvEnd
  <2>5. NothingForgotten'
    <3>1. new \in sToSend' /\ new.body = nread' /\ sToSend \subseteq sToSend'
        BY <1>4 DEF ReadChunk
    <3>2. \A n \in 1 .. nread' : n \in 1 .. nread \/ n = nread'
        BY <1>4, <2>0 DEF ReadChunk
    <3> QED  BY <3>1, <3>2 DEF IInv, NothingForgotten
  <2>6. AckedIsDelivered'
      BY <1>4 DEF ReadChunk, netVars, IInv, AckedIsDelivered
  <2> QED  BY <1>1, <2>1, <2>2, <2>3, <2>4, <2>5, <2>6 DEF IInv
<1>5. CASE ReadEnd
  <2>1. InvSenderList'
    <3>1. \A p \in sToSend' : p.id = p.body /\ p.body <= nread'
        BY <1>5 DEF ReadEnd, IInv, InvSenderList, TypeOK, Ending
    <3>2. IsFiniteSet(sToSend') /\ Cardinality(sToSend') <= SMax
        BY <1>5, AddToSenderList DEF ReadEnd, IInv
    <3>3. endingRead'
        BY <1>5 DEF ReadEnd
    <3> QED  BY <3>1, <3>2, <3>3 DEF InvSenderList
  <2>2. InvEnd'
    <3>1. nread = readable /\ srcState # "open" /\ UNCHANGED nread /\ endingRead'
        BY <1>5 DEF ReadEnd
    <3> QED  BY <3>1 DEF IInv, InvEnd
  <2>3. InvIds' /\ InvNetR' /\ NothingForgotten' /\ AckedIsDelivered'
      BY <1>5 DEF ReadEnd, netVars, IInv, InvIds, InvNetR, NothingForgotten,
                  AckedIsDelivered
  <2> QED  BY <1>1, <2>1, <2>2, <2>3 DEF IInv
<1>6. CASE LeaveRead
    BY <1>6, SenderFrame DEF LeaveRead, netVars
<1>7. ASSUME NEW m \in netS, RecvAck(m) PROVE IInv'
  <2>1. /\ sToSend' \subseteq sToSend
        /\ \A p \in sToSend \ sToSend' : p.id = m.body
      BY <1>7, RemoveFacts DEF RecvAck
  <2>2. InvSenderList'
    <3>1. IsFiniteSet(sToSend') /\ Cardinality(sToSend') <= Cardinality(sToSend)
        BY <2>1, FS_Subset DEF IInv, InvSenderList
    <3>2. Cardinality(sToSend') <= SMax
        BY <2>1, <3>1, FS_CardinalityType, FS_Subset, ConstantsAssumption
           DEF IInv, InvSenderList
    <3> QED  BY <1>7, <2>1, <3>1, <3>2 DEF RecvAck, IInv, InvSenderList
  <2>3. NothingForgotten'
    <3> SUFFICES ASSUME NEW n \in 1 .. nread, n > Len(delivered)
                 PROVE  \E p \in sToSend' : p.body = n
        BY <1>7 DEF RecvAck, NothingForgotten, TypeOK
    <3>1. PICK p \in sToSend : p.body = n
        BY DEF IInv, NothingForgotten, TypeOK
    <3>2. p.id = n
        BY <3>1 DEF IInv, InvSenderList
    <3>3. m.body # n
        BY <1>7 DEF RecvAck, IInv, AckedIsDelivered, TypeOK
    <3> QED  BY <2>1, <3>1, <3>2, <3>3
  <2>4. AckedIsDelivered'
      BY <1>7, RemainsSubset DEF RecvAck, IInv, AckedIsDelivered
  <2>5. InvIds' /\ InvNetR'
      BY <1>7 DEF RecvAck, IInv, InvIds, InvNetR
  <2>6. InvEnd'
      BY <1>7 DEF RecvAck, IInv, InvEnd
  <2> QED  BY <1>1, <2>2, <2>3, <2>4, <2>5, <2>6 DEF IInv
<1>8. ASSUME NEW m \in netS, SRecvIcmp(m) PROVE IInv'
    BY <1>8, RemainsSubset, SenderFrame DEF SRecvIcmp
<1>9. CASE LeaveCheck
    BY <1>9, SenderFrame DEF LeaveCheck, netVars
<1> QED
    BY <1>2, <1>3, <1>4, <1>5, <1>6, <1>7, <1>8, <1>9 DEF PSenderStep

(* The same for preceiver, which may also take from netR. *)
LEMMA ReceiverFrame ==
    ASSUME IInv,
           UNCHANGED <<sourceVars, psenderVars, rToSend, toAck, lastSentId,
                       delivered, netS>>,
           netR' \subseteq netR
    PROVE  IInv'
<1> USE DEF sourceVars, psenderVars
<1>1. InvIds' /\ InvSenderList' /\ InvNetR' /\ InvReceiverLists'
    BY DEF IInv, InvIds, InvSenderList, InvNetR, InvReceiverLists
<1>2. InvEnd'
    BY DEF IInv, InvEnd
<1>3. Integrity' /\ NothingForgotten' /\ AckedIsDelivered'
    BY DEF IInv, Integrity, NothingForgotten, AckedIsDelivered
<1> QED  BY <1>1, <1>2, <1>3 DEF IInv

(* What psender has is no concern of preceiver's steps. *)
LEMMA SenderUntouched ==
    ASSUME IInv, UNCHANGED <<sourceVars, psenderVars>>
    PROVE  InvSenderList' /\ InvEnd'
<1> USE DEF sourceVars, psenderVars
<1>1. InvSenderList'
    BY DEF IInv, InvSenderList
<1>2. InvEnd'
    BY DEF IInv, InvEnd
<1> QED  BY <1>1, <1>2

(* preceiver keeps the invariant: it sends on only the chunk whose turn it is,
   and acknowledges only what it has sent on. *)
LEMMA ReceiverInv ==
    ASSUME NoIdWrap, TypeOK, IInv, Receiver
    PROVE  IInv'
<1> USE DEF sourceVars, psenderVars
<1>0. PReceiverStep /\ UNCHANGED <<sourceVars, psenderVars, ticked>>
    BY DEF Receiver
<1> USE <1>0
<1>1. CASE RTop
    BY <1>1, ReceiverFrame DEF RTop, netVars
<1>2. ASSUME NEW p \in rToSend, SendToReceiver(p) PROVE IInv'
  <2>0. /\ nread \in Nat /\ Len(delivered) \in Nat /\ nread <= NumChunks
        /\ NumChunks \in Nat /\ IdMod \in Nat
        /\ delivered \in Seq(0 .. NumChunks) /\ p.body \in 0 .. NumChunks
      BY ConstantsAssumption DEF TypeOK, Node
  <2>1. p.body = Len(delivered) + 1 /\ p.id = lastSentId /\ lastSentId <= nread
      BY <1>2 DEF SendToReceiver, IInv, InvReceiverLists, InvIds
  <2>2. lastSentId' = lastSentId + 1
    <3>1. lastSentId + 1 \in Nat /\ lastSentId + 1 < IdMod
        BY <2>0, <2>1 DEF NoIdWrap, IInv, InvIds
    <3> QED  BY <1>2, <2>0, <3>1, ModSmall DEF SendToReceiver
  <2>3. /\ Len(delivered') = Len(delivered) + 1
        /\ \A i \in 1 .. Len(delivered) : delivered'[i] = delivered[i]
        /\ delivered'[Len(delivered) + 1] = p.body
      BY <1>2, <2>0 DEF SendToReceiver
  <2>4. InvIds'
      BY <2>2, <2>3 DEF IInv, InvIds
  <2>5. InvNetR'
      BY <1>2 DEF SendToReceiver, netVars, IInv, InvNetR
  <2>6. InvReceiverLists'
    <3>1. /\ \A q \in rToSend' : q \in rToSend /\ q # p
          /\ toAck' \subseteq toAck \cup {p}
        BY <1>2, InsertFacts DEF SendToReceiver
    <3>2. \A q \in rToSend : q.id = p.id => q = p
        BY <2>1 DEF TypeOK, Node, IInv, InvReceiverLists
    <3>3. \A q \in rToSend \cup toAck : q.id \in Nat
        BY ConstantsAssumption DEF TypeOK, Node, Ids
    <3>4. lastSentId \in Nat
        BY <2>0 DEF IInv, InvIds
    <3> QED
        BY <2>1, <2>2, <3>1, <3>2, <3>3, <3>4 DEF IInv, InvReceiverLists
  <2>7. Integrity'
      BY <2>0, <2>1, <2>3 DEF IInv, Integrity, InvIds
  <2>8. NothingForgotten'
    <3> SUFFICES ASSUME NEW n \in 1 .. nread, n > Len(delivered')
                 PROVE  \E q \in sToSend : q.body = n
        BY <2>0, <2>3 DEF NothingForgotten
    <3>1. n > Len(delivered)
        BY <2>0, <2>3
    <3> QED  BY <2>0, <3>1 DEF IInv, NothingForgotten
  <2>9. AckedIsDelivered'
    <3>1. netS' = netS
        BY <1>2 DEF SendToReceiver, netVars
    <3>2. \A m \in netS : m.body \in Nat
        BY ConstantsAssumption DEF TypeOK, ToSender, Ids
    <3> QED  BY <2>0, <2>3, <3>1, <3>2 DEF IInv, AckedIsDelivered
  <2> QED
      BY <2>4, <2>5, <2>6, <2>7, <2>8, <2>9, SenderUntouched DEF IInv
<1>3. CASE SinkFails
    BY <1>3, ReceiverFrame DEF SinkFails, netVars
<1>4. CASE EndDeliver
    BY <1>4, ReceiverFrame DEF EndDeliver, netVars
<1>5. CASE AckPackets
  <2>1. FirstNodes(toAck, RMax) \subseteq toAck
      BY DEF FirstNodes
  <2>2. AckedIsDelivered'
    <3>1. \A p \in toAck : p.id <= Len(delivered)
        BY ConstantsAssumption DEF TypeOK, Node, Ids, IInv, InvReceiverLists, InvIds
    <3>2. \A p \in toAck : AckPkt(rChannel, p.id).body = p.id
        BY DEF AckPkt
    <3> QED
        BY <1>5, <2>1, <3>1, <3>2 DEF AckPackets, IInv, AckedIsDelivered
  <2>3. InvReceiverLists'
      BY <1>5, <2>1 DEF AckPackets, IInv, InvReceiverLists
  <2>4. InvIds' /\ InvNetR' /\ Integrity' /\ NothingForgotten'
      BY <1>5 DEF AckPackets, IInv, InvIds, InvNetR, Integrity, NothingForgotten
  <2> QED  BY <2>2, <2>3, <2>4, SenderUntouched DEF IInv
<1>6. CASE RSelect
    BY <1>6, ReceiverFrame DEF RSelect, netVars
<1>7. ASSUME NEW m \in netR, RecvBody(m) PROVE IInv'
  <2> DEFINE node == [id |-> m.id, body |-> m.body]
  <2>1. /\ node.id = node.body /\ node.id <= nread /\ node.id \in Nat
        /\ lastSentId \in Nat
      BY <1>7, ConstantsAssumption
         DEF RecvBody, IInv, InvNetR, TypeOK, ToReceiver, Ids
  <2>2. InvReceiverLists'
    <3>1. CASE m.id >= lastSentId
      <4>1. rToSend' \subseteq rToSend \cup {node} /\ UNCHANGED <<toAck, lastSentId>>
          BY <1>7, <3>1, InsertFacts DEF RecvBody
      <4> QED  BY <2>1, <3>1, <4>1 DEF IInv, InvReceiverLists
    <3>2. CASE ~(m.id >= lastSentId)
      <4>1. toAck' \subseteq toAck \cup {node} /\ UNCHANGED <<rToSend, lastSentId>>
          BY <1>7, <3>2, InsertFacts DEF RecvBody
      <4> QED  BY <2>1, <3>2, <4>1 DEF IInv, InvReceiverLists
    <3> QED  BY <3>1, <3>2
  <2>3. InvNetR'
      BY <1>7, RemainsSubset DEF RecvBody, IInv, InvNetR
  <2>4. InvIds' /\ Integrity' /\ NothingForgotten' /\ AckedIsDelivered'
      BY <1>7 DEF RecvBody, IInv, InvIds, Integrity, NothingForgotten,
                  AckedIsDelivered
  <2> QED  BY <2>2, <2>3, <2>4, SenderUntouched DEF IInv
<1>8. ASSUME NEW m \in netR, RRecvIcmp(m) PROVE IInv'
    BY <1>8, RemainsSubset, ReceiverFrame DEF RRecvIcmp
<1>9. CASE EndRecv
    BY <1>9, ReceiverFrame DEF EndRecv, netVars
<1> QED
    BY <1>1, <1>2, <1>3, <1>4, <1>5, <1>6, <1>7, <1>8, <1>9 DEF PReceiverStep

(* Every step of the proxy keeps the invariant, while ids do not wrap. *)
LEMMA NextInv ==
    ASSUME NoIdWrap, TypeOK, IInv, [Next]_vars
    PROVE  IInv'
<1>1. CASE SenderTimeout
    BY <1>1, SenderFrame DEF SenderTimeout, STimeout, netVars, sourceVars
<1>2. CASE ReceiverTimeout
    BY <1>2, ReceiverFrame DEF ReceiverTimeout, RTimeout, netVars
<1>3. CASE UNCHANGED vars
    BY <1>3, SenderFrame DEF vars, netVars, sourceVars, psenderVars
<1> QED
    BY <1>1, <1>2, <1>3, NetworkInv, SourceInv, SenderInv, ReceiverInv
       DEF Next, Finished

(* The invariant, for streams whose ids fit in an unsigned int. *)
THEOREM Invariant == NoIdWrap => (Spec => []IInv)
<1> SUFFICES ASSUME NoIdWrap PROVE Spec => []IInv
    OBVIOUS
<1>1. TypeOK /\ IInv /\ [Next]_vars => IInv'
    BY NextInv
<1> QED  BY <1>1, InitInv, TypeCorrect, PTL DEF Spec

-----------------------------------------------------------------------------
(* What follows from the invariant. *)

(* The chunks between the sink and psender are all in psender's list, so they
   are no more than a window, and preceiver's list holds only such chunks. *)
LEMMA InvWindow == TypeOK /\ IInv => WindowBound
<1> SUFFICES ASSUME TypeOK, IInv PROVE WindowBound
    OBVIOUS
<1> DEFINE missing == Len(delivered) + 1 .. nread
<1>0. nread \in Nat /\ Len(delivered) \in Nat /\ Len(delivered) <= nread
    BY DEF TypeOK, IInv, Integrity
<1>1. IsFiniteSet(missing) /\ Cardinality(missing) = nread - Len(delivered)
  <2>1. Len(delivered) + 1 \in Int /\ nread \in Int
      BY <1>0
  <2>2. /\ IsFiniteSet(missing)
        /\ Cardinality(missing) = IF Len(delivered) + 1 > nread THEN 0
                                  ELSE nread - (Len(delivered) + 1) + 1
      BY <2>1, FS_Interval
  <2> HIDE DEF missing
  <2> QED  BY <1>0, <2>2
<1>2. Cardinality(missing) <= SMax
  <2> DEFINE bodies == {p.body : p \in sToSend}
  <2>1. IsFiniteSet(sToSend) /\ Cardinality(sToSend) <= SMax
      BY DEF IInv, InvSenderList
  <2>2. IsFiniteSet(bodies) /\ Cardinality(bodies) <= Cardinality(sToSend)
    <3>1. [p \in sToSend |-> p.body] \in Surjection(sToSend, bodies)
        BY DEF Surjection
    <3> QED  BY <2>1, <3>1, FS_Surjection
  <2>3. missing \subseteq bodies
      BY <1>0 DEF IInv, NothingForgotten
  <2>4. Cardinality(missing) <= Cardinality(bodies)
      BY <2>2, <2>3, FS_Subset
  <2>5. Cardinality(missing) \in Nat /\ Cardinality(bodies) \in Nat /\ Cardinality(sToSend) \in Nat
      BY <1>1, <2>1, <2>2, FS_CardinalityType
  <2> HIDE DEF bodies, missing
  <2> QED  BY <2>1, <2>2, <2>4, <2>5, ConstantsAssumption
<1>3. Cardinality(rToSend) <= SMax
  <2> DEFINE packets == {[id |-> i, body |-> i] : i \in missing}
  <2>1. IsFiniteSet(packets) /\ Cardinality(packets) <= Cardinality(missing)
    <3>1. [i \in missing |-> [id |-> i, body |-> i]] \in Surjection(missing, packets)
        BY DEF Surjection
    <3> QED  BY <1>1, <3>1, FS_Surjection
  <2>2. rToSend \subseteq packets
    <3> SUFFICES ASSUME NEW p \in rToSend PROVE p \in packets
        OBVIOUS
    <3>1. p = [id |-> p.id, body |-> p.body] /\ p.id \in Nat
        BY ConstantsAssumption DEF TypeOK, Node, Ids
    <3>2. p.body = p.id /\ p.id \in missing
        BY <1>0, <3>1 DEF IInv, InvReceiverLists, InvIds
    <3> QED  BY <3>1, <3>2
  <2>3. Cardinality(rToSend) <= Cardinality(packets) /\ IsFiniteSet(rToSend)
      BY <2>1, <2>2, FS_Subset
  <2>4. Cardinality(rToSend) \in Nat /\ Cardinality(packets) \in Nat /\ Cardinality(missing) \in Nat
      BY <1>1, <2>1, <2>3, FS_CardinalityType
  <2> HIDE DEF packets, missing
  <2> QED  BY <1>2, <2>1, <2>3, <2>4, ConstantsAssumption
<1>4. Cardinality(sToSend) <= SMax
    BY DEF IInv, InvSenderList
<1> HIDE DEF missing
<1> QED  BY <1>0, <1>1, <1>2, <1>3, <1>4 DEF WindowBound

(* When everything is acknowledged, the ending packet included, the sink has
   all that psender has read, which is the whole stream unless a reset has lost
   a part of it. *)
LEMMA AllAcked ==
    ASSUME TypeOK, IInv, sFinalize, sToSend = {}
    PROVE  /\ endingRead /\ Len(delivered) = nread
           /\ nread = written \/ srcState = "reset"
<1>1. endingRead /\ (nread = written \/ srcState = "reset")
    BY DEF IInv, InvEnd
<1>2. nread \in Nat /\ Len(delivered) \in Nat /\ Len(delivered) <= nread
    BY DEF TypeOK, IInv, Integrity
<1>3. Len(delivered) = nread
    BY <1>2 DEF IInv, NothingForgotten
<1> QED  BY <1>1, <1>3

(* The sink's stream is a prefix of the source's, for any network. *)
THEOREM IntegrityHolds == NoIdWrap => (Spec => []Integrity)
<1>1. IInv => Integrity
    BY DEF IInv
<1> QED  BY <1>1, Invariant, PTL

(* psender keeps every chunk until the sink has it. *)
THEOREM NothingForgottenHolds == NoIdWrap => (Spec => []NothingForgotten)
<1>1. IInv => NothingForgotten
    BY DEF IInv
<1> QED  BY <1>1, Invariant, PTL

(* Nothing is acknowledged before the sink has it. *)
THEOREM AckedIsDeliveredHolds == NoIdWrap => (Spec => []AckedIsDelivered)
<1>1. IInv => AckedIsDelivered
    BY DEF IInv
<1> QED  BY <1>1, Invariant, PTL

(* preceiver's list, which nothing in its code bounds, is bounded. *)
THEOREM WindowBoundHolds == NoIdWrap => (Spec => []WindowBound)
BY InvWindow, TypeCorrect, Invariant, PTL

(* psender's ordinary exit tells that the sink has all that psender has read,
   and that this is all that the source wrote unless it was reset. *)
THEOREM ConfirmedExitHolds == NoIdWrap => (Spec => []ConfirmedExit)
<1>1. TypeOK /\ IInv => ConfirmedExit
    BY AllAcked DEF ConfirmedExit
<1> QED  BY <1>1, TypeCorrect, Invariant, PTL

(* The source's connection has not been reset. *)
NotReset == srcState # "reset"

(* Where connections are not reset, the source only writes and closes. *)
LEMMA NeverReset ==
    ASSUME "reset" \notin Faults
    PROVE  Spec => []NotReset
<1>1. Init => NotReset
    BY DEF Init, PSenderInit, NotReset
<1>2. NotReset /\ [Next]_vars => NotReset'
  <2>1. Source => srcState' = srcState \/ srcState' # "reset"
      BY DEF Source, SourceNext, SourceWrite, SourceClose, SourceReset
  <2>2. Next => Source \/ UNCHANGED srcState
      BY DEF Next, Network, Sender, PSenderStep, SenderTimeout, Receiver,
             ReceiverTimeout, Finished, vars, sourceVars
  <2> QED  BY <2>1, <2>2 DEF vars, sourceVars, NotReset
<1> QED  BY <1>1, <1>2, PTL DEF Spec

(* Unless the source's connection is reset, psender's ordinary exit means what
   an error report would otherwise deny: the sink has all that the source
   wrote.  With a reset it does not (psenderUtils.c:165 swallows the error). *)
THEOREM ConfirmedIsWholeHolds ==
    NoIdWrap /\ "reset" \notin Faults => (Spec => []ConfirmedIsWhole)
<1> SUFFICES ASSUME NoIdWrap, "reset" \notin Faults
             PROVE  Spec => []ConfirmedIsWhole
    OBVIOUS
<1>1. TypeOK /\ IInv /\ NotReset => ConfirmedIsWhole
  <2> SUFFICES ASSUME TypeOK, IInv, NotReset, Verdict = "confirmed"
               PROVE  Len(delivered) = written
      BY DEF ConfirmedIsWhole
  <2>1. sFinalize /\ sToSend = {}
      BY DEF Verdict
  <2> QED  BY <2>1, AllAcked DEF NotReset
<1> QED  BY <1>1, NeverReset, TypeCorrect, Invariant, PTL

-----------------------------------------------------------------------------
(* The refinement of StreamSpec. *)

(* The three values of the verdict. *)
LEMMA VerdictCases ==
    /\ sPc # "exited" => Verdict = "open"
    /\ sPc = "exited" /\ sFinalize /\ sToSend = {} => Verdict = "confirmed"
    /\ sPc = "exited" /\ ~(sFinalize /\ sToSend = {}) => Verdict = "aborted"
BY DEF Verdict

(* A step that changes nothing the verdict depends on, or not yet. *)
LEMMA VerdictKept ==
    ASSUME \/ UNCHANGED <<sPc, sFinalize, sToSend>>
           \/ sPc # "exited" /\ sPc' # "exited"
    PROVE  Verdict' = Verdict
<1>1. CASE UNCHANGED <<sPc, sFinalize, sToSend>>
    BY <1>1 DEF Verdict
<1>2. CASE sPc # "exited" /\ sPc' # "exited"
    BY <1>2 DEF Verdict
<1> QED  BY <1>1, <1>2

(* psender's exit confirms the transfer only when the sink has all of it. *)
LEMMA ExitStep ==
    ASSUME TypeOK, IInv, sPc # "exited", sPc' = "exited",
           UNCHANGED <<nread, delivered, sFinalize, sToSend>>
    PROVE  Stream!Confirm \/ Stream!Abort
<1>1. Verdict = "open"
    BY DEF Verdict
<1>2. CASE sFinalize /\ sToSend = {}
  <2>1. Verdict' = "confirmed"
      BY <1>2 DEF Verdict
  <2>2. Len(delivered) = nread
      BY <1>2, AllAcked
  <2> QED  BY <1>1, <2>1, <2>2 DEF Stream!Confirm
<1>3. CASE ~(sFinalize /\ sToSend = {})
  <2>1. Verdict' = "aborted"
      BY <1>3 DEF Verdict
  <2> QED  BY <1>1, <2>1 DEF Stream!Abort
<1> QED  BY <1>2, <1>3

(* Every step of psender accepts a chunk, gives the verdict or stutters. *)
LEMMA SenderStream ==
    ASSUME TypeOK, IInv, Sender
    PROVE  Stream!Next \/ UNCHANGED <<nread, delivered, Verdict>>
<1> USE DEF preceiverVars
<1>0. PSenderStep /\ UNCHANGED preceiverVars
    BY DEF Sender
<1>1. CASE ReadChunk
  <2>1. nread < NumChunks /\ nread' = nread + 1
      BY <1>1, ConstantsAssumption DEF ReadChunk, TypeOK
  <2>2. sPc = "read" /\ sPc' = "read"
      BY <1>1 DEF ReadChunk
  <2>3. Verdict = "open" /\ Verdict' = "open"
      BY <2>2 DEF Verdict
  <2> QED  BY <1>0, <2>1, <2>3 DEF Stream!Next, Stream!Accept
<1>2. CASE ~ReadChunk
  <2>1. UNCHANGED <<nread, delivered>>
      BY <1>0, <1>2 DEF PSenderStep, SendPackets, SSelect, ReadEnd, LeaveRead,
                        RecvAck, SRecvIcmp, LeaveCheck
  <2>2. sPc # "exited"
      BY <1>0 DEF PSenderStep, SendPackets, SSelect, ReadChunk, ReadEnd,
                  LeaveRead, RecvAck, SRecvIcmp, LeaveCheck
  <2>3. CASE sPc' # "exited"
      BY <2>1, <2>2, <2>3, VerdictKept
  <2>4. CASE sPc' = "exited"
    <3>1. UNCHANGED <<sFinalize, sToSend>>
        BY <1>0, <1>2, <2>2, <2>4
           DEF PSenderStep, SendPackets, SSelect, ReadEnd, LeaveRead,
               RecvAck, SRecvIcmp, LeaveCheck
    <3> QED  BY <2>1, <2>2, <2>4, <3>1, ExitStep DEF Stream!Next
  <2> QED  BY <2>3, <2>4
<1> QED  BY <1>1, <1>2

(* Every step of preceiver delivers the next chunk or stutters. *)
LEMMA ReceiverStream ==
    ASSUME TypeOK, IInv, Receiver
    PROVE  Stream!Next \/ UNCHANGED <<nread, delivered, Verdict>>
<1> USE DEF psenderVars
<1>0. PReceiverStep /\ UNCHANGED psenderVars
    BY DEF Receiver
<1>1. Verdict' = Verdict
    BY <1>0, VerdictKept
<1>2. ASSUME NEW p \in rToSend, SendToReceiver(p) PROVE Stream!Deliver
  <2>1. p.id = lastSentId /\ delivered' = Append(delivered, p.body)
      BY <1>2 DEF SendToReceiver
  <2>2. p.body = Len(delivered) + 1 /\ p.body <= nread
      BY <2>1 DEF IInv, InvReceiverLists, InvIds
  <2>3. nread \in Nat /\ Len(delivered) \in Nat
      BY DEF TypeOK
  <2> QED  BY <1>0, <1>1, <2>1, <2>2, <2>3 DEF Stream!Deliver
<1>3. CASE ~\E p \in rToSend : SendToReceiver(p)
  <2>1. delivered' = delivered
      BY <1>0, <1>3 DEF PReceiverStep, RTop, SinkFails, EndDeliver, AckPackets,
                        RSelect, RecvBody, RRecvIcmp, EndRecv
  <2> QED  BY <1>0, <1>1, <2>1
<1> QED  BY <1>2, <1>3 DEF Stream!Next

(* Every step of the proxy is a step of the stream or a stutter. *)
LEMMA StreamStep ==
    ASSUME TypeOK, IInv, [Next]_vars
    PROVE  [Stream!Next]_(Stream!streamVars)
<1> SUFFICES Stream!Next \/ UNCHANGED <<nread, delivered, Verdict>>
    BY DEF Stream!streamVars
<1>1. CASE SenderTimeout
  <2>1. /\ sPc # "exited" /\ sPc' = "exited"
        /\ UNCHANGED <<nread, delivered, sFinalize, sToSend>>
      BY <1>1 DEF SenderTimeout, STimeout, preceiverVars
  <2> QED  BY <2>1, ExitStep DEF Stream!Next
<1>2. CASE Network \/ Source \/ ReceiverTimeout \/ UNCHANGED vars
  <2>1. UNCHANGED <<nread, delivered, sPc, sFinalize, sToSend>>
      BY <1>2 DEF Network, Source, SourceNext, ReceiverTimeout, RTimeout, vars,
                  psenderVars, preceiverVars
  <2> QED  BY <2>1, VerdictKept
<1> QED
    BY <1>1, <1>2, SenderStream, ReceiverStream DEF Next, Finished

(* The proxy implements the abstract stream: what preceiver gives the sink
   and what psender's exit says, in every instance whose ids do not wrap. *)
THEOREM StreamRefinement == NoIdWrap => (Spec => ReliableStream)
<1> SUFFICES ASSUME NoIdWrap PROVE Spec => Stream!Spec
    BY DEF ReliableStream
<1>1. Init => Stream!Init
    BY DEF Init, PSenderInit, PReceiverInit, Stream!Init, Verdict
<1>2. TypeOK /\ IInv /\ [Next]_vars => [Stream!Next]_(Stream!streamVars)
    BY StreamStep
<1> QED  BY <1>1, <1>2, TypeCorrect, Invariant, PTL DEF Spec, Stream!Spec

-----------------------------------------------------------------------------
(* toAck. *)

(* How many nodes of a list come before p. *)
Before(list, p) == Cardinality({q \in list : q.id < p.id})

(* In a list that holds an id once, every node has a place of its own. *)
LEMMA PlacesDiffer ==
    ASSUME NEW list \in SUBSET Node, IsFiniteSet(list),
           NEW p \in list, NEW q \in list, p.id < q.id
    PROVE  /\ Before(list, p) \in Nat /\ Before(list, q) \in Nat
           /\ Before(list, p) < Before(list, q)
<1> DEFINE P == {r \in list : r.id < p.id}
           Q == {r \in list : r.id < q.id}
<1>1. /\ IsFiniteSet(P) /\ IsFiniteSet(Q)
  <2>1. P \in SUBSET list /\ Q \in SUBSET list
      OBVIOUS
  <2> HIDE DEF P, Q
  <2> QED  BY <2>1, FS_Subset
<1>2. Cardinality(P) \in Nat /\ Cardinality(Q) \in Nat
    BY <1>1, FS_CardinalityType
<1>3. p \notin P /\ P \cup {p} \subseteq Q
  <2>1. \A r \in list : r.id \in Int
      BY DEF Node, Ids
  <2> QED  BY <2>1
<1>4. /\ IsFiniteSet(P \cup {p}) /\ Cardinality(P \cup {p}) = Cardinality(P) + 1
  <2> HIDE DEF P
  <2> QED  BY <1>1, <1>3, FS_AddElement
<1>5. Cardinality(P \cup {p}) <= Cardinality(Q)
  <2> HIDE DEF P, Q
  <2> QED  BY <1>1, <1>3, FS_Subset
<1>6. Cardinality(P) < Cardinality(Q)
    BY <1>2, <1>4, <1>5
<1> QED  BY <1>2, <1>6 DEF Before

(* A node has fewer nodes before it than there are nodes. *)
LEMMA PlaceBound ==
    ASSUME NEW list \in SUBSET Node, IsFiniteSet(list), NEW p \in list
    PROVE  /\ Before(list, p) \in Nat
           /\ Before(list, p) < Cardinality(list)
<1> DEFINE P == {r \in list : r.id < p.id}
<1>1. P \in SUBSET list /\ P # list
  <2>1. p.id \in Int
      BY DEF Node, Ids
  <2>2. p \notin P
      BY <2>1
  <2> QED  BY <2>2
<1>2. /\ IsFiniteSet(P) /\ Cardinality(P) <= Cardinality(list)
      /\ Cardinality(list) = Cardinality(P) => list = P
  <2> HIDE DEF P
  <2> QED  BY <1>1, FS_Subset
<1>3. Cardinality(P) \in Nat /\ Cardinality(list) \in Nat
    BY <1>2, FS_CardinalityType
<1>4. Cardinality(P) < Cardinality(list)
    BY <1>1, <1>2, <1>3
<1> QED  BY <1>3, <1>4 DEF Before

(* forEach leaves at most what exceeds maxScans. *)
LEMMA FirstNodesRest ==
    ASSUME NEW list \in SUBSET Node, IsFiniteSet(list), NEW n \in Nat,
           \A p, q \in list : p.id = q.id => p = q
    PROVE  LET rest == list \ FirstNodes(list, n)
           IN  /\ IsFiniteSet(rest)
               /\ n <= Cardinality(list) =>
                     Cardinality(rest) <= Cardinality(list) - n
               /\ Cardinality(list) < n => Cardinality(rest) = 0
<1> DEFINE rest == list \ FirstNodes(list, n)
           c == Cardinality(list)
           f == [p \in rest |-> Before(list, p)]
<1>1. c \in Nat /\ rest \in SUBSET list
    BY FS_CardinalityType
<1>2. \A p \in rest : Before(list, p) \in n .. c - 1
  <2>1. ASSUME NEW p \in rest PROVE Before(list, p) \in n .. c - 1
    <3>1. Before(list, p) \in Nat /\ Before(list, p) < c
        BY PlaceBound
    <3>2. ~(Before(list, p) < n)
        BY DEF FirstNodes, Before
    <3> QED  BY <1>1, <3>1, <3>2
  <2> QED  BY <2>1
<1>3. \A p, q \in rest : Before(list, p) = Before(list, q) => p = q
  <2>1. ASSUME NEW p \in rest, NEW q \in rest, p # q
        PROVE  Before(list, p) # Before(list, q)
    <3>1. p.id \in Int /\ q.id \in Int /\ p.id # q.id
        BY <2>1 DEF Node, Ids
    <3>2. CASE p.id < q.id
        BY <3>2, PlacesDiffer
    <3>3. CASE q.id < p.id
        BY <3>3, PlacesDiffer
    <3> QED  BY <3>1, <3>2, <3>3
  <2> QED  BY <2>1
<1>4. f \in Injection(rest, n .. c - 1)
  <2>1. f \in [rest -> n .. c - 1]
      BY <1>2
  <2>2. IsInjective(f)
      BY <1>3 DEF IsInjective
  <2> QED  BY <2>1, <2>2 DEF Injection
<1>5. /\ IsFiniteSet(n .. c - 1)
      /\ Cardinality(n .. c - 1) = IF n > c - 1 THEN 0 ELSE c - 1 - n + 1
  <2>1. n \in Int /\ c - 1 \in Int
      BY <1>1
  <2> HIDE DEF c
  <2> QED  BY <2>1, FS_Interval
<1>6. IsFiniteSet(rest) /\ Cardinality(rest) <= Cardinality(n .. c - 1)
  <2> HIDE DEF f, rest, c
  <2> QED  BY <1>4, <1>5, FS_Injection
<1>7. Cardinality(rest) \in Nat
    BY <1>6, FS_CardinalityType
<1>8. n <= c => Cardinality(n .. c - 1) = c - n
    BY <1>1, <1>5
<1>9. c < n => Cardinality(n .. c - 1) = 0
    BY <1>1, <1>5
<1> QED  BY <1>1, <1>6, <1>7, <1>8, <1>9

(* insertNodeById makes a list that holds an id once longer by a node at the
   most. *)
LEMMA InsertGrows ==
    ASSUME NEW list, IsFiniteSet(list), NEW p,
           \A x, y \in list : x.id = y.id => x = y
    PROVE  LET new == InsertById(list, p)
           IN  /\ IsFiniteSet(new)
               /\ \A x, y \in new : x.id = y.id => x = y
               /\ Cardinality(list) \in Nat /\ Cardinality(new) \in Nat
               /\ Cardinality(new) <= Cardinality(list) + 1
<1>1. Cardinality(list) \in Nat
    BY FS_CardinalityType
<1>2. CASE \E q \in list : q.id = p.id
  <2>1. InsertById(list, p) = list
      BY <1>2 DEF InsertById
  <2> QED  BY <1>1, <2>1
<1>3. CASE ~\E q \in list : q.id = p.id
  <2>1. InsertById(list, p) = list \cup {p}
      BY <1>3 DEF InsertById
  <2>2. /\ IsFiniteSet(list \cup {p})
        /\ Cardinality(list \cup {p}) = IF p \in list THEN Cardinality(list)
                                        ELSE Cardinality(list) + 1
      BY FS_AddElement
  <2>3. \A x, y \in list \cup {p} : x.id = y.id => x = y
      BY <1>3
  <2> QED  BY <1>1, <2>1, <2>2, <2>3
<1> QED  BY <1>2, <1>3

(* The steps that leave toAck and rCount alone and stay between two visits of
   toAck. *)
LEMMA AcksFrame ==
    ASSUME InvAcks, TypeOK, toAck' = toAck,
           \/ rPc' = rPc /\ rCount' = rCount
           \/ rPc' = "exited"
           \/ rPc = "loop" /\ rPc' = "deliver" /\ rCount' = rCount
           \/ rPc = "deliver" /\ rPc' = "ack" /\ rCount' = 0
           \/ rPc = "select" /\ rPc' = "recv" /\ rCount' = rCount
           \/ rPc = "select" /\ rPc' = "loop" /\ rCount' = rCount
           \/ rPc = "recv" /\ rPc' = "loop" /\ rCount' = 0
           \/ rPc = "recv" /\ rPc' = "recv"
    PROVE  InvAcks'
<1>1. RMax \in Nat /\ rCount \in 0 .. RMax /\ Cardinality(toAck) \in Nat
    BY ConstantsAssumption, FS_CardinalityType DEF TypeOK, InvAcks
<1>2. /\ IsFiniteSet(toAck')
      /\ \A p, q \in toAck' : p.id = q.id => p = q
      /\ Cardinality(toAck') <= 2 * RMax
    BY DEF InvAcks
<1>3. rPc' \in {"loop", "ack", "select"} => rCount' = 0
    BY DEF InvAcks
<1>4. rPc' \in {"loop", "select", "recv"} => Cardinality(toAck') <= RMax
    BY DEF InvAcks
<1>5. rPc' = "deliver" => Cardinality(toAck') <= RMax + rCount'
    BY <1>1 DEF InvAcks
<1> QED  BY <1>2, <1>3, <1>4, <1>5 DEF InvAcks

(* preceiver keeps its bound. *)
LEMMA ReceiverAcks ==
    ASSUME TypeOK, InvAcks, Receiver
    PROVE  InvAcks'
<1>0. PReceiverStep
    BY DEF Receiver
<1>a. /\ RMax \in Nat /\ rCount \in 0 .. RMax /\ Cardinality(toAck) \in Nat
      /\ toAck \in SUBSET Node /\ IsFiniteSet(toAck)
      /\ \A p, q \in toAck : p.id = q.id => p = q
    BY ConstantsAssumption, FS_CardinalityType DEF TypeOK, InvAcks
<1>1. ASSUME NEW p \in rToSend, SendToReceiver(p) PROVE InvAcks'
  <2>1. /\ rPc = "deliver" /\ rPc' = "deliver" /\ rCount < RMax
        /\ rCount' = rCount + 1 /\ toAck' = InsertById(toAck, p)
      BY <1>1 DEF SendToReceiver
  <2>2. /\ IsFiniteSet(toAck')
        /\ \A x, y \in toAck' : x.id = y.id => x = y
        /\ Cardinality(toAck') \in Nat
        /\ Cardinality(toAck') <= Cardinality(toAck) + 1
      BY <1>a, <2>1, InsertGrows
  <2>3. Cardinality(toAck) <= RMax + rCount
      BY <2>1 DEF InvAcks
  <2>4. /\ Cardinality(toAck') <= RMax + rCount'
        /\ Cardinality(toAck') <= 2 * RMax
      BY <1>a, <2>1, <2>2, <2>3
  <2> QED  BY <2>1, <2>2, <2>4 DEF InvAcks
<1>2. CASE AckPackets
  <2> DEFINE acked == FirstNodes(toAck, RMax)
             c == Cardinality(toAck)
  <2>1. /\ rPc = "ack" /\ rPc' = "select" /\ rCount' = rCount
        /\ toAck' = toAck \ acked
      BY <1>2 DEF AckPackets
  <2>2. /\ IsFiniteSet(toAck')
        /\ RMax <= c => Cardinality(toAck') <= c - RMax
        /\ c < RMax => Cardinality(toAck') = 0
      BY <1>a, <2>1, FirstNodesRest
  <2>3. c <= 2 * RMax /\ rCount = 0
      BY <2>1 DEF InvAcks
  <2>4. Cardinality(toAck') \in Nat
      BY <2>2, FS_CardinalityType
  <2>5. Cardinality(toAck') <= RMax /\ Cardinality(toAck') <= 2 * RMax
      BY <1>a, <2>2, <2>3, <2>4
  <2>6. \A p, q \in toAck' : p.id = q.id => p = q
      BY <1>a, <2>1
  <2> QED  BY <2>1, <2>2, <2>3, <2>5, <2>6 DEF InvAcks
<1>3. ASSUME NEW m \in netR, RecvBody(m) PROVE InvAcks'
  <2> DEFINE node == [id |-> m.id, body |-> m.body]
  <2>1. rPc = "recv" /\ rPc' = "recv"
      BY <1>3 DEF RecvBody
  <2>2. \/ toAck' = toAck
        \/ Cardinality(toAck) < RMax /\ toAck' = InsertById(toAck, node)
      BY <1>3 DEF RecvBody
  <2>3. CASE toAck' = toAck
      BY <2>1, <2>3, AcksFrame
  <2>4. CASE Cardinality(toAck) < RMax /\ toAck' = InsertById(toAck, node)
    <3>1. /\ IsFiniteSet(toAck')
          /\ \A x, y \in toAck' : x.id = y.id => x = y
          /\ Cardinality(toAck') \in Nat
          /\ Cardinality(toAck') <= Cardinality(toAck) + 1
      <4> HIDE DEF node
      <4> QED  BY <1>a, <2>4, InsertGrows
    <3>2. Cardinality(toAck') <= RMax /\ Cardinality(toAck') <= 2 * RMax
        BY <1>a, <2>4, <3>1
    <3> QED  BY <2>1, <3>1, <3>2 DEF InvAcks
  <2> QED  BY <2>2, <2>3, <2>4
<1>4. CASE RTop \/ SinkFails \/ EndDeliver \/ RSelect \/ EndRecv
  <2>1. toAck' = toAck
      BY <1>4 DEF RTop, SinkFails, EndDeliver, RSelect, EndRecv
  <2>2. \/ rPc' = "exited"
        \/ rPc = "loop" /\ rPc' = "deliver" /\ rCount' = rCount
        \/ rPc = "deliver" /\ rPc' = "ack" /\ rCount' = 0
        \/ rPc = "select" /\ rPc' = "recv" /\ rCount' = rCount
        \/ rPc = "recv" /\ rPc' = "loop" /\ rCount' = 0
      BY <1>4 DEF RTop, SinkFails, EndDeliver, RSelect, EndRecv
  <2> QED  BY <2>1, <2>2, AcksFrame
<1>5. ASSUME NEW m \in netR, RRecvIcmp(m) PROVE InvAcks'
  <2>1. rPc = "recv" /\ rPc' = "recv" /\ toAck' = toAck
      BY <1>5 DEF RRecvIcmp
  <2> QED  BY <2>1, AcksFrame
<1> QED  BY <1>0, <1>1, <1>2, <1>3, <1>4, <1>5 DEF PReceiverStep

(* toAck holds an id once and is bounded, also when the ids wrap. *)
THEOREM AcksInvariant == Spec => []InvAcks
<1>1. Init => InvAcks
  <2> SUFFICES ASSUME Init PROVE InvAcks
      OBVIOUS
  <2>1. toAck = {} /\ rPc = "loop" /\ rCount = 0
      BY DEF Init, PReceiverInit
  <2>2. IsFiniteSet(toAck) /\ Cardinality(toAck) = 0
      BY <2>1, FS_EmptySet
  <2>3. RMax \in Nat
      BY ConstantsAssumption
  <2> QED  BY <2>1, <2>2, <2>3 DEF InvAcks
<1>2. TypeOK /\ InvAcks /\ [Next]_vars => InvAcks'
  <2> SUFFICES ASSUME TypeOK, InvAcks, [Next]_vars PROVE InvAcks'
      OBVIOUS
  <2>1. CASE Receiver
      BY <2>1, ReceiverAcks
  <2>2. CASE ReceiverTimeout
    <3>1. rPc = "select" /\ rPc' = "loop" /\ rCount' = rCount /\ toAck' = toAck
        BY <2>2 DEF ReceiverTimeout, RTimeout
    <3> QED  BY <3>1, AcksFrame
  <2>3. CASE ~Receiver /\ ~ReceiverTimeout
    <3>1. rPc' = rPc /\ rCount' = rCount /\ toAck' = toAck
        BY <2>3 DEF Next, Network, Source, Sender, SenderTimeout, Finished, vars,
                    preceiverVars
    <3> QED  BY <3>1, AcksFrame
  <2> QED  BY <2>1, <2>2, <2>3
<1> QED  BY <1>1, <1>2, TypeCorrect, PTL DEF Spec

(* toAck stays within twice maxPackets, and within maxPackets but for the
   forEach that delivers and the one that acknowledges, also when the ids wrap:
   the one list of preceiver that the window of psender does not bound. *)
THEOREM ToAckBounded == Spec => []ToAckBound
<1>1. InvAcks => ToAckBound
    BY DEF InvAcks, ToAckBound
<1> QED  BY <1>1, AcksInvariant, PTL

-----------------------------------------------------------------------------
(* The use of the network. *)

(* The two proxies use the network only as the interface allows: what they
   send are packets and acks, each of them only towards the other, and they take
   only what is there, one datagram at a time.  The network, whose steps are the
   others, adds nothing but notes. *)
THEOREM ProxiesKeepToNetwork ==
    Spec => /\ DelayNetInit
            /\ [][/\ Network => DelayNetNext
                  /\ Sender => PSenderUse \/ UNCHANGED netVars
                  /\ Receiver => PReceiverUse \/ UNCHANGED netVars
                  /\ Source \/ SenderTimeout \/ ReceiverTimeout
                        => UNCHANGED netVars]_vars
<1>1. Init => DelayNetInit
    BY DEF Init
<1>2. Network => DelayNetNext
    BY DEF Network
<1>3. ASSUME Sender PROVE PSenderUse \/ UNCHANGED netVars
  <2>1. PSenderStep
      BY <1>3 DEF Sender
  <2>2. CASE SendPackets
    <3>1. \A p \in sToSend : BodyPkt(sChannel, p).type = "B"
        BY DEF BodyPkt
    <3>2. SendsOnly(netR, netR') /\ UNCHANGED <<netS, burst>>
        BY <2>2, <3>1 DEF SendPackets, SendsOnly
    <3> QED  BY <3>2 DEF PSenderUse
  <2>3. CASE \E m \in netS : RecvAck(m) \/ SRecvIcmp(m)
    <3>1. TakesOne(netS, netS') /\ UNCHANGED <<netR, burst>>
        BY <2>3 DEF RecvAck, SRecvIcmp, TakesOne
    <3> QED  BY <3>1 DEF PSenderUse
  <2>4. CASE ReadChunk \/ ReadEnd \/ LeaveRead \/ LeaveCheck
             \/ \E r \in BOOLEAN : SSelect(r)
      BY <2>4 DEF ReadChunk, ReadEnd, LeaveRead, LeaveCheck, SSelect
  <2> QED  BY <2>1, <2>2, <2>3, <2>4 DEF PSenderStep
<1>4. ASSUME Receiver PROVE PReceiverUse \/ UNCHANGED netVars
  <2>1. PReceiverStep
      BY <1>4 DEF Receiver
  <2>2. CASE AckPackets
    <3>1. \A p \in FirstNodes(toAck, RMax) : AckPkt(rChannel, p.id).type = "B"
        BY DEF AckPkt
    <3>2. SendsOnly(netS, netS') /\ UNCHANGED <<netR, burst>>
        BY <2>2, <3>1 DEF AckPackets, SendsOnly
    <3> QED  BY <3>2 DEF PReceiverUse
  <2>3. CASE \E m \in netR : RecvBody(m) \/ RRecvIcmp(m)
    <3>1. TakesOne(netR, netR') /\ UNCHANGED <<netS, burst>>
        BY <2>3 DEF RecvBody, RRecvIcmp, TakesOne
    <3> QED  BY <3>1 DEF PReceiverUse
  <2>4. CASE RTop \/ SinkFails \/ EndDeliver \/ RSelect \/ EndRecv
             \/ \E p \in rToSend : SendToReceiver(p)
      BY <2>4 DEF RTop, SinkFails, EndDeliver, RSelect, EndRecv, SendToReceiver
  <2> QED  BY <2>1, <2>2, <2>3, <2>4 DEF PReceiverStep
<1>5. Source \/ SenderTimeout \/ ReceiverTimeout => UNCHANGED netVars
    BY DEF Source, SourceNext, SenderTimeout, STimeout, ReceiverTimeout, RTimeout
<1>6. [Next]_vars => [/\ Network => DelayNetNext
                      /\ Sender => PSenderUse \/ UNCHANGED netVars
                      /\ Receiver => PReceiverUse \/ UNCHANGED netVars
                      /\ Source \/ SenderTimeout \/ ReceiverTimeout
                            => UNCHANGED netVars]_vars
    BY <1>2, <1>3, <1>4, <1>5
<1> QED  BY <1>1, <1>6, PTL DEF Spec
=============================================================================
