------------------------------- MODULE GProxy -------------------------------
(***************************************************************************)
(* The whole proxy: the source, psender, the network, preceiver and the    *)
(* sink, and what the program must guarantee.                              *)
(***************************************************************************)
EXTENDS PSender, PReceiver

vars == <<netVars, sourceVars, psenderVars, ticked, preceiverVars>>

Init ==
    /\ DelayNetInit
    /\ PSenderInit
    /\ PReceiverInit

-----------------------------------------------------------------------------
(* When the timeouts may fire.  With Punctual the delays are shorter than
   the timeouts: a select times out only when nothing is on its way to it and
   the other process is itself waiting (or gone).  psender waits 10 seconds
   and preceiver 5, so preceiver's timeout fires first.  Without "idle" the
   source does not keep psender waiting for as long as that. *)

SenderWaits ==
    \/ sPc = "exited"
    \/ sPc = "select" /\ netS = {} /\ ~SenderReady
    \/ sPc = "read" /\ RoomToRead /\ ~SourceReadable

ReceiverWaits ==
    \/ rPc = "exited"
    \/ rPc = "select" /\ netR = {} /\ ticked

SenderTimeout ==
    /\ Punctual => SenderWaits /\ ReceiverWaits
    /\ "idle" \notin Faults => endingRead
    /\ STimeout
    /\ UNCHANGED <<sourceVars, preceiverVars>>

ReceiverTimeout ==
    /\ Punctual => SenderWaits /\ netR = {}
    /\ RTimeout
    /\ ticked' = Punctual
    /\ UNCHANGED <<sourceVars, psenderVars>>

(* A datagram that select has reported is in the buffer of its socket: it
   can no longer be dropped. *)
KeepsReported ==
    /\ rPc = "recv" /\ rCount = 0 => netR' # {}
    /\ sRitReady /\ sCount = 0 => netS' # {}

Network ==
    /\ DelayNetNext
    /\ KeepsReported
    /\ UNCHANGED <<sourceVars, psenderVars, ticked, preceiverVars>>

Source   == SourceNext /\ UNCHANGED preceiverVars
Sender   == PSenderStep /\ UNCHANGED preceiverVars
Receiver == PReceiverStep /\ UNCHANGED <<sourceVars, psenderVars, ticked>>

(* Both proxies have called exit. *)
Finished == sPc = "exited" /\ rPc = "exited" /\ UNCHANGED vars

Next ==
    \/ Network
    \/ Source
    \/ Sender
    \/ SenderTimeout
    \/ Receiver
    \/ ReceiverTimeout
    \/ Finished

Spec == Init /\ [][Next]_vars

(* Fairness.  Both processes are scheduled and a select that can time out
   does.  A datagram that is not dropped arrives within a second, so select
   does not go on forever without seeing one, and no packet and no ack is
   left on the wire for ever while its receiver keeps receiving others. *)
Fairness ==
    /\ WF_vars(Sender) /\ WF_vars(Receiver)
    /\ WF_vars(SenderTimeout) /\ WF_vars(ReceiverTimeout)
    /\ SF_vars(Sender /\ SSelect(TRUE))
    /\ \A i \in 0 .. NumChunks :
        /\ SF_vars(Receiver /\ \E m \in netR : m.id = i /\ RecvBody(m))
        /\ SF_vars(Sender /\ \E m \in netS : m.body = i /\ RecvAck(m))

FairSpec == Spec /\ Fairness

-----------------------------------------------------------------------------
TypeOK ==
    /\ netR \subseteq ToReceiver
    /\ netS \subseteq ToSender
    /\ burst \subseteq Channels
    /\ written \in 0 .. NumChunks /\ readable \in 0 .. written
    /\ nread \in 0 .. readable
    /\ srcState \in {"open", "closed", "reset"}
    /\ sPc \in {"send", "select", "read", "check", "exited"}
    /\ rPc \in {"loop", "deliver", "ack", "select", "recv", "exited"}
    /\ sToSend \subseteq Node /\ rToSend \subseteq Node /\ toAck \subseteq Node
    /\ currentId \in Ids /\ lastSentId \in Ids
    /\ sChannel \in Channels /\ rChannel \in Channels
    /\ sCount \in 0 .. SMax /\ rCount \in 0 .. RMax
    /\ sFinalize \in BOOLEAN /\ endingRead \in BOOLEAN /\ rFinalize \in BOOLEAN
    /\ sRitReady \in BOOLEAN /\ ticked \in BOOLEAN
    /\ delivered \in Seq(0 .. NumChunks)

(* The ids of the whole stream fit in an unsigned int. *)
NoIdWrap == NumChunks < IdMod - 1

(* The sink has got the first chunks of the source's stream, each once, in
   order and without a gap, whatever the network does. *)
Integrity ==
    /\ Len(delivered) <= nread
    /\ \A i \in 1 .. Len(delivered) : delivered[i] = i

(* Until the sink has got a chunk that psender has read, psender keeps it. *)
NothingForgotten ==
    \A n \in 1 .. nread :
        n <= Len(delivered) \/ \E p \in sToSend : p.body = n

(* An ack on its way names a packet that the sink has got: the code moves a
   packet to toAck only when it has been written.  Its comments have a packet
   acknowledged "in any case" (preceiverUtils.c:171) and when it is received
   (progettazione.txt:38-39), also one that is early: that would break this. *)
AckedIsDelivered ==
    \A m \in netS : m.type = "B" /\ m.body # 0 => m.body <= Len(delivered)

(* psender is never more than a window ahead of the sink, and so the list
   of preceiver, which its code does not bound, is bounded by psender's. *)
WindowBound ==
    /\ Cardinality(sToSend) <= SMax
    /\ nread - Len(delivered) <= SMax
    /\ Cardinality(rToSend) <= SMax

(* toAck exceeds maxPackets only by what one forEach delivers, and the forEach
   that acknowledges, limited too, brings it back within maxPackets. *)
ToAckBound ==
    /\ Cardinality(toAck) <= 2 * RMax
    /\ rPc \in {"loop", "select", "recv"} => Cardinality(toAck) <= RMax

(* psender's ordinary exit, with everything acknowledged, means that the
   sink has got all that psender has read, and that this is all that the
   source wrote unless the source's connection was reset. *)
ConfirmedExit ==
    sPc = "exited" /\ sFinalize /\ sToSend = {}
        => /\ endingRead /\ Len(delivered) = nread
           /\ nread = written \/ srcState = "reset"

(* preceiver ends the sink's stream, and reports "Transfer complete!"
   (preceiverUtils.c:129), only when psender has read to the end and the sink
   has got all of it. *)
CompleteExit ==
    rPc = "exited" => endingRead /\ Len(delivered) = nread

(* The abstract stream that the proxy implements: psender's exit is its
   verdict on the transfer. *)
Verdict ==
    CASE sPc # "exited"                                   -> "open"
      [] sPc = "exited" /\ sFinalize /\ sToSend = {}      -> "confirmed"
      [] sPc = "exited" /\ ~(sFinalize /\ sToSend = {})   -> "aborted"

Stream == INSTANCE StreamSpec
          WITH accepted <- nread, output <- delivered, verdict <- Verdict

(* Every run of the proxy is a run of the abstract stream: the sink's stream
   grows only by the next chunk that psender has read, also after psender is
   gone, and psender's verdict is right. *)
ReliableStream == Stream!Spec

(* psender does not exit with unacknowledged packets. *)
NoGiveUp == sPc = "exited" => sToSend = {}

(* When both processes have exited they agree on how it went, though neither
   knows of the other's exit: the sink has all that the source wrote, and
   that is psender's verdict.  It is stated for a source that is not reset. *)
ExitsAgree ==
    sPc = "exited" /\ rPc = "exited"
        => Len(delivered) = written /\ Verdict = "confirmed"

(* Once the source has closed its connection, the sink gets the whole stream
   and both processes exit. *)
TransferCompletes ==
    srcState = "closed" ~>
        Len(delivered) = written /\ sPc = "exited" /\ rPc = "exited"
-----------------------------------------------------------------------------
(* The inductive invariant behind Integrity, NothingForgotten,
   AckedIsDelivered, ConfirmedExit and ReliableStream.  It needs NoIdWrap. *)

(* Ids count chunks: psender's from what it has read, preceiver's from what
   it has sent on. *)
InvIds ==
    /\ currentId = nread + 1
    /\ lastSentId = Len(delivered) + 1

(* psender's list holds packets of chunks it has read, and at most the
   ending node besides. *)
InvSenderList ==
    /\ \A p \in sToSend : p.id = p.body /\ p.body <= nread
    /\ Ending \in sToSend => endingRead
    /\ IsFiniteSet(sToSend) /\ Cardinality(sToSend) <= SMax

(* So does the network on its way to preceiver, old copies included. *)
InvNetR == \A m \in netR : m.type = "B" => m.id = m.body /\ m.body <= nread

(* preceiver's toSend holds what the sink has not got, toAck what it has. *)
InvReceiverLists ==
    /\ \A p \in rToSend : p.id = p.body /\ p.id >= lastSentId /\ p.id <= nread
    /\ \A p \in toAck : p.id < lastSentId

(* The end of the stream is read after all of its chunks, and only a reset
   loses some of them. *)
InvEnd ==
    /\ endingRead => nread = readable /\ srcState # "open"
    /\ readable = written \/ srcState = "reset"
    /\ sFinalize => endingRead

IInv ==
    /\ InvIds /\ InvSenderList /\ InvNetR /\ InvReceiverLists /\ InvEnd
    /\ Integrity /\ NothingForgotten /\ AckedIsDelivered

(* The inductive invariant behind ToAckBound, whatever the ids do: toAck holds
   an id once and exceeds maxPackets by what the current forEach has
   delivered. *)
InvAcks ==
    /\ IsFiniteSet(toAck)
    /\ \A p, q \in toAck : p.id = q.id => p = q
    /\ rPc \in {"loop", "ack", "select"} => rCount = 0
    /\ rPc \in {"loop", "select", "recv"} => Cardinality(toAck) <= RMax
    /\ rPc = "deliver" => Cardinality(toAck) <= RMax + rCount
    /\ Cardinality(toAck) <= 2 * RMax

(* The inductive invariant behind CompleteExit and NoGiveUp, for a network
   that loses nothing, a sink that does not fail and timeouts longer than the
   delays.  It needs NoIdWrap, IInv and InvAcks. *)
Lossless == Punctual /\ "loss" \notin Faults /\ "sink" \notin Faults

(* Only packets are on their way to preceiver, and from preceiver's timeout
   until psender sends again nothing is. *)
InvWire ==
    /\ \A m \in netR : m.type = "B"
    /\ ticked => netR = {}

(* The ending packet is sent together with or after every chunk: from then on
   what the sink has not got is at preceiver or on its way there. *)
InvLast ==
    /\ (\E m \in netR : m.id = 0) \/ (\E p \in toAck : p.id = 0) \/ rFinalize
          => sFinalize
    /\ sFinalize =>
          \A n \in 1 .. nread : \/ n <= Len(delivered)
                                \/ \E p \in rToSend : p.id = n
                                \/ \E m \in netR : m.id = n

(* A receive leaves a node on a list.  So preceiver finds both lists empty at
   the top of its loop only after a timeout, and then the sink has got all. *)
InvReceiverEnd ==
    /\ rPc = "recv" /\ rCount > 0 => rToSend # {} \/ toAck # {}
    /\ rPc \in {"loop", "exited"} /\ rFinalize /\ rToSend = {} /\ toAck = {}
          => Len(delivered) = nread
    /\ rPc = "exited" => rFinalize /\ rToSend = {} /\ toAck = {}

(* While psender waits, what it keeps is on its way or at preceiver, or there
   is an ack to come; for what the sink has got, that packet's own ack. *)
InvUnderWay ==
    /\ sPc = "select" =>
          \A p \in sToSend : \/ \E m \in netR : m.id = p.id
                             \/ \E q \in rToSend : q.id = p.id
                             \/ toAck # {} \/ netS # {}
    /\ \A p \in sToSend : p.id # 0 /\ p.id < lastSentId =>
          \/ \E q \in toAck : q.id = p.id
          \/ \E m \in netS : m.type = "B" /\ m.body = p.id
    /\ rFinalize /\ Ending \in sToSend => \E m \in netS : m.type = "B" /\ m.body = 0

(* A pass of preceiver's loop sends an ack, unless it has none to send and the
   packet whose turn it is has not come.  So after its timeout there is an
   ack on its way to psender or preceiver lacks that packet. *)
InvPass ==
    LET stuck == toAck = {} /\ \A p \in rToSend : p.id # lastSentId
    IN  /\ rPc = "deliver" /\ rCount > 0 => toAck # {}
        /\ rPc = "ack" => toAck # {} \/ stuck
        /\ ticked /\ rPc = "select" /\ sPc = "select" => netS # {} \/ stuck

LosslessInv ==
    /\ InvWire /\ InvLast /\ InvReceiverEnd /\ InvUnderWay /\ InvPass
    /\ NoGiveUp

-----------------------------------------------------------------------------
(* What the documents and the comments of the repository say, and the code
   does not do. *)

(* An error of the source's connection ends psender with an error
   (psenderUtils.c:162, 177-181), and so an ordinary exit means that the sink
   has got all that the source wrote. *)
ConfirmedIsWhole == Verdict = "confirmed" => Len(delivered) = written

(* A chunk that psender has read reaches the sink, also while the source
   keeps the connection open and silent, as in a chat (README.md:4). *)
ChatIsDelivered ==
    \A n \in 1 .. NumChunks : nread >= n ~> Len(delivered) >= n

(* preceiver exits some time after psender is gone (preceiver.c:94-95). *)
ReceiverFollows == sPc = "exited" ~> rPc = "exited"

(* The finalizing packet is never sent to the sink (preceiverUtils.c:178). *)
EndingNeverSent == \A i \in 1 .. Len(delivered) : delivered[i] # 0

(* An ICMP note of a burst makes psender leave the channel of that burst for
   one that works (progettazione.txt:4-5): it never moves to that channel. *)
LeavesBurst ==
    [][\A m \in netS : SRecvIcmp(m) => sChannel' # m.ch]_vars
=============================================================================
