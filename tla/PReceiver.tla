----------------------------- MODULE PReceiver ------------------------------
(***************************************************************************)
(* preceiver: collects body packets, hands them to the sink over TCP in    *)
(* the order of their ids and acknowledges what it has handed over.        *)
(*                                                                         *)
(* rPc follows main's loop: "loop" (the termination test), "deliver"       *)
(* (forEach over toSend), "ack" (forEach over toAck), "select", "recv"     *)
(* (the for around receiveFromPsender), "exited".                          *)
(***************************************************************************)
EXTENDS DelayNet, Sequences

VARIABLES
    rPc, rToSend, toAck, rFinalize, lastSentId, rChannel,
    rCount,      \* scans or counter: nodes or receives done in this round
    delivered    \* the chunks written to the sink's connection

preceiverVars == <<rPc, rToSend, toAck, rFinalize, lastSentId, rChannel,
                   rCount, delivered>>

PReceiverInit ==
    /\ rPc = "loop"
    /\ rToSend = {} /\ toAck = {}
    /\ rFinalize = FALSE
    /\ lastSentId = 1
    /\ rChannel = 0
    /\ rCount = 0
    /\ delivered = << >>

-----------------------------------------------------------------------------
(* The lists of preceiver are sorted by id and hold an id once. *)

(* insertNodeById: a node whose id is present already is not inserted (and
   its memory is lost). *)
InsertById(list, p) ==
    IF \E q \in list : q.id = p.id THEN list ELSE list \cup {p}

(* The nodes that forEach visits with maxScans = n. *)
FirstNodes(list, n) ==
    {p \in list : Cardinality({q \in list : q.id < p.id}) < n}

-----------------------------------------------------------------------------
(* Bug: the lists are not tested. *)
RTop_finalizeOnly ==
    /\ rPc = "loop"
    /\ rPc' = IF rFinalize THEN "exited" ELSE "deliver"
    /\ UNCHANGED <<netVars, rToSend, toAck, rFinalize, lastSentId, rChannel,
                   rCount, delivered>>

(* The test at the top of the loop. *)
RTop ==
    /\ rPc = "loop"
    /\ rPc' = IF rFinalize /\ rToSend = {} /\ toAck = {}
              THEN "exited" ELSE "deliver"
    /\ UNCHANGED <<netVars, rToSend, toAck, rFinalize, lastSentId, rChannel,
                   rCount, delivered>>

(* Bug: a packet is sent as soon as it is there, in its turn or not. *)
SendToReceiver_outOfTurn(p) ==
    /\ rPc = "deliver" /\ rCount < RMax
    /\ p \in rToSend /\ p.id >= lastSentId
    /\ delivered' = Append(delivered, p.body)
    /\ lastSentId' = (lastSentId + 1) % IdMod
    /\ rToSend' = rToSend \ {p}
    /\ toAck' = InsertById(toAck, p)
    /\ rCount' = rCount + 1
    /\ UNCHANGED <<netVars, rPc, rFinalize, rChannel>>

(* Bug: lastSentId does not advance. *)
SendToReceiver_noAdvance(p) ==
    /\ rPc = "deliver" /\ rCount < RMax
    /\ p \in rToSend /\ p.id = lastSentId
    /\ delivered' = Append(delivered, p.body)
    /\ rToSend' = rToSend \ {p}
    /\ toAck' = InsertById(toAck, p)
    /\ rCount' = rCount + 1
    /\ UNCHANGED <<netVars, rPc, rFinalize, lastSentId, rChannel>>

(* sendToReceiver on the node whose turn it is.  The list is sorted and
   starts at lastSentId or above, so forEach meets that node first. *)
SendToReceiver(p) ==
    /\ rPc = "deliver" /\ rCount < RMax
    /\ p \in rToSend /\ p.id = lastSentId
    /\ delivered' = Append(delivered, p.body)
    /\ lastSentId' = (lastSentId + 1) % IdMod
    /\ rToSend' = rToSend \ {p}
    /\ toAck' = InsertById(toAck, p)
    /\ rCount' = rCount + 1
    /\ UNCHANGED <<netVars, rPc, rFinalize, rChannel>>

(* send() fails: printError exits. *)
SinkFails ==
    /\ "sink" \in Faults
    /\ rPc = "deliver" /\ rCount < RMax
    /\ \E p \in rToSend : p.id = lastSentId
    /\ rPc' = "exited"
    /\ UNCHANGED <<netVars, rToSend, toAck, rFinalize, lastSentId, rChannel,
                   rCount, delivered>>

(* No other node of this forEach is in its turn. *)
EndDeliver ==
    /\ rPc = "deliver"
    /\ rCount = RMax \/ \A p \in rToSend : p.id # lastSentId
    /\ rPc' = "ack"
    /\ rCount' = 0
    /\ UNCHANGED <<netVars, rToSend, toAck, rFinalize, lastSentId, rChannel,
                   delivered>>

(* Bug: the ack of the finalizing packet does not set finalize. *)
AckPackets_noFinalize ==
    LET acked == FirstNodes(toAck, RMax)
    IN  /\ rPc = "ack"
        /\ netS' = netS \cup {AckPkt(rChannel, p.id) : p \in acked}
        /\ toAck' = toAck \ acked
        /\ rPc' = "select"
        /\ UNCHANGED <<netR, burst, rToSend, rFinalize, lastSentId, rChannel,
                       rCount, delivered>>

(* Bug: the nodes that maxPackets leaves for the next pass are dropped. *)
AckPackets_forgetsRest ==
    LET acked == FirstNodes(toAck, RMax)
    IN  /\ rPc = "ack"
        /\ netS' = netS \cup {AckPkt(rChannel, p.id) : p \in acked}
        /\ rFinalize' = (rFinalize \/ \E p \in acked : p.id = 0)
        /\ toAck' = {}
        /\ rPc' = "select"
        /\ UNCHANGED <<netR, burst, rToSend, lastSentId, rChannel, rCount,
                       delivered>>

(* forEach(toAck, &ackPacket, maxPackets). *)
AckPackets ==
    LET acked == FirstNodes(toAck, RMax)
    IN  /\ rPc = "ack"
        /\ netS' = netS \cup {AckPkt(rChannel, p.id) : p \in acked}
        /\ rFinalize' = (rFinalize \/ \E p \in acked : p.id = 0)
        /\ toAck' = toAck \ acked
        /\ rPc' = "select"
        /\ UNCHANGED <<netR, burst, rToSend, lastSentId, rChannel, rCount,
                       delivered>>

(* select returns: a datagram has arrived. *)
RSelect ==
    /\ rPc = "select" /\ netR # {}
    /\ rPc' = "recv"
    /\ UNCHANGED <<netVars, rToSend, toAck, rFinalize, lastSentId, rChannel,
                   rCount, delivered>>

(* select returns 0 after 5 seconds: only timedOut, which the final report
   uses, is set, and the loop goes round. *)
RTimeout ==
    /\ rPc = "select"
    /\ rPc' = "loop"
    /\ UNCHANGED <<netVars, rToSend, toAck, rFinalize, lastSentId, rChannel,
                   rCount, delivered>>

(* Bug: a packet is acknowledged when it arrives, not when it is sent on. *)
RecvBody_ackAtOnce(m) ==
    LET node == [id |-> m.id, body |-> m.body]
    IN  /\ rPc = "recv" /\ rCount < RMax
        /\ m \in netR /\ m.type = "B"
        /\ netR' \in Remains(netR, m)
        /\ rToSend' = IF m.id >= lastSentId
                      THEN InsertById(rToSend, node) ELSE rToSend
        /\ toAck' = IF Cardinality(toAck) < RMax
                    THEN InsertById(toAck, node) ELSE toAck
        /\ rCount' = rCount + 1
        /\ UNCHANGED <<netS, burst, rPc, rFinalize, lastSentId, rChannel,
                       delivered>>

(* Bug: the length of toAck is not tested. *)
RecvBody_noRoomTest(m) ==
    LET node == [id |-> m.id, body |-> m.body]
    IN  /\ rPc = "recv" /\ rCount < RMax
        /\ m \in netR /\ m.type = "B"
        /\ netR' \in Remains(netR, m)
        /\ IF m.id >= lastSentId
           THEN rToSend' = InsertById(rToSend, node) /\ UNCHANGED toAck
           ELSE toAck' = InsertById(toAck, node) /\ UNCHANGED rToSend
        /\ rCount' = rCount + 1
        /\ UNCHANGED <<netS, burst, rPc, rFinalize, lastSentId, rChannel,
                       delivered>>

(* Bug: an old packet is queued for the sink again. *)
RecvBody_alwaysInsert(m) ==
    LET node == [id |-> m.id, body |-> m.body]
    IN  /\ rPc = "recv" /\ rCount < RMax
        /\ m \in netR /\ m.type = "B"
        /\ netR' \in Remains(netR, m)
        /\ rToSend' = InsertById(rToSend, node)
        /\ rCount' = rCount + 1
        /\ UNCHANGED <<netS, burst, rPc, toAck, rFinalize, lastSentId,
                       rChannel, delivered>>

(* receiveFromPsender, type 'B'. *)
RecvBody(m) ==
    LET node == [id |-> m.id, body |-> m.body]
    IN  /\ rPc = "recv" /\ rCount < RMax
        /\ m \in netR /\ m.type = "B"
        /\ netR' \in Remains(netR, m)
        /\ IF m.id >= lastSentId
           THEN rToSend' = InsertById(rToSend, node) /\ UNCHANGED toAck
           ELSE /\ UNCHANGED rToSend
                /\ toAck' = IF Cardinality(toAck) < RMax
                            THEN InsertById(toAck, node) ELSE toAck
        /\ rCount' = rCount + 1
        /\ UNCHANGED <<netS, burst, rPc, rFinalize, lastSentId, rChannel,
                       delivered>>

(* receiveFromPsender, type 'I': switch port. *)
RRecvIcmp(m) ==
    /\ rPc = "recv" /\ rCount < RMax
    /\ m \in netR /\ m.type = "I"
    /\ netR' \in Remains(netR, m)
    /\ rChannel' = (rChannel + 1) % NumChannels
    /\ rCount' = rCount + 1
    /\ UNCHANGED <<netS, burst, rPc, rToSend, toAck, rFinalize, lastSentId,
                   delivered>>

(* The remaining calls of receiveFromPsender find the socket empty. *)
EndRecv ==
    /\ rPc = "recv" /\ rCount > 0
    /\ rPc' = "loop"
    /\ rCount' = 0
    /\ UNCHANGED <<netVars, rToSend, toAck, rFinalize, lastSentId, rChannel,
                   delivered>>

(* Every step of preceiver but its timeout. *)
PReceiverStep ==
    \/ RTop
    \/ \E p \in rToSend : SendToReceiver(p)
    \/ SinkFails
    \/ EndDeliver
    \/ AckPackets
    \/ RSelect
    \/ \E m \in netR : RecvBody(m)
    \/ \E m \in netR : RRecvIcmp(m)
    \/ EndRecv
=============================================================================
