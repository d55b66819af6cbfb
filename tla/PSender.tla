------------------------------ MODULE PSender -------------------------------
(***************************************************************************)
(* psender: reads the source's TCP stream, cuts it into packets, sends     *)
(* every packet of its list towards preceiver on each pass of its loop and *)
(* removes a packet when its ack comes back.                               *)
(*                                                                         *)
(* sPc follows main's loop: "send" (forEach over toSend), "select",        *)
(* "read" (the while around receiveFromSender), "check" (the for around    *)
(* checkRitardatore), "exited".  One recv is one step.                     *)
(***************************************************************************)
EXTENDS DelayNet

VARIABLES
    written, srcState,   \* the source: chunks written; open, closed or reset
    readable,            \* those that recv() has returned or still can
    nread,               \* those that psender has read
    sPc, sToSend, sFinalize, endingRead, currentId, sChannel,
    sRitReady,           \* FD_ISSET(ritardatore, &canReadCopy)
    sCount,              \* counter: receives done in this pass
    ticked               \* preceiver's timeout fired since psender's select

sourceVars == <<written, readable, srcState>>
psenderVars == <<nread, sPc, sToSend, sFinalize, endingRead, currentId,
                 sChannel, sRitReady, sCount>>

PSenderInit ==
    /\ written = 0 /\ readable = 0 /\ srcState = "open" /\ nread = 0
    /\ sPc = "send" /\ sToSend = {}
    /\ sFinalize = FALSE /\ endingRead = FALSE
    /\ currentId = 1 /\ sChannel = 0
    /\ sRitReady = FALSE /\ sCount = 0
    /\ ticked = FALSE

-----------------------------------------------------------------------------
(* The source: pybin/sender.py, or any program that connects to port 59000. *)

SourceWrite ==
    /\ srcState = "open" /\ written < NumChunks
    /\ written' = written + 1
    /\ readable' = readable + 1
    /\ UNCHANGED srcState

SourceClose ==
    /\ srcState = "open"
    /\ srcState' = "closed"
    /\ UNCHANGED <<written, readable>>

(* What was written and not read yet may be lost with the connection. *)
SourceReset ==
    /\ "reset" \in Faults /\ srcState = "open"
    /\ srcState' = "reset"
    /\ readable' \in nread .. readable
    /\ UNCHANGED written

SourceNext ==
    /\ SourceWrite \/ SourceClose \/ SourceReset
    /\ UNCHANGED <<netVars, psenderVars, ticked>>

(* recv() would not block: a chunk, the end of the stream or an error. *)
SourceReadable == nread < readable \/ srcState # "open"

-----------------------------------------------------------------------------
(* The list toSend.  Nodes are appended, so the order of the list is that of
   the chunks with the ending node last. *)

Position(p) == IF p = Ending THEN NumChunks + 1 ELSE p.body

(* Bug: an unknown id removes the first node of the list. *)
RemoveNodeById_first(list, id) ==
    LET found == {p \in list : p.id = id}
        among == IF found = {} THEN list ELSE found
    IN  list \ {p \in among : \A q \in among : Position(p) <= Position(q)}

(* removeNodeById: the first node of the list with this id, if any. *)
RemoveNodeById(list, id) ==
    LET found == {p \in list : p.id = id}
    IN  list \ {p \in found : \A q \in found : Position(p) <= Position(q)}

-----------------------------------------------------------------------------
(* forEach(toSend, &sendPacket, maxPackets).  The list never holds more than
   maxPackets nodes, so all of them are sent. *)
SendPackets ==
    /\ sPc = "send"
    /\ netR' = netR \cup {BodyPkt(sChannel, p) : p \in sToSend}
    /\ sFinalize' = (sFinalize \/ \E p \in sToSend : p.id = 0)
    /\ sPc' = "select"
    /\ ticked' = FALSE
    /\ UNCHANGED <<netS, burst, nread, sToSend, endingRead, currentId,
                   sChannel, sRitReady, sCount>>

(* FD_ISSET(connectedSender, ...): the descriptor leaves the set when the
   connection is closed. *)
SenderReady == SourceReadable /\ ~endingRead

(* select returns: r says whether the Ritardatore's socket is readable. *)
SSelect(r) ==
    /\ sPc = "select"
    /\ r => netS # {}
    /\ SenderReady \/ r
    /\ sRitReady' = r
    /\ sCount' = 0
    /\ sPc' = IF SenderReady THEN "read" ELSE "check"
    /\ UNCHANGED <<netVars, nread, sToSend, sFinalize, endingRead, currentId,
                   sChannel, ticked>>

(* select returns 0 after 10 seconds: terminate(). *)
STimeout ==
    /\ sPc = "select" /\ ~SenderReady
    /\ sPc' = "exited"
    /\ UNCHANGED <<netVars, nread, sToSend, sFinalize, endingRead, currentId,
                   sChannel, sRitReady, sCount, ticked>>

(* Bug: the length of toSend is not tested. *)
EndOfPass_finalizeOnly ==
    /\ sPc' = IF sFinalize THEN "exited" ELSE "send"
    /\ sRitReady' = FALSE
    /\ sCount' = 0

(* if (toSend->length == 0 && finalize) terminate(), or the next pass. *)
EndOfPass ==
    /\ sPc' = IF sToSend = {} /\ sFinalize THEN "exited" ELSE "send"
    /\ sRitReady' = FALSE
    /\ sCount' = 0

(* Bug: one node too many. *)
RoomToRead_offByOne == Cardinality(sToSend) <= SMax /\ ~endingRead

RoomToRead == Cardinality(sToSend) < SMax /\ ~endingRead

(* receiveFromSender, default case: a chunk becomes a packet. *)
ReadChunk ==
    /\ sPc = "read" /\ RoomToRead
    /\ nread < readable
    /\ sToSend' = sToSend \cup {[id |-> currentId, body |-> nread + 1]}
    /\ nread' = nread + 1
    /\ currentId' = (currentId + 1) % IdMod
    /\ UNCHANGED <<netVars, sPc, sFinalize, endingRead, sChannel, sRitReady,
                   sCount, ticked>>

(* Bug: the end of the stream is taken before the last chunks are read. *)
ReadEnd_early ==
    /\ sPc = "read" /\ RoomToRead
    /\ srcState # "open"
    /\ sToSend' = sToSend \cup {Ending}
    /\ endingRead' = TRUE
    /\ UNCHANGED <<netVars, nread, sPc, sFinalize, currentId, sChannel,
                   sRitReady, sCount, ticked>>

(* receiveFromSender, case 0.  The condition of the retry is inverted: an
   error of recv other than EINTR repeats the call, and so a reset is not
   reported; the next call returns 0, as at the end of the stream. *)
ReadEnd ==
    /\ sPc = "read" /\ RoomToRead
    /\ nread = readable /\ srcState # "open"
    /\ sToSend' = sToSend \cup {Ending}
    /\ endingRead' = TRUE
    /\ UNCHANGED <<netVars, nread, sPc, sFinalize, currentId, sChannel,
                   sRitReady, sCount, ticked>>

(* The while around receiveFromSender is over. *)
LeaveRead ==
    /\ sPc = "read" /\ ~RoomToRead
    /\ IF sRitReady THEN sPc' = "check" /\ UNCHANGED <<sRitReady, sCount>>
                    ELSE EndOfPass
    /\ UNCHANGED <<netVars, nread, sToSend, sFinalize, endingRead, currentId,
                   sChannel, ticked>>

(* checkRitardatore, type 'B': an ack. *)
RecvAck(m) ==
    /\ sPc = "check" /\ sCount < SMax
    /\ m \in netS /\ m.type = "B"
    /\ netS' \in Remains(netS, m)
    /\ sToSend' = RemoveNodeById(sToSend, m.body)
    /\ sCount' = sCount + 1
    /\ UNCHANGED <<netR, burst, nread, sPc, sFinalize, endingRead, currentId,
                   sChannel, sRitReady, ticked>>

(* Bug: the channel runs past the table of ports. *)
SRecvIcmp_noModulo(m) ==
    /\ sPc = "check" /\ sCount < SMax
    /\ m \in netS /\ m.type = "I"
    /\ netS' \in Remains(netS, m)
    /\ sChannel' = sChannel + 1
    /\ sCount' = sCount + 1
    /\ UNCHANGED <<netR, burst, nread, sPc, sToSend, sFinalize, endingRead,
                   currentId, sRitReady, ticked>>

(* checkRitardatore, type 'I': switch port. *)
SRecvIcmp(m) ==
    /\ sPc = "check" /\ sCount < SMax
    /\ m \in netS /\ m.type = "I"
    /\ netS' \in Remains(netS, m)
    /\ sChannel' = (sChannel + 1) % NumChannels
    /\ sCount' = sCount + 1
    /\ UNCHANGED <<netR, burst, nread, sPc, sToSend, sFinalize, endingRead,
                   currentId, sRitReady, ticked>>

(* The remaining calls of checkRitardatore find the socket empty.  select
   reported it readable, so the first one did not. *)
LeaveCheck ==
    /\ sPc = "check" /\ sCount > 0
    /\ EndOfPass
    /\ UNCHANGED <<netVars, nread, sToSend, sFinalize, endingRead, currentId,
                   sChannel, ticked>>

(* Every step of psender but its timeout. *)
PSenderStep ==
    /\ \/ SendPackets
       \/ \E r \in BOOLEAN : SSelect(r)
       \/ ReadChunk
       \/ ReadEnd
       \/ LeaveRead
       \/ \E m \in netS : RecvAck(m)
       \/ \E m \in netS : SRecvIcmp(m)
       \/ LeaveCheck
    /\ UNCHANGED sourceVars
=============================================================================
