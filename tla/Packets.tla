------------------------------ MODULE Packets -------------------------------
(***************************************************************************)
(* The parameters of GProxy, the nodes of its packet lists and the         *)
(* datagrams that the proxies and the Ritardatore exchange.                *)
(***************************************************************************)
EXTENDS Integers, FiniteSets

CONSTANTS
    NumChunks,    \* chunks the source may write: what one recv() returns
    IdMod,        \* packet ids are unsigned ints of IdMod values
    SMax, RMax,   \* maxPackets (argv[2]) of psender and of preceiver
    NumChannels,  \* pairs of ports of the Ritardatore: 3 in the code
    Faults,       \* which faults of the environment can happen
    Punctual      \* TRUE: the select timeouts outlast every delay

(* "loss": PERCENTUALE_ERRORE > 0, datagrams are dropped, and the sockets of
   the Ritardatore may fail; "dup": any number
   of identical datagrams may be in flight, as when psender sends its list
   again before the first copy has arrived (without it, copies that are in
   flight together count as one); "idle": the source may stay silent for
   longer than psender's select timeout, or forever; "reset": the source's
   connection may be reset; "sink": the sink's connection may fail. *)
AllFaults == {"loss", "dup", "idle", "reset", "sink"}

ASSUME ConstantsAssumption ==
    /\ NumChunks \in Nat
    /\ IdMod \in Nat /\ IdMod > 1
    /\ SMax \in Nat /\ SMax > 0
    /\ RMax \in Nat /\ RMax > 0
    /\ NumChannels \in Nat /\ NumChannels > 0
    /\ Faults \subseteq AllFaults
    /\ Punctual \in BOOLEAN

Ids == 0 .. IdMod - 1
Channels == 0 .. NumChannels - 1

(* A node of a packet list.  Body n is the n-th chunk of the source's
   stream; body 0 stands for endingBody, carried under the reserved id 0. *)
Node == [id : Ids, body : 0 .. NumChunks]
Ending == [id |-> 0, body |-> 0]

(* Datagrams: a body packet travels on the channel it was sent on.  An ack
   is a body packet whose body names the id; an ICMP note comes back on the
   channel that lost something. *)
BodyPkt(ch, p) == [type |-> "B", ch |-> ch, id |-> p.id, body |-> p.body]
AckPkt(ch, id) == [type |-> "B", ch |-> ch, id |-> 0, body |-> id]
IcmpPkt(ch)    == [type |-> "I", ch |-> ch, id |-> 0, body |-> 0]

ToReceiver == [type : {"B", "I"}, ch : Channels, id : Ids, body : 0 .. NumChunks]
ToSender   == [type : {"B", "I"}, ch : Channels, id : {0}, body : Ids]

(* What may be left of net when m has been received or dropped: with "dup"
   another copy of m may still be on its way. *)
Remains(net, m) ==
    {net \ {m}} \cup {left \in {net} : "dup" \in Faults}
=============================================================================
