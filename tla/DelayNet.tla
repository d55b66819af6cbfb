------------------------------ MODULE DelayNet ------------------------------
(***************************************************************************)
(* The UDP network between the two proxies, as psender and preceiver see   *)
(* it: the Ritardatore process delays, reorders and drops datagrams, and   *)
(* answers some of the drops with an ICMP note.  Module Ritardatore is     *)
(* what does it.                                                           *)
(*                                                                         *)
(* netR holds every datagram on its way to preceiver and netS every        *)
(* datagram on its way to psender: in the Ritardatore's list, on the wire  *)
(* or in the socket buffer of its destination.  A receive takes any of     *)
(* them, so delay and reordering need no action of their own.              *)
(***************************************************************************)
EXTENDS Packets

VARIABLES
    netR,   \* datagrams on their way to preceiver
    netS,   \* datagrams on their way to psender
    burst   \* the channels that are in a loss burst

netVars == <<netR, netS, burst>>

DelayNetInit ==
    /\ netR = {}
    /\ netS = {}
    /\ burst = {}

(* cambia_stato_canale_se_scaduto_burst: a channel changes state when its
   period is over; the draw of the period is abstracted to any moment. *)
ChangeBurst(ch) ==
    /\ "loss" \in Faults
    /\ burst' = IF ch \in burst THEN burst \ {ch} ELSE burst \cup {ch}
    /\ UNCHANGED <<netR, netS>>

(* ricevo_inserisco, result 1: dropped and nobody is told.  It happens in a
   burst and, for some packets, out of it. *)
DropSilently ==
    /\ "loss" \in Faults
    /\ \/ \E m \in netR : netR' = netR \ {m} /\ UNCHANGED netS
       \/ \E m \in netS : netS' = netS \ {m} /\ UNCHANGED netR
    /\ UNCHANGED burst

(* ricevo_inserisco, result 2: dropped in a burst, and an ICMP note returns
   to the side and on the channel the packet came from. *)
DropWithIcmp ==
    /\ "loss" \in Faults
    /\ \/ \E m \in netR : /\ m.type = "B" /\ m.ch \in burst
                          /\ netR' \in Remains(netR, m)
                          /\ netS' = netS \cup {IcmpPkt(m.ch)}
       \/ \E m \in netS : /\ m.type = "B" /\ m.ch \in burst
                          /\ netS' \in Remains(netS, m)
                          /\ netR' = netR \cup {IcmpPkt(m.ch)}
    /\ UNCHANGED burst

DelayNetNext ==
    \/ \E ch \in Channels : ChangeBurst(ch)
    \/ DropSilently
    \/ DropWithIcmp

-----------------------------------------------------------------------------
(* The other side of the interface: what the proxies do to the network.  Each
   sends packets or acks, which only the proxies do, and takes what has arrived
   for it. *)

SendsOnly(net, netNew) ==
    net \subseteq netNew /\ \A m \in netNew \ net : m.type = "B"

TakesOne(net, netNew) == \E m \in net : netNew \in Remains(net, m)

PSenderUse ==
    \/ SendsOnly(netR, netR') /\ UNCHANGED <<netS, burst>>
    \/ TakesOne(netS, netS') /\ UNCHANGED <<netR, burst>>

PReceiverUse ==
    \/ SendsOnly(netS, netS') /\ UNCHANGED <<netR, burst>>
    \/ TakesOne(netR, netR') /\ UNCHANGED <<netS, burst>>
=============================================================================
