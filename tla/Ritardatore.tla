---------------------------- MODULE Ritardatore -----------------------------
(***************************************************************************)
(* The Ritardatore, the emulator between the two proxies: NumChannels      *)
(* pairs of UDP sockets, one list of delayed datagrams, one loop around    *)
(* select.  Its datagrams are those of Packets.                            *)
(*                                                                         *)
(* Time.  The clock is counted in units of 1/SecInMcsec of a second, and   *)
(* seconds from the current one: when a second is over, every instant that *)
(* is kept loses one from its tv_sec.  An instant of an earlier second     *)
(* keeps tv_sec = -1, since it is only compared with instants that have    *)
(* tv_sec >= 0.                                                            *)
(***************************************************************************)
EXTENDS Packets, TimeArith, Sequences

CONSTANTS
    Delays,       \* what a datagram may be held for, in units
    Idle,         \* the timeout of select when the list is empty
    Bursts,       \* how long a burst may last, in units
    Sendings,     \* how long a channel may send between two bursts
    FirstSecs,    \* seconds until the first burst: 5 in the code
    StepSecs,     \* and how many more for each further channel: 10
    SentIds,      \* the ids of the packets and acks that the proxies may send
    MaxLoad,      \* bound: how many of them are on their way at a time
    MaxLag,       \* bound: units that one pass of the loop may take
    CommentedMax  \* 140 ms, in units: the longest delay of the comments

ASSUME RitardatoreAssumption ==
    /\ Delays \subseteq Nat /\ Bursts \subseteq Nat /\ Sendings \subseteq Nat
    /\ Delays # {} /\ Bursts # {} /\ Sendings # {}
    /\ Idle \in Nat /\ FirstSecs \in Nat /\ StepSecs \in Nat
    /\ SentIds \subseteq Ids
    /\ MaxLoad \in Nat /\ CommentedMax \in Nat
    /\ MaxLag \in Nat

(* The sockets of a pair: latosender faces psender, latoreceiver preceiver. *)
Sides == {"latosender", "latoreceiver"}
Sockets == Sides \X Channels
Opposite(side) ==
    IF side = "latosender" THEN "latoreceiver" ELSE "latosender"

VARIABLES
    now,      \* the clock: units since the second began
    buffer,   \* datagrams in the receive buffer of each socket
    root,     \* the list of delayed datagrams
    arrived,  \* datagrams sent on by the Ritardatore, by the side they left
    stato,    \* stato_trasmissione of each channel: 0 in a burst, 1 sending
    cambio,   \* ist_prossimo_cambio_stato of each channel
    attivo,   \* the pairs that are open
    fase,     \* place in main's loop: select, release, burst, receive
    rdset,    \* the sockets that select has reported and main has not read
    canale,   \* the channel whose burst is looked at next
    sveglia,  \* when select times out
    lag       \* units that this pass has taken, its select not counted

clockVars == <<now, sveglia, cambio>>
loopVars == <<fase, rdset, canale, lag>>
ritVars == <<now, buffer, root, arrived, stato, cambio, attivo, fase, rdset,
             canale, sveglia, lag>>

Now == [sec |-> 0, usec |-> now]
After(units) == Somma(Now, [sec |-> 0, usec |-> units])

(* An element of the list: a datagram, the side it leaves from and when. *)
Element == [pkt : ToReceiver \cup ToSender, side : Sides, timeout : Timeval]

RitInit ==
    /\ now \in 0 .. SecInMcsec - 1
    /\ buffer = [s \in Sockets |-> << >>]
    /\ root = << >>
    /\ arrived = [side \in Sides |-> {}]
    /\ stato = [ch \in Channels |-> 1]
    /\ cambio = [ch \in Channels |->
                    [sec |-> FirstSecs + ch * StepSecs, usec |-> now]]
    /\ attivo = Channels
    /\ fase = "select" /\ rdset = {} /\ canale = 0
    /\ sveglia = After(Idle)
    /\ lag = 0

-----------------------------------------------------------------------------
(* The proxies. *)

Load == Cardinality({x \in Sockets \X (1 .. MaxLoad) : x[2] <= Len(buffer[x[1]])})
        + Len(root) + Cardinality(arrived["latosender"])
        + Cardinality(arrived["latoreceiver"])

(* The datagrams that psender sends to latosender and preceiver to
   latoreceiver. *)
Traffic(side) ==
    IF side = "latosender"
    THEN {m \in ToReceiver : m.type = "B" /\ m.id \in SentIds}
    ELSE {m \in ToSender : m.type = "B" /\ m.body \in SentIds}

(* A datagram reaches the port it was sent to; one for a closed pair stays in
   buffer, where nothing reads it. *)
ProxySends(side, m) ==
    /\ Load < MaxLoad
    /\ buffer' = [buffer EXCEPT ![<<side, m.ch>>] = Append(@, m)]
    /\ UNCHANGED <<clockVars, root, arrived, stato, attivo, loopVars>>

ProxyReceives(side) ==
    /\ \E m \in arrived[side] :
          \E rest \in Remains(arrived[side], m) :
             arrived' = [arrived EXCEPT ![side] = rest]
    /\ UNCHANGED <<clockVars, buffer, root, stato, attivo, loopVars>>

(* What the proxy on one side does. *)
Proxy(side) ==
    \/ \E m \in Traffic(side) : ProxySends(side, m)
    \/ ProxyReceives(side)

-----------------------------------------------------------------------------
(* Bug: at the end, whatever its timeout. *)
AggiungiInOrdine_last(p) == root' = Append(root, p)

(* aggiungi_in_ordine: before the first element that minore puts p before,
   or at the end. *)
AggiungiInOrdine(p) ==
    \E n \in 1 .. Len(root) + 1 :
        /\ \A k \in 1 .. n - 1 : ~Minore(p.timeout, root[k].timeout)
        /\ n <= Len(root) => Minore(p.timeout, root[n].timeout)
        /\ root' = [k \in 1 .. Len(root) + 1 |->
                      IF k < n THEN root[k]
                      ELSE IF k = n THEN p ELSE root[k - 1]]

(* When the select that main is about to call times out. *)
Sveglia(list, t) ==
    Somma(t, IF list = << >> THEN [sec |-> 0, usec |-> Idle]
             ELSE Differenza(list[1].timeout, t))

-----------------------------------------------------------------------------
(* main's loop. *)

Readable == {s \in Sockets : s[2] \in attivo /\ buffer[s] # << >>}

(* Bug: select waits for a datagram. *)
SelectReturns_noTimeout == Readable # {}

(* Bug: select has no timeout while the list is empty. *)
SelectReturns_idleForever ==
    Readable # {} \/ (root # << >> /\ MinoreOUguale(sveglia, Now))

SelectReturns == Readable # {} \/ MinoreOUguale(sveglia, Now)

Select ==
    /\ fase = "select" /\ SelectReturns
    /\ rdset' = Readable
    /\ fase' = "release"
    /\ UNCHANGED <<clockVars, buffer, root, arrived, stato, attivo, canale,
                   lag>>

(* An element that is due is sent, if its pair is still open, and freed. *)
Release ==
    /\ fase = "release"
    /\ root # << >> /\ MinoreOUguale(root[1].timeout, Now)
    /\ arrived' = IF root[1].pkt.ch \in attivo
                  THEN [arrived EXCEPT ![root[1].side] = @ \cup {root[1].pkt}]
                  ELSE arrived
    /\ root' = Tail(root)
    /\ UNCHANGED <<clockVars, buffer, stato, attivo, loopVars>>

EndRelease ==
    /\ fase = "release"
    /\ root # << >> => ~MinoreOUguale(root[1].timeout, Now)
    /\ fase' = "burst"
    /\ canale' = 0
    /\ UNCHANGED <<clockVars, buffer, root, arrived, stato, attivo, rdset,
                   lag>>

(* Bug: one channel too many. *)
CambiaStato_offByOne ==
    /\ fase = "burst" /\ canale <= NumChannels
    /\ canale' = canale + 1
    /\ UNCHANGED <<clockVars, buffer, root, arrived, stato, attivo, fase, rdset,
                   lag>>

(* cambia_stato_canale_se_scaduto_burst. *)
CambiaStato ==
    /\ fase = "burst" /\ canale < NumChannels
    /\ IF /\ "loss" \in Faults /\ canale \in attivo
          /\ MinoreOUguale(cambio[canale], Now)
       THEN /\ stato' = [stato EXCEPT ![canale] = 1 - @]
            /\ \E d \in IF stato[canale] = 1 THEN Bursts ELSE Sendings :
                  cambio' = [cambio EXCEPT ![canale] = After(d)]
       ELSE UNCHANGED <<stato, cambio>>
    /\ canale' = canale + 1
    /\ UNCHANGED <<now, sveglia, buffer, root, arrived, attivo, fase, rdset,
                   lag>>

EndBurst ==
    /\ fase = "burst" /\ canale = NumChannels
    /\ fase' = "receive"
    /\ UNCHANGED <<clockVars, buffer, root, arrived, stato, attivo, rdset,
                   canale, lag>>

(* The sockets are read in this order, one datagram each; a pair that has
   been closed in this pass is skipped. *)
Rank(s) == 2 * s[2] + (IF s[1] = "latosender" THEN 0 ELSE 1)
ToRead == {s \in rdset : s[2] \in attivo}
NextToRead(s) == s \in ToRead /\ \A t \in ToRead : Rank(s) <= Rank(t)

(* Bug: the socket stays in the set that is being read. *)
Takes_again(s) ==
    /\ fase = "receive" /\ NextToRead(s)
    /\ buffer' = [buffer EXCEPT ![s] = Tail(@)]
    /\ rdset' = rdset

(* ricevo_inserisco takes the first datagram of the socket. *)
Takes(s) ==
    /\ fase = "receive" /\ NextToRead(s)
    /\ buffer' = [buffer EXCEPT ![s] = Tail(@)]
    /\ rdset' = rdset \ {s}

(* Result 1: in or out of a burst, but never with a loss rate of zero. *)
ScartaSenzaIcmp(s) ==
    /\ Takes(s)
    /\ "loss" \in Faults
    /\ UNCHANGED <<clockVars, root, arrived, stato, attivo, fase, canale, lag>>

(* Bug: the note goes on to where the datagram was going. *)
ScartaConIcmp_wrongSide(s) ==
    /\ Takes(s)
    /\ stato[s[2]] = 0
    /\ \E d \in Delays :
          AggiungiInOrdine([pkt |-> IcmpPkt(s[2]), side |-> Opposite(s[1]),
                            timeout |-> After(d)])
    /\ UNCHANGED <<clockVars, arrived, stato, attivo, fase, canale, lag>>

(* Result 2: in a burst, a note goes back to the sender of the datagram. *)
ScartaConIcmp(s) ==
    /\ Takes(s)
    /\ stato[s[2]] = 0
    /\ \E d \in Delays :
          AggiungiInOrdine([pkt |-> IcmpPkt(s[2]), side |-> s[1],
                            timeout |-> After(d)])
    /\ UNCHANGED <<clockVars, arrived, stato, attivo, fase, canale, lag>>

(* Result 3: the datagram will leave from the other socket of the pair. *)
Inoltra(s) ==
    /\ Takes(s)
    /\ stato[s[2]] = 1
    /\ \E d \in Delays :
          AggiungiInOrdine([pkt |-> Head(buffer[s]), side |-> Opposite(s[1]),
                            timeout |-> After(d)])
    /\ UNCHANGED <<clockVars, arrived, stato, attivo, fase, canale, lag>>

(* recvfrom fails with ECONNRESET: nothing is read and the pair stays open. *)
NonChiudo(s) ==
    /\ "loss" \in Faults
    /\ fase = "receive" /\ NextToRead(s)
    /\ rdset' = rdset \ {s}
    /\ UNCHANGED <<clockVars, buffer, root, arrived, stato, attivo, fase, canale,
                   lag>>

(* recvfrom fails for another reason: close_coppia.  What is in the buffers of
   the pair will not be read any more. *)
ChiudiCoppia(s) ==
    /\ "loss" \in Faults
    /\ fase = "receive" /\ NextToRead(s)
    /\ attivo' = attivo \ {s[2]}
    /\ rdset' = rdset \ {s}
    /\ UNCHANGED <<clockVars, buffer, root, arrived, stato, fase, canale, lag>>

EndReceive ==
    /\ fase = "receive" /\ ToRead = {}
    /\ fase' = "select"
    /\ rdset' = {}
    /\ lag' = 0
    /\ sveglia' = Sveglia(root, Now)
    /\ UNCHANGED <<now, cambio, buffer, root, arrived, stato, attivo, canale>>

Loop ==
    \/ Select
    \/ Release
    \/ EndRelease
    \/ CambiaStato
    \/ EndBurst
    \/ \E s \in Sockets : ScartaSenzaIcmp(s)
    \/ \E s \in Sockets : ScartaConIcmp(s)
    \/ \E s \in Sockets : Inoltra(s)
    \/ \E s \in Sockets : NonChiudo(s)
    \/ \E s \in Sockets : ChiudiCoppia(s)
    \/ EndReceive

-----------------------------------------------------------------------------
(* A kept instant, seen from the next second. *)
Older(t) == [sec |-> IF t.sec < 0 THEN -1 ELSE t.sec - 1, usec |-> t.usec]

(* Time passes: in select, or for MaxLag units in what follows it. *)
Tick ==
    /\ IF fase = "select" /\ ~SelectReturns THEN UNCHANGED lag
       ELSE lag < MaxLag /\ lag' = lag + 1
    /\ IF now + 1 < SecInMcsec
       THEN now' = now + 1 /\ UNCHANGED <<root, cambio, sveglia>>
       ELSE /\ now' = 0
            /\ root' = [k \in DOMAIN root |->
                          [root[k] EXCEPT !.timeout = Older(@)]]
            /\ cambio' = [ch \in Channels |-> Older(cambio[ch])]
            /\ sveglia' = Older(sveglia)
    /\ UNCHANGED <<buffer, arrived, stato, attivo, fase, rdset, canale>>

RitNext ==
    \/ \E side \in Sides : Proxy(side)
    \/ Loop
    \/ Tick

RitSpec == RitInit /\ [][RitNext]_ritVars

(* Fairness: the process is scheduled and time passes. *)
RitFairSpec == RitSpec /\ WF_ritVars(Loop) /\ WF_ritVars(Tick)

-----------------------------------------------------------------------------
RitTypeOK ==
    /\ now \in 0 .. SecInMcsec - 1
    /\ buffer \in [Sockets -> Seq(ToReceiver \cup ToSender)]
    /\ root \in Seq(Element)
    /\ arrived \in [Sides -> SUBSET (ToReceiver \cup ToSender)]
    /\ stato \in [Channels -> {0, 1}]
    /\ cambio \in [Channels -> Timeval]
    /\ attivo \subseteq Channels
    /\ fase \in {"select", "release", "burst", "receive"}
    /\ rdset \subseteq Sockets
    /\ canale \in 0 .. NumChannels
    /\ lag \in 0 .. MaxLag
    /\ sveglia \in Timeval

Held(queue) == {queue[k] : k \in DOMAIN queue}

(* What is on its way to the proxy on one side: in the buffers of the sockets
   on the other side, in the list, or sent on. *)
OnItsWay(side) ==
    (UNION {Held(buffer[<<Opposite(side), ch>>]) : ch \in Channels})
        \cup {e.pkt : e \in {f \in Held(root) : f.side = side}}
        \cup arrived[side]

Net == INSTANCE DelayNet
       WITH netR <- OnItsWay("latoreceiver"),
            netS <- OnItsWay("latosender"),
            burst <- {ch \in Channels : stato[ch] = 0}

(* The Ritardatore is the network that the proxies are verified on.  What its
   loop does, and the passing of time, is a step of DelayNet or cannot be seen
   there: datagrams are dropped only where DelayNet drops them, and none is
   added but a note for one that is dropped in a burst, to whoever sent it.
   Packets and acks are added by the proxies alone. *)
ImplementsDelayNet ==
    /\ Net!DelayNetInit
    /\ [][/\ Loop \/ Tick => Net!DelayNetNext \/ UNCHANGED Net!netVars
          /\ Proxy("latosender") => Net!PSenderUse
          /\ Proxy("latoreceiver") => Net!PReceiverUse]_ritVars

(* minore misplaces an element only across a boundary of seconds: while all
   the timeouts of the list are in one second, the current or the next, it is
   in order. *)
SortedWithinASecond ==
    (\E sec \in {0, 1} : \A k \in DOMAIN root : root[k].timeout.sec = sec)
        => \A j, k \in DOMAIN root :
              j < k => MinoreOUguale(root[j].timeout, root[k].timeout)

(* The timeout of select keeps the loop going when nothing arrives: the list
   empties, though it is not in order, once the proxies stop sending. *)
ListDrains ==
    (<>[](\A s \in Sockets : s[2] \in attivo => buffer[s] = << >>))
        => []<>(root = << >>)

(* A burst ends, and so does the time between two bursts, also while nothing
   arrives. *)
BurstsEnd ==
    \A ch \in Channels :
        /\ []<>(stato[ch] = 1 \/ ch \notin attivo)
        /\ "loss" \in Faults => []<>(stato[ch] = 0 \/ ch \notin attivo)

-----------------------------------------------------------------------------
(* The inductive invariant behind RitTypeOK, ImplementsDelayNet and
   SortedWithinASecond. *)

(* A socket only gets what the proxy on its side sends to its channel. *)
InvBuffers ==
    \A ch \in Channels :
        /\ Held(buffer[<<"latosender", ch>>])
              \subseteq {m \in ToReceiver : m.type = "B" /\ m.ch = ch}
        /\ Held(buffer[<<"latoreceiver", ch>>])
              \subseteq {m \in ToSender : m.type = "B" /\ m.ch = ch}

(* main reads only sockets that have something to read. *)
InvReported == \A s \in rdset : buffer[s] # << >>

(* Bursts, and errors of the sockets, are faults. *)
InvFaults ==
    "loss" \in Faults
        \/ (attivo = Channels /\ \A ch \in Channels : stato[ch] = 1)

InvTimeouts == \A k \in DOMAIN root : Normal(root[k].timeout)

(* Between an element and an earlier one that has overtaken it there is, or
   it is itself, an element of another second than the overtaker's. *)
InvOrder ==
    \A j, k \in DOMAIN root :
        /\ j < k /\ root[j].timeout.sec >= 0
        /\ ~MinoreOUguale(root[j].timeout, root[k].timeout)
        => \E i \in j + 1 .. k : root[i].timeout.sec # root[j].timeout.sec

RitInv ==
    RitTypeOK /\ InvBuffers /\ InvReported /\ InvFaults /\ InvTimeouts /\ InvOrder

-----------------------------------------------------------------------------
(* What a comment says, and the code does not do. *)

(* A datagram is held for 140 ms at the most (Ritardatore.c:409, 447): it is
   not still in the list when it is overdue by more than 140 ms less the
   shortest delay. *)
HeldAsCommented ==
    \A k \in DOMAIN root : \E d \in Delays :
        now - Total(root[k].timeout) + d <= CommentedMax
=============================================================================
