# GProxy in TLA+

GProxy carries one TCP stream over UDP. A *source* connects to `psender`, which cuts the
stream into numbered packets; a network emulator, the *Ritardatore*, delays, reorders and
drops them; `preceiver` puts them back in order, writes them to the *sink* over TCP and
acknowledges them. This directory holds TLA+ models of the three programs and of the linked
lists that the proxies are built on, TLC runs, and proofs that TLAPS checks.

    source --TCP--> psender <==UDP==> Ritardatore <==UDP==> preceiver --TCP--> sink
                                     (3 pairs of ports)

## Inventory

| component | state | operations | correct when |
|---|---|---|---|
| `psender` (`psender.c`, `psenderUtils.c`) | list `toSend`, `currentId`, `channel`, `endingRead`, `finalize`, the fd_set | send the whole list on every pass; select (10 s); read chunks until the list is full; read acks and ICMP notes; terminate | a chunk stays listed until the sink has it; an ordinary exit means the sink has all of the stream |
| `preceiver` (`preceiver.c`, `preceiverUtils.c`) | sorted lists `toSend` and `toAck`, `lastSentId`, `channel`, `finalize` | test for termination; write packets that are in turn; acknowledge; select (5 s); read packets and notes | the sink's stream is a prefix of the source's; nothing is acknowledged before it is written; it ends the sink's stream when it is complete |
| packet list (`listUtils.c`) | circular doubly linked lists, each with a length in its head | append, insert by id, remove, search, `forEach` with a limit and a callback that changes the list | sorted, an id once, length right; links undo each other; a walk skips no node |
| Ritardatore (`Ritardatore.c`) | three pairs of ports, each open or closed, sending or in a burst until some instant; list of delayed datagrams that should be ordered by release time | select with a timeout; release what is due; change a channel's state; receive: drop silently, drop and queue an ICMP note, queue, or close the pair on an error | forwards nothing it did not get, and to the right side; releases what is due, also behind datagrams of a closed pair; bursts begin and end |
| timeval helpers (`Util.c`) | none | `normalizza`, `somma`, `differenza`, `minore`, `minoreouguale` | ordinary arithmetic and order of times |
| socket helpers (`globalUtils.c`, the rest of `Util.c`) | none | wrappers of system calls, most of those in `Util.c` unused | - |
| source, sink (`pybin/*.py`) | a TCP connection each | write, close; read to the end | - |

The processes share nothing: they interact by datagrams and by TCP. Each program is a single
thread with one loop around `select`, so what is hard is not shared memory but the order in
which three programs take steps: datagrams lost, late, out of order and several times;
timeouts that race with them; two lists with limits; the end of the stream, which must be
agreed on over a network that loses packets; a `recv` that blocks inside the loop. The full
list, with lines, is under "hazards" in `PROJECT.json`.

## Modules

| module | models |
|---|---|
| `Packets` | constants, nodes and datagrams that the other modules share |
| `DelayNet` | the network as the proxies see it: `netR` (on the way to preceiver), `netS` (to psender), `burst`; the steps of the network (`DelayNetNext`) and what each proxy may do to it (`PSenderUse`, `PReceiverUse`) |
| `PSender` | the source's connection and psender, extends `DelayNet` |
| `PReceiver` | preceiver and the sink's connection, extends `DelayNet` |
| `GProxy` | the composition, when timeouts may fire, fairness, and the properties of the transfer |
| `StreamSpec` | the abstract specification: a stream that accepts, delivers in order and ends confirmed or aborted |
| `PacketList` | listUtils.c: heaps with `next`, `prev`, `head` and `length`, and its functions on them |
| `GProxyLists` | `GProxy` with the linked lists kept beside the sets |
| `TimeArith` | the `timeval` helpers of Util.c |
| `Ritardatore` | the emulator: sockets, clock, delay list, bursts, main's loop |
| `MCGProxy`, `MCGProxyLists`, `MCRitardatore` | the root modules of the runs; the cfg files give the constants |
| `GProxy_proofs`, `Lossless_proofs` | theorems about `GProxy`: under every fault, and without loss |
| `PacketList_proofs`, `PacketWalk_proofs`, `GProxyLists_proofs` | theorems about the linked lists: one call, a walk, and every run of the proxies |
| `TimeArith_proofs`, `Ritardatore_proofs` | theorems about the helpers and the emulator |

How they fit together: `GProxy` is verified on the abstract network of `DelayNet`, whose steps
are `DelayNetNext`; its psender touches the network only by `PSenderUse` and its preceiver only
by `PReceiverUse` (theorem `ProxiesKeepToNetwork`). In `Ritardatore` the same interface is met
from the other side (`ImplementsDelayNet`, theorem `RitardatoreImplementsDelayNet`): every step
of the emulator's loop and of its clock is a step of `DelayNetNext` or leaves the network as it
is, and its proxies, who may send any body packet or ack at any time and take what has arrived,
do `PSenderUse` and `PReceiverUse`. Who may add what is part of this: packets and acks only the
proxies, each towards the other, and notes only the emulator, for a datagram that it drops in a
burst. So the three programs are checked in two halves against one interface, without the
product of their states.

### State and actions against the code

*psender.* `sPc` is the place in `main`'s loop: `send` (the `forEach` at psender.c:49),
`select`, `read` (68-71), `check` (77-80), `exited`. One `recv` is one step, so datagrams
come and go between two of them. `SendPackets` is one step: it only adds to the network, so
doing it packet by packet would reach no other state of the proxies. `SSelect(r)` is a select
that returns with the Ritardatore's socket ready or not; `ReadChunk`/`ReadEnd` are
`receiveFromSender`; `LeaveRead` and `LeaveCheck` include the termination test at the end of
the pass (`EndOfPass`); `RecvAck`/`SRecvIcmp` are `checkRitardatore`. psender blocked in
`recv` is the state `sPc = "read"` with room in the list and nothing to read: no step of
psender is enabled there. `toSend` is a set; `Position` gives back its order, which matters
only to `removeNodeById`. Of the source's connection, `written` counts the chunks that the source
wrote and `readable` those that `recv` has returned or still can. A reset lowers `readable`, by
any number of unread chunks, and never `written`; psender then reads on to the end of what is
left, because its retry swallows the error (psenderUtils.c:165).

*preceiver.* `rPc` is `loop` (the test at preceiver.c:52), `deliver`, `ack`, `select`,
`recv`, `exited`. Writing to the sink is one step per packet, because the connection may fail
between two. The lists are sorted by id and hold an id once, so a set and the order of ids is
the whole list; `FirstNodes` is what a `forEach` with a limit visits. `delivered` is a history
of the chunks written.

*The linked lists.* That a set stands for a list is not taken for granted. In `GProxyLists`
every step that touches a list also runs the function of listUtils.c that the code calls, on a
heap of nodes (`sHeap`, `rHeap`), and decides by the pointers alone which node to take and
where to put one; `ListsAgree` compares the result with the sets. `visiting` is the saved
`next` of the `forEach` over `toSend`, whose callback moves the current node to `toAck`. The
two walks that are one step (`AckPackets`, and `SendPackets`, which changes no list) are run
as `ForEach` (`ForEachAck`, `ForEachEnd`). `malloc` returns the lowest free node, so that a freed one comes back at once; a
node that is not inserted since its id is present is never freed by the code, and nothing
points to it: it counts as free, since only its memory is lost.

*Data.* A chunk is its number in the stream and body 0 is `endingBody`. What an ack's body
goes through (`htonl`, `%d`, `atoi`, `ntohl`: preceiverUtils.c:145, psenderUtils.c:211) gives
back the id for every 32-bit id, also those whose `%d` is negative, and so the model carries
the id. Ids are taken modulo `IdMod`, for `unsigned int`.

*Network.* A datagram is in `netR` or `netS` while it is in the Ritardatore's list, on the
wire or in a socket buffer; a receive takes any of them, which is delay and reordering. Once
`select` has reported a datagram the network no longer drops it (`KeepsReported`). Several
identical datagrams are one element of the set; with `"dup"` a receive may leave the element
there, for any number of copies. This also stands for several ICMP notes of one channel.
`ChangeBurst`, `DropSilently` and `DropWithIcmp` are the Ritardatore's, as seen from outside:
at any moment.

*Ritardatore.* `fase` is the place in main's loop: `select`, `release` (the `while` over
`root`, one element a step), `burst` (one channel a step, `canale`), `receive` (one socket a
step: `rdset` are those that select reported and main has not read yet; they are read in the
code's order). `sveglia` is when the select times out, computed by `differenza` from the
first element or from the idle timeout, as at Ritardatore.c:676-690. `Release` tests the due
time and then `check_port`; `ScartaSenzaIcmp`, `ScartaConIcmp` and `Inoltra` are results 1, 2
and 3 of `ricevo_inserisco`, and its error path is `NonChiudo` for
`ECONNRESET`, where nothing is read and the pair stays open, and `ChiudiCoppia` otherwise, which
closes both sockets of the pair (`close_coppia`). Draws of `random()` are choices from `Delays`, `Bursts` and `Sendings`. In
`AggiungiInOrdine` the list is walked with `Minore` as it is in the code, not with an order.

*Time* is a clock that ticks inside a second: `now` counts units, and when the second is over
every kept instant loses one from its seconds, down to -1. Seconds thus stay small without a
bound on time, and the boundary of a second, where `minore` goes wrong, is met again and
again. It is faithful because instants are only compared with each other in the list, where
a due element that is a second or more late is due in any case, and with the present.
`Tick` lets time pass in `select`, and by up to `MaxLag` units in what follows it, so that the
process may be late for its own timeouts.

### Constants

`NumChunks`, `IdMod`, `SMax` and `RMax` (`maxPackets` of each proxy), `NumChannels` (3 in the
code), `Faults` (which of loss, copies, an idle source, a reset, a failing sink can happen)
and `Punctual`; for the heaps `NumNodes`; for the Ritardatore the units in a second
`SecInMcsec`, the durations (`Delays`, `Idle`, `Bursts`, `Sendings`, `FirstSecs`, `StepSecs`),
and the bounds of its runs: `SentIds` (ids the proxies may use), `MaxLoad` (datagrams in
buffers, list and on the way together) and `MaxLag`. `ConstantsAssumption` says what they may be; a `maxPackets` of zero or less
(`atoi` of a bad argument) is outside it. `NoIdWrap == NumChunks < IdMod - 1` is not an
assumption but the hypothesis of the theorems: fewer chunks than ids.

`Punctual` orders the timeouts as the code's numbers do. A datagram that is not dropped
leaves the Ritardatore after at most 120 ms (Ritardatore.c:410-412, 448-450), or, when later
ones overtake it in the list, at the latest when they stop coming (`ListDrains`), while the selects wait 10 s (psenderUtils.c:43) and 5 s
(preceiverUtils.c:45), and a pass of a loop takes far less. So with `Punctual` a select times
out only when nothing is on its way to it and the other process is waiting too, and
preceiver's fires before psender's (`ticked`). Without it they fire at any moment, which is
what the safety properties and the proofs are checked against.

## Runs

| run | bounds | shows |
|---|---|---|
| `core_faults` | 2 chunks, psender's list 2, preceiver's 1, 1 channel, every fault, timeouts at any moment; 1.4 million states | `TypeOK`, `Integrity`, `NothingForgotten`, `AckedIsDelivered`, `ConfirmedExit`, `ToAckBound`, `IInv`; refinement of `StreamSpec` |
| `core_live` | 2 chunks, lists of 2, no loss, punctual, fair | `TransferCompletes` |
| `lossless` | 3 chunks, lists of 2, 5 nodes, no loss, no copies in flight together, punctual; 424 thousand states | `WindowBound`, `CompleteExit`, `NoGiveUp`, `ExitsAgree`, `LosslessInv`; of the linked lists `ListsAgree`, `HeapsSound`, `ForEachOnTrack`, `ListsInv` |
| `ritardatore` | 1 pair, seconds of 3 units, delays of 1 or 2, bursts and pauses of 2, loss and closing pairs, 3 datagrams at a time, a pass may take 1 unit; 264 thousand states | `RitTypeOK`, `RitInv`, `SortedWithinASecond`; `ImplementsDelayNet`, the network the proxies are verified on; under fairness `ListDrains` and `BurstsEnd` |

Two chunks and the ending packet with a window of two are enough for a packet to overtake
another, for the window to fill, for old copies of a packet to arrive after it was delivered,
and for the ending packet to wait for room. preceiver's limit
is below psender's, so that acknowledgements are left over for another pass (`ToAckBound`). `lossless` adds a stream longer than the window, an insertion
between two nodes, and a limit of two for a walk that moves one node and goes on; it runs the
proxies and the linked lists together, so one run answers for both. It counts copies in flight
together as one, because what psender sends again already brings old copies of every kind to
preceiver; the theorems about the same properties leave copies open. `core_live` lets preceiver
handle two packets in a pass. Five nodes are the fewest that `EnoughNodes` allows with these
limits. In
`ritardatore` the seconds are as short as they can be with two different delays and both
delays reaching over a boundary, and three datagrams are enough for one to be overtaken
and for another to be behind it; one pair suffices since pairs share only the list and the
proofs hold for any number.
One channel is enough for the safety properties, which do not depend on the channel: a note
then moves it from 0 to 0, and `TypeOK` still tells when the modulo is missing. `burst` uses
three. Every passing property has a mutant in its module (`X_what` next to `X`) that TLC finds
to break it.

Runs that are expected to fail, each a disagreement between the code and what the repository
says of it:

| run | property | what TLC finds |
|---|---|---|
| `premature_end` | `CompleteExit` | Two losses: the last chunk is dropped; the ending packet arrives, is acknowledged at once (id 0 is below `lastSentId`), and this ack is dropped too. Nothing wakes psender to send the chunk again, preceiver's select times out first, and it exits with "Transfer complete!" (preceiverUtils.c:129). Had the ack come, psender would have sent the chunk again within preceiver's 5 seconds. |
| `truncated` | `ConfirmedIsWhole` | The source's connection is reset, the error is swallowed (psenderUtils.c:165) against the comment at 162 and the `printError` at 177-181, and psender exits ordinarily with a chunk missing. |
| `gives_up` | `NoGiveUp` | One loss: nothing wakes psender's select, and the timeout terminates it where progettazione.txt:33-34 says the packet is sent again. |
| `chat` | `ChatIsDelivered` | psender reads a chunk and then blocks in `recv` (psender.c:70) before sending it; README.md:4 names chat as a use. |
| `orphan` | `ReceiverFollows` | psender is gone and preceiver times out for ever; the comment at preceiver.c:94-95 says it terminates. |
| `id_wrap` | `EndingNeverSent` | After 2^32 - 1 packets the counters reach the reserved 0 and `endingBody` is written to the sink (preceiverUtils.c:178). `IdMod = 2` stands for the width; it takes a very long stream. |
| `burst` | `LeavesBurst` | Several notes of one burst move the channel several times, back into the burst. |
| `delay` | `HeldAsCommented` | A datagram that is due late in a second is overtaken by those that are due early in the next, and leaves after them: held for more than the 140 ms of Ritardatore.c:409 and 447. Units of 50 ms: a delay of one or two, 140 ms rounded up to three. |

`CompleteExit` and `NoGiveUp` are thus true without loss (`lossless`) and false with it.
The safety promises that remain true under every fault are those of `StreamSpec`: nothing
wrong is ever written to the sink, and psender's ordinary exit tells that the sink has all that
psender has read (`ConfirmedExit`). That this is all the source wrote is true unless the source's
connection was reset: `ConfirmedIsWhole` is proved for a source that is not reset and refuted by
`truncated` for one that is.

One disagreement needs no failing run, since a property that holds is the disagreement. The
comment at preceiverUtils.c:171 says "In any case ack the packet (we don't need the psender to
send it again)", and progettazione.txt:38-39 that preceiver sends an ack when it receives a
packet. The code keeps an early packet unacknowledged until the sink has it, and psender sends it
again on every pass: that is `AckedIsDelivered`, checked by `core_faults` and proved. Its mutant
`RecvBody_ackAtOnce` is the code as the comments have it. The code's way is the safe one: with an
ack at receipt psender could forget a chunk that the sink never gets.

The error of `minore` (Util.c:857) is bounded in one way and not in another. The list is in
order whenever its timeouts fall in one second (`SortedWithinASecond`, proved), and it empties
once the proxies are silent (`ListDrains`). But the release loop looks only at the first
element, so a datagram due in the last moments of a second can be kept behind newcomers for
as long as they come.

### Fairness

Weak fairness on the steps of each process and on its timeout: the operating system schedules
both, and a select that can time out does. Strong fairness on psender's select seeing a
datagram, and on the receipt of each packet and each ack: the Ritardatore delays a datagram for a
bounded time, and one that its list keeps behind newcomers is among copies that psender or
preceiver sends again and that are due at other moments, so a packet that is not dropped does
not stay on its way while its receiver keeps receiving others. Nothing is assumed of the source, which may never write or close, or
of the network's drops. Like `lossless`, `core_live` counts copies in flight together as one: with unboundedly
many copies of an old packet preceiver could acknowledge for ever, and the code does not make
unboundedly many, because psender stops.

`RitFairSpec` has weak fairness of the Ritardatore's loop and of the clock: the process is
scheduled, and time passes. Nothing is assumed of the proxies, who may send nothing at all;
this is what `ListDrains` and `BurstsEnd` are about, where only the timeout of `select` keeps
the loop going. `ListDrains` holds when the open buffers stay empty from some time on; while
new datagrams come the list need never be empty.

## Proofs

`GProxy_proofs` proves, for every value of the constants (`ConstantsAssumption`):

- `TypeCorrect`: `Spec => []TypeOK`, with no hypothesis on the ids.
- `Invariant`: `NoIdWrap => (Spec => []IInv)`.
- from it `IntegrityHolds`, `NothingForgottenHolds`, `AckedIsDeliveredHolds`,
  `WindowBoundHolds` and `ConfirmedExitHolds`.
- `ConfirmedIsWholeHolds`: `Spec => []ConfirmedIsWhole`, when `"reset"` is not among the faults: an
  ordinary exit of psender tells that the sink has all that the source wrote.
- `StreamRefinement`: `NoIdWrap => (Spec => ReliableStream)`, the refinement of `StreamSpec`
  with `accepted <- nread`, `output <- delivered` and psender's exit as the verdict.

None of the properties is inductive. Why is a chunk that psender removes already delivered?
Because the ack that removes it names it (`AckedIsDelivered`); why does the ack say the truth?
Because preceiver acknowledges what is in `toAck`, which holds only ids below `lastSentId`
(`InvReceiverLists`), and `lastSentId` counts what was written (`InvIds`). Why is the packet
that is in turn the next chunk? Because ids and chunks agree in psender's list
(`InvSenderList`), on the wire, old copies included (`InvNetR`), and in preceiver's list. And
the exit is right because the ending packet is listed only when all that can be read is read
(`InvEnd`), which is less than what was written only after a reset. `IInv`
is the conjunction, and each action is shown to keep each part. `NoIdWrap` is needed: `id_wrap`
shows what happens without it. `WindowBound` then follows by counting: the undelivered chunks
are all in psender's list, and preceiver's list holds only undelivered chunks.

- `ToAckBounded`: `Spec => []ToAckBound`, for any ids: twice `maxPackets` at most, and within
  `maxPackets` outside the two `forEach`. `ToAckBound` alone is not inductive: what
  a pass adds depends on how many nodes its `forEach` has visited and on what was left by the
  pass before. `InvAcks` says for each place of the loop what `toAck` may hold, and the lemmas
  `FirstNodesRest` and `InsertGrows` say what the two list operations do to its size.
- `ProxiesKeepToNetwork`: a step of psender is a `PSenderUse` or leaves the network alone, one of
  preceiver likewise a `PReceiverUse`, the network's own steps are `DelayNetNext`, and the source and
  the timeouts leave it alone.

`Lossless_proofs` proves what `premature_end` and `gives_up` refute for a network that loses
packets. Its hypotheses are `NoIdWrap` and `Lossless`: `Punctual`, no loss and no failing sink;
copies, reordering, an idle or reset source and every limit are left open; `ExitsAgreeHolds`, which
speaks of what the source wrote, also needs that it is not reset.

- `LosslessInvariant`: `Spec => []LosslessInv`.
- from it `CompleteExitHolds` (preceiver exits only when psender has read to the end and the sink has all of it),
  `NoGiveUpHolds` (psender's timeout finds nothing unacknowledged) and `ExitsAgreeHolds` (two
  programs that have exited agree that the transfer is complete).

preceiver exits when its lists are empty and the ending packet has been acknowledged; nothing
in its state says that the chunks have come. It is right because the ending packet is sent with
or after every chunk, so what the sink has not got is in preceiver's list or on its way
(`InvLast`), and because a pass that has received something leaves a list non-empty
(`InvReceiverEnd`), so that the test at the top of the loop succeeds only after a timeout, when
nothing is on its way (`InvWire`). psender's timeout in turn needs that each packet it keeps is
on its way, at preceiver or about to be acknowledged (`InvUnderWay`); that preceiver's passes
send an ack unless there is none to send and the packet in turn is missing (`InvPass`); and
then it is that packet's absence which cannot be: psender has it, it is not on its way, and so
it is at preceiver.

`PacketList_proofs` proves, for heaps and lists of any size, what one call does: `RemoveNode`
and `LinkBefore` (the links of both insertions) keep the circles closed, with `prev` and `next`
undoing each other, and the lengths right; and `Sound`, which adds the order and that every
node in use is on a list, is kept, with the contents changed as they should be
(`EmptyHeapSound`, `AppendSound`). `PacketWalk_proofs` goes on to what walks meet:
`ForwardFacts` and `BackwardFacts` (each node of the list once, in order, and then the head),
and from them the search of `DiscardSound` and `InsertSound`, the move of `MoveSound`, and the
two `forEach` (`ForEachAcks`, `ForEachReachesEnd`).

A walk is a recursive function, and the induction theorems of the library cannot be used since
they take an operator. Lemma `Induction` states induction for a set of naturals instead, which
the provers can instantiate with a set of the form `{n \in Nat : ...}`; `WalkExists`,
`AckScanExists` and `PassScanExists` show with it that the functions exist, and `ChainFacts`
that a walk makes as many steps as there are nodes. Order is what makes this work: `Ordered`
says of `next` that it goes to the node of the next greater rank, so a walk grows in rank and
cannot miss a node or meet one twice.

`GProxyLists_proofs` puts them together. `ListsNext` runs the lists beside the steps of `GProxy`, so
that `ListsSpec => Spec` holds by construction (lemma `ListsRefine`) and the invariants of `GProxy`
may be used; what is to be shown is that the lists then are what the sets say. With `NoIdWrap` and `EnoughNodes` (`malloc` has a node
to give out while each list is within its bounds; the code does not survive a `malloc` that
fails):

- `ListsInvariant`: `ListsSpec => []ListsInv`.
- from it `ListsAgreeHolds`, `HeapsSoundHolds` and `ForEachOnTrackHolds`.

`ListsAgree` compares walks and says nothing of the links, so it is not inductive; `ListsInv` says
`Sound` of both heaps, that their contents are the sets of the proxies, and where the `forEach`
over `toSend` has got to (`InvVisiting`). It needs `IInv`: psender's appended packet comes last
because chunks are numbered as they are read; `sendToReceiver` moves a packet whose id is not in
`toAck` because those ids are below `lastSentId`; and the node whose turn comes next is the one
that `next` led to before the callback because the ids of a sorted list that are one apart are
neighbours. `InvAcks` and `WindowBound` give the room for an allocation.

`TimeArith_proofs` proves what the helpers compute for every `timeval` and length of a second:
`normalizza`, `somma`, `differenza` and `minoreouguale` are the arithmetic and order of instants;
`minore` is, except when its first argument has more seconds (`MinoreCorrectWithinASecond`).
The C types' widths are not in it: `tv_sec` is far from its limits, and microseconds are
below two seconds wherever these functions are called.

`Ritardatore_proofs` proves, for every value of `RitardatoreAssumption`, with no bound on time:

- `RitInvariant` and `RitTypeCorrect`: `RitSpec => []RitInv` and `[]RitTypeOK`.
- `ListSortedWithinASecond`: `RitSpec => []SortedWithinASecond`.
- `RitardatoreImplementsDelayNet`: if `"dup"` is among the faults, `RitSpec => ImplementsDelayNet`,
  with `netR` and `netS` for what is in buffers, list and on the way: the loop and the clock take
  only steps of `DelayNetNext` or stutter, and only the proxies add packets and acks.

`SortedWithinASecond` is not inductive, since a list that is out of order across a boundary can
come to be in one second. `InvOrder` is the reason that this goes well: between an element and
an earlier one that it has overtaken there is one of another second than the overtaker's (or
it is that one itself), and an element inserted later keeps this up, because `minore` stops
only before a greater one of its own second or at an element of another. The refinement needs
`InvBuffers` (a socket holds only what the proxy on its side sends to its channel: a note's
side and channel are right), `InvReported` (main reads only sockets with something in them),
and `InvFaults` (drops and closed pairs happen only with loss). `"dup"` is needed because
`netR` and `netS` are sets: two copies of a datagram in different places are one element, and
when one of them is dropped or received the element stays. A step of the loop that forwards
a datagram is a stutter of the abstract network, since it stays on its way; so what the theorem
says is that none is invented, altered, or sent to the wrong side or on another channel, that
one disappears only where `DelayNet` drops it, and that a note is added only in a burst, towards
whoever sent the datagram it is about.

Every safety property of the passing runs is thus proved. Only model-checked: liveness
(`TransferCompletes`, `ListDrains`, `BurstsEnd`), which is out of the provers' reach, and the
absence of deadlocks, which is about `ENABLED`.

## Not modelled

- How much memory is lost when `insertNodeById` finds its id present and nobody frees the node
  (listUtils.c:131, preceiverUtils.c:239): the lists are shown not to be disturbed by it, the
  loss itself is not counted. Failing `malloc`.
- `allocNode` copies `size` bytes into the body (listUtils.c:43), and its callers count the header
  in `size` (psenderUtils.c:171 and 186): it copies that many bytes more than `recv` returned, and
  past the end of both buffers for a full chunk. The models copy the chunk alone.
- A sink that makes `send()` block (preceiverUtils.c:180): preceiver then does not come to its
  select, and psender's may time out first. `Punctual` excludes it; without `Punctual` a
  timeout at any moment includes it.
- An error of `recvfrom` on a socket without a datagram: it is met on one that also has a
  datagram, which then is read by a later pass or, in a closed pair, never.
- In the Ritardatore: datagrams that are too small or not of type `B`, which the proxies do not
  send; the counters it prints; a failing `sendto` (the element is freed just the same); a full
  socket buffer, which drops like a silent loss; signals. `CMD_ADDPORT` elements, which would
  stop the release loop for ever at Ritardatore.c:706, are made only by
  `schedula_creazione_nuova_porta`, which nothing calls.
- The real durations and odds: any choice from the sets of the constants stands for them.
- Connection set-up (`init`, `creazione_nuova_coppia_porte`'s sockets), failing system calls
  other than those named in the models, printing, the log and the timing report.
- The rest of `Util.c` and `Util.h`: wrappers of TCP, UDP and thread calls, most of them unused,
  without state of their own. The socket helpers of `globalUtils.c`.
- A bound on the wall-clock time of a transfer: in `GProxy` time appears only as the order of
  timeouts.

## Plan

1. Done: `DelayNet`, `PSender`, `PReceiver`, `StreamSpec`, `GProxy`, their runs, the invariant
   and the refinement.
2. Done: `PacketList` and `GProxyLists`, `TimeArith`, `Ritardatore` and its refinement of
   `DelayNet`, with their runs and proofs; `ToAckBounded`.
3. Done: the proofs about closed pairs, about a transfer without loss and about the linked
   lists, from single calls to every run of the proxies.
4. Done: what a reset loses told apart from what was written, the interface between the proxies
   and the Ritardatore stated for each party, and two more disagreements with the comments
   (`truncated` and the acknowledgement of early packets).
5. Nothing larger is open: what remains outside the models is listed above.
