# Magnum-TCP in TLA+

A verification development for `magnum-tcp`, a user-space TCP stack in Rust
that speaks to a TUN/TAP device. It models the protocol core and the tasks and
channels around it, checks small instances with TLC and proves the safety of
the connection, of both buffers, of the retransmit queue, of the event loop, of
the channels between the tasks and of the wire formats with TLAPS for every
instance. Paths below are relative to `src/magnum-tcp/src/` unless they say otherwise.

## 1. Inventory

| Part | State | Operations | Interacts with |
|---|---|---|---|
| Sequence arithmetic, `tcp/tcb.rs` | none | `seq_lt`, `seq_le`, `ack_acceptable` | used by everything |
| TCB, `tcp/tcb.rs` | state, SND, RCV, `cwnd`, `ssthresh`, `dup_ack_count` | constructors, ISN | owned by a connection |
| Send buffer, `tcp/send_buffer.rs` | 64 KB ring, `head`, `len`, its own `una` and `nxt` | `write`, `next_segment`, `advance_nxt`, `acknowledge` | owned by a connection |
| Receive buffer, `tcp/recv_buffer.rs` | 64 KB ring, `nxt`, staging `BTreeMap` | `insert`, `commit`, `drain_ooo`, `read`, `window` | owned by a connection |
| Retransmit queue, `tcp/retransmit.rs` | up to 128 segments, RTO, SRTT | `push`, `acknowledge_and_sample_rtt`, `expired_segments`, `first_unacked` | owned by a connection |
| State machine, `tcp/connection.rs` | all of the above | a handler per state, `connect`, `initiate_close`, `write_data`, `next_segment_to_send`, `take_retransmits`, `zero_window_probe`, `tick_time_wait` | called by its task |
| Task, `tcp/task.rs` | one connection, `close_initiated` | a biased `select!` over inbox, two ticks, application data and close | awaits the outbound channel and the application |
| Dispatch, `tcp/mod.rs` | map from four-tuple to inbox | `dispatch`: spawn, `try_send`, evict | called by the event loop, spawns tasks |
| Event loop and application, `main.rs` | request buffer, `responded` | read a frame and dispatch it, drain the outbound channel; `handle_connection` | device, tasks |
| Chaos, `chaos.rs` | queue of delayed packets, PRNG | `intercept`, `flush_ready` | event loop |
| Codecs, `tcp/header.rs`, `ipv4.rs`, `ethernet.rs`, `arp.rs` | none | parse, build, checksum | event loop, connection |
| Device, capture, errors, `tun.rs`, `pcap.rs`, `error.rs` | file descriptors | system calls | event loop |
| `Stack`, `Listener` | connections | `process` | nothing: superseded by `AsyncDispatch` |

What is hard here: SND.UNA and SND.NXT are stored twice and drift apart when
the connection closes; sequence numbers and a ring index wrap independently;
out-of-order segments are keyed by raw `u32`; the retransmit queue, the
congestion window and the buffer are updated by different subsets of the
handlers; tasks, applications and the event loop wait on one another through
bounded channels; a connection's map entry can outlive it or be taken away
while it runs. `PROJECT.json` lists these hazards at their lines.

What makes each part correct:

* arithmetic: the comparisons mean what RFC 793 says around every wrap;
* send buffer: a FIFO whose bytes keep their sequence numbers;
* receive buffer: the application reads the peer's stream, in order, once;
* retransmit queue: a timeout within its limits, Karn's rule, backoff, and
  retransmission until the acknowledgement;
* state machine: acknowledgements are of things sent and unacknowledged, both
  copies of the counters agree while data flows, only what is in flight is
  retransmitted until TIME_WAIT, no acknowledgement makes the queue forget a byte
  in flight, the window never idles, handshakes start clean;
* session: a client gets the whole answer in spite of losses, and is never
  reset;
* tasks and dispatch: nobody waits for ever, evicted tasks end, clients that
  retry are served;
* codecs: parsers accept exactly what builders and sound foreign stacks make,
  and never index out of range, whatever arrives; answers go back where the
  question came from;
* event loop and chaos: packets are lost, delayed and reordered as configured
  and never duplicated, released early or held for ever.

## 2. Modules

| Module | Models | Notes |
|---|---|---|
| `SeqArith` | `tcb.rs` arithmetic | `Half` is 2^31, so the width is a parameter |
| `Selection` | `Vec::retain` | the elements of a sequence in a set |
| `Induction` | | induction, recursion and `Select`, for the proofs |
| `SendBuffer` | counters of the send buffer | used by the next two |
| `SendRing` | the ring with its contents | implements `ByteFifo` |
| `ByteFifo` | abstract specification of a send buffer | |
| `RecvBuffer` | the receive buffer | staging map as a function |
| `Reassembly` | receive buffer, peer, reordering network | |
| `BufferProofs` | | distances and positions, what the operations of the buffers do, theorem `AckAcceptable` |
| `RetransmitQueue` | the retransmit queue with its clock | |
| `RetransmitProofs` | | Karn's rule, backoff |
| `Connection` | state machine and task | composes `SendBuffer`, `RecvBuffer` |
| `MCConnection` | sets of arriving segments for TLC | |
| `ConnectionProofs` | | the inductive invariants of both halves and their consequences |
| `Session`, `MCSession` | connection, application, client, network | composes `Connection` with both ends |
| `SessionProofs` | | what client and server believe of each other |
| `Dispatch` | event loop, dispatch, tasks, applications, channels | |
| `StreamProofs` | | the streams and the channels they run through: `SendRing` implements `ByteFifo`, delivery in order, the channels of `Dispatch` |
| `Codec` | checksums, TCP, IPv4, Ethernet and ARP formats | operators on bytes |
| `Wire`, `MCWire` | two hosts and the frames between them, Linux and macOS | uses `Codec` |
| `WireProofs` | | what the parsers accept, and that frames arrive or are rejected |
| `EventLoop` | event loop, capture, chaos middleware | implements `LossyLink` |
| `LossyLink` | abstract specification of a link | |
| `EventLoopProofs` | | `EventLoop` implements `LossyLink` |

Definitions whose name starts with `Bug_` are plausible mistakes in the
definition that follows them. No specification uses them; they show that each
property notices such a mistake.

### Connection

`state`, `snd`, `rcv`, `cc` (congestion control), `sb`, `rb` and `rq` are the
fields of `Connection` and its TCB. `pc` is the task's place in its loop:
`select`, `flush` (inside `flush_send_buf`, one segment per step because each
is awaited), `loop_end` (`tick_time_wait` and the check for CLOSED), `exit`;
`new` is a client connection before `connect`. Each handler of
`process_segment` is an operator of the same name; `Inbound` is the handler
followed by `forward_received_data`. `out` is what the last step sent.

Data is abstracted to lengths and, in the receive buffer, to bytes equal to
their own sequence number. Times are not modelled: a retransmit tick may find
any set of entries expired, TIME_WAIT may end at any iteration. Both are more
behaviours than the code has. `AppWrite` is enabled when `handle_connection`
can write (it has received data and has not closed); `Close` is the task's
`close_rx` arm for any application.

### Dispatch

The connection inside a task is reduced to a phase: which kinds of segment make
it answer, deliver data or end. Whether a segment's numbers are acceptable is
left open, so each kind may have several outcomes. `todo` is the list of sends
the task still has to await in this iteration. A slot is used again when its
task, application and map entry are gone.

### RetransmitQueue

`entries`, `est` (`rto`, `srtt`, `rttvar`) are the code's fields; `una` and
`nxt` are the TCB's, with segments of one byte. An `Instant` is an age in ticks of 100 ms, counted
up to the maximum timeout, and the averages are whole ticks, rounded down.
`hist`, `resent` and `sampled` are history: when the timer really sent a
segment, what it waited, and what was sampled. `Connection` abstracts from all
of this: there a tick may find any entries expired.

### Session

`Session` extends `Connection` and uses its actions as they are; every step of
the server is a step of `Connection` or leaves it alone. It adds the application
(`handle_connection`, with the channels `data_rx` and `send_tx`) and a client,
both on lengths: a request is described by where its method word, its headers
and the whole end, and by how the client cuts it. A request fits the send
buffer (an echo writes back as much as it read) and a segment the receive
buffer (the device's MTU is far smaller). `run_connection_task` awaits the
outbound channel with the acknowledgement of a segment before it forwards what
the segment brought (`tcp/task.rs:57-70`): `Arrive` leaves those bytes in `taken`,
the client may hear and answer the acknowledgement at once, and `Forward` is a
later step. The network is modelled by
what may be heard: anything sent before may arrive again at any time, and of
what is sent now one segment, or none, is heard at once. So loss, delay,
duplication and reordering need no channel variable. Only present transmissions
are fair, so a lost segment gets through only if someone sends it again. The
client is a plain one: data in order, an acknowledgement for each data segment,
an open window, a FIN when it has its answer.

### Codec, Wire

Bytes at the code's offsets; a `u32` is a pair of 16-bit halves. Errors are the
names of the variants of `MagnumError`. Where a parser indexes or slices, `reads`
gives an outcome of its own, `panic`, if the range is not within the bytes, and
`inbound` passes it on; that it never does is due to the order of the tests and is
what `NoPanic` and `InboundNeverPanics` say. The bytes are real because
`Faithful` and `DamageRejected` are about checksums, carries, odd lengths and
length fields. `Wire` carries segments between two hosts through
`frame_outbound`, the device and `inbound_dispatch` of either build. Host A may
also be a foreign stack with options and wrong lengths; the network pads, cuts
or changes a byte.

### EventLoop

`queue` is the outbound channel, `pending` the middleware's queue with the time
each packet has left. The PRNG is a choice within the configuration; dropping,
reordering and jitter are any combination. `captured` holds the outbound
packets in the capture file. The capture's own errors are ignored by the loop
and not modelled. `LossyLink` is what a connection may expect from its outbound
channel to the device: `Enter` hands a packet over, `Leave` delivers some of the
packets inside and loses others. The packets inside are those in `queue` and those
in `pending`, so one that no connection sent cannot be written.

## 3. Runs

Passing runs:

* `send_ring` - every wrap of a 3-byte ring against a sequence space of 10:
  `SendRing` implements `ByteFifo` (refinement: the queue is the ring read from
  `head`). Every initial number, so every alignment of index and number.
* `reassembly` - an 8-byte stream across the wrap, segments of up to 3 bytes cut
  and re-cut at will, up to one byte beyond the window (so that the ring has to
  drop bytes), duplicated and up to 5 bytes late.
  Safety (`InOrder`, `StagedFaithful`) and delivery of the whole
  stream (`Delivered`).
* `conn_sender` - all acknowledgement numbers, windows 0, 2 and open, any
  timeouts; buffer 3, MSS 2, sequence space 12, so partial acknowledgements, a
  full buffer, a full retransmit queue, fast recovery, probes and the wrap all
  occur. `CoverageKept`: these two, a full queue and a probe, are the only steps
  that leave a byte in flight which the queue does not hold.
* `conn_close` - data, overlaps, FINs and acknowledgements of the peer in any
  order, close at any time, through TIME_WAIT; simultaneous close and data
  unsent at the close included. `RetransmitInFlight` follows the queue into the
  closing states, up to TIME_WAIT.
* `retransmit_queue` - two entries and a third that finds no room, timeouts
  from 2 over 3 to 6 ticks, a sequence space of 8, every interleaving of pushes, acknowledgements,
  ticks and late looks at the clock. `BackedOff` compares each retransmission
  with what the timer waited before; `Karn` with whether it ever sent the
  segment; `SentUntilAcked` is the liveness of the timer.
* `session` - a two-byte request, in one segment, in two, or in one that the
  client also sends in part (a method word of two bytes, of which the second byte
  may overtake the whole), an answer of one or two bytes, one byte per segment,
  both sequence numbers passing zero; any losses, delays and duplicates. `Answered`: the client gets the whole answer.
  `Quiesces`: retransmission ends. `NeverRefused`, `AckedDelivered`, `InStep`
  relate what the two ends believe of each other; `UnsplitIsHttp` what the
  application makes of the chunks.
* `dispatch` - two tasks of one four-tuple with channels of one place, where
  everybody waits as often as possible: `TasksProgress`, `AppsProgress`.
* `dispatch_retry` - FINs, RSTs, evictions and a retrying client:
  `OrphansEnd`, `RetriedSynAnswered`.
* `wire` - every flag combination, numbers at the ends of their range, even and
  odd payloads, options up to the largest header, wrong lengths; for two
  segments every value of every byte behind the link header and every cut.
* `event_loop` - four packets, two held at a time, delays of up to 2 ms, every
  configuration. `ImplementsLink` is the refinement of `LossyLink` (the packets
  in the link are those in the channel and those the middleware holds).

The numbers are small, but each counter passes its limit and its wrap in them;
the proofs of section 5 remove the bounds for the safety of all of them.
`conn_*` and `reassembly` allow terminal states (a task that has exited, a stream read to
its end), and `event_loop` ends with a read error, so deadlock is not checked
there; it is in the others.

Runs that end in a violation each show a statement of the repository's
documentation, comments or tests that the code does not keep:

| Run | Statement | What happens |
|---|---|---|
| `full_inbox` | a full inbox costs the segment | it costs the connection |
| `close_wait` | the application closes when done | it never does while the task lives |

### Other deviations

Met while modelling; the properties above are stated so as not to depend on
them, and say so where they are defined.

* A segment in order that covers part of a staged one leaves it in the map,
  where it blocks those behind it (`recv_buffer.rs:68`; repository README line
  50: overlaps are "handled correctly"). The peer has to send that data again;
  `Delivered` shows that it then gets through. `reassembly` keeps the stream
  shorter than the sequence space, since such an entry would meet its own number
  again one lap later.
* The zero-window probe's byte is not queued for retransmission
  (`connection.rs:188`), nor is a segment sent when the queue has 128 entries
  (`retransmit.rs:41`; `ProjectProgress.md` line 153: "every sent segment is
  pushed to the retransmit queue"). Such bytes, if lost, are never sent again.
  `CoverageKept` shows that nothing else uncovers a byte; the client of `Session`
  keeps its window open and its answers are short.
* CLOSING acknowledges in the TCB but leaves the retransmit queue alone, and the
  timer goes on in TIME_WAIT, so acknowledged data is sent again until TIME_WAIT
  ends (`connection.rs:467`). `RetransmitInFlight` stops at TIME_WAIT.
* Only an acknowledgement of something new updates the peer's window
  (`connection.rs:340`): a pure window update is ignored. `NoIdleWindow` is about
  the window as recorded.
* `initiate_close` sends the FIN before unsent data; its acknowledgement makes
  the send buffer release a byte that was never sent (`connection.rs:140`). This
  is the case `Skipped` of the inductive invariant.
* A FIN is accepted wherever it lies, also ahead of missing data, which it
  acknowledges unseen (`connection.rs:376`; README line 50: "in-order
  reassembly"). `RcvAligned` and `AckedDelivered` are about ESTABLISHED for this
  reason; in `session` a client whose split request was echoed reaches this case.
* CLOSE_WAIT ignores every segment but a RST (`connection.rs:385`). A client
  that sends its FIN before it has acknowledged the answer leaves the server
  retransmitting for ever, and a FIN whose acknowledgement was lost is not
  acknowledged again. The client of `Session` sends its FIN, with an
  acknowledgement of everything, only when it has the whole answer.
* A fast retransmit does not mark its entry, so the RTT of a segment sent twice
  is sampled (`connection.rs:498`, `retransmit.rs:57`; README line 53: "no
  sampling on retransmitted segments"). `Karn` is about the timer's
  retransmissions.
* `--chaos-reorder` without jitter reorders nothing: a packet picked for
  reordering is due at once (`chaos.rs:59`; README line 92). ARP replies are not captured (README line 83).
* A first chunk that ends inside the method word is echoed instead of answered
  (`main.rs:437`); other methods on `/` get status 200 with the text of a 404
  (`main.rs:395`).

## 4. Fairness

* Tasks and applications: weak fairness, tokio polls every woken task again.
* A task waiting for room in the outbound channel: strong fairness, since
  tokio's `mpsc` serves waiting senders in order of arrival.
* The event loop's outbound arm: strong fairness, since its `select!` is not
  biased and polls the arms in random order. No fairness on frames arriving.
* `RetryingClients` (only in `dispatch_retry`): a client retransmits its SYN.
* `RetransmitQueue`: time passes, and the task comes round to its tick.
* `Session`: the task and the application as above; the task's other arms,
  behind the inbox in a biased `select!`, are strongly fair, which assumes that
  the inbox is empty now and then. A segment that is sent again and again (a
  SYN, the client's oldest unacknowledged data, the server's oldest entry in
  the retransmit queue) is heard in the end together with its answer; an
  acknowledgement is sent again only when data is heard again.
* `EventLoop`: time passes; connections go on sending (packets leave the
  middleware only then); a drop rate below 1 lets packets through again and
  again.
* `Reassembly`: the peer retransmits its oldest unacknowledged byte, and
  `forward_received_data` runs after every segment.

## 5. Proofs

Everything below is proved for all values of the constants that satisfy the
named assumptions of the modules. They say no more than the code's constants
do: buffers, MSS, window and flight are less than half the sequence space
(`SendBufSizeAssumption`, `RecvBufSizeAssumption`, `ConnectionAssumption`,
`RetransmitAssumption`), timeouts are ordered, capacities are positive, packets
fit the 16 bits of their length field (`WireAssumption`). Of the
segments that arrive `InputAssumption` says only that they have the types of a
header.

**Induction over data.** The library's induction theorems take an operator as
their parameter, which the provers cannot instantiate. `Induction` states them
for sets and functions instead: `LeastNat` (a nonempty set of naturals has a
least element), `UpTo` (a set that contains 0 and with each number the next
one, up to n, contains all of `0 .. n`), `Recursion` (a recursion whose steps
stay within a set has a result, in that set) and
`SelectProperties` (what `Vec::retain` keeps, in which order). So the loops of
`drain_ooo`, `update_all` and `retain` are within reach.

**Arithmetic** (`BufferProofs`). All reasoning about wrapped numbers is in terms
of distances from a base. `AckAcceptable`: the code's test is RFC 793's as long
as less than half the space is in flight; `FlightStaysBounded` discharges the
condition.

**Send buffer** (`StreamProofs`). `RingTypeCorrect`, and `RingImplementsFifo`:
the initial state and each of write, transmit and acknowledge map to steps of
`ByteFifo` under the mapping that reads the ring from `head`. The argument is
that offset `i` from `head` and offset `n + i` from the old head are the same
cell, whatever the alignment.

**Receive buffer** (`StreamProofs`). `DeliveredInOrder`,
`StagedWhereItBelongs`, `RecvTypeCorrect`, from `PiecesOfTheStream`: the bytes in
the ring and each staged segment are contiguous pieces of the stream, the
latter filed under the sequence number of their first byte. `StagedFaithful`
alone is not inductive, because what `drain_ooo` commits is the segment found
under RCV.NXT, and that is the next piece only if positions have different
numbers: hence the assumption that the stream is shorter than the sequence
space (see the deviations for why it is needed). The peer may overrun the window
as long as its segments stay within half the space (`MaxBeyondAssumption`).
`DrainKeeps` carries a property through the loop of `drain_ooo`.

**Connection** (`ConnectionProofs`).

* Sending half: `FlightStaysBounded`, `SendStaysAligned`,
  `RetransmitsInFlight`, `CwndStaysSafe`, `HandshakeStaysClean`,
  `SendTypeCorrect`. None is inductive by itself. That an acknowledgement in
  FIN_WAIT_1 is of something in flight needs to know where the buffer's counters
  are; those depend on whether a FIN was sent before all data; and what CLOSING
  may acknowledge depends on how FIN_WAIT_1 was left. `SendInv` says it with
  relations between the TCB's and the buffer's copies: `Fresh` (only a
  SYN), `Together` (same SND.UNA, SND.NXT at most a FIN apart), `Ahead` (the
  TCB's SND.UNA has run ahead), `Skipped` (an unsent byte was released) and
  `Done` (the FIN is acknowledged, nothing is queued), and which of them each
  state allows. `RetransmitsInFlight` holds until TIME_WAIT: CLOSING and LAST_ACK
  acknowledge only on leaving, so until then the queue agrees with SND.UNA.
* What is left to send: `NeverIdle`, from `IdleInv`: from the end of a flush to
  the next event either the windows are full or all is sent. Every event either
  leads to a flush or keeps that: a timeout only shrinks `cwnd` (`CwndSafe`), a
  probe needs a closed window, a FIN adds to the flight, which does not wrap
  (`FlightBounded`).
* What can be retransmitted: `CoverageLostOnlyBySending`, an action property.
  The queue of 128 entries does not hold 65536 bytes in small segments, and a
  probe is never queued, so `FlightCovered` is no invariant of the code's
  constants; but these are the only two steps that break it. In particular
  every acknowledgement removes exactly the entries that end at or before it:
  an entry that holds a byte beyond it ends beyond it (`CoverEnd`), which needs
  the flight and the segments to be short of half the space. Where neither
  happens (`RoomToQueue`), `FlightStaysCovered` follows.
* Receiving half: `RcvStaysAligned` and, with the sending half, `TypeCorrect`,
  from `RecvInv`: the buffer is empty between steps, and from the peer's SYN to
  its FIN the two copies of RCV.NXT are the same.

The step proofs have a lemma per handler and action.

**Retransmit queue** (`RetransmitProofs`). `KarnsRule` and `BacksOff` are action
properties about the history of a segment, which the queue does not keep.
`QueueInvariant` ties entries to histories: an entry's age is the time since the
timer or `push` sent it, its flag is whether the timer did, and what it last
waited is at most half the timeout in force or the timeout is at its maximum.
It needs the entries to have different numbers, thus to lie between SND.UNA and
SND.NXT, thus less than half the space in flight. `QueueTypeCorrect`: the
averages, the timeout and the queue keep their limits.

**Event loop** (`EventLoopProofs`). `LoopImplementsLink` (the refinement of
`LossyLink`), `NeverEarly`, `CapturedFirst`, `LoopTypeCorrect`, from
`InOnePlace`: a packet is at most once in the channel or in the middleware and
never in both. So a packet handed over enters the link, one that moves from the
channel into the middleware stays in it, and one written leaves it.

**Channels** (`StreamProofs`). `DispatchTypeCorrect`, `RoutedToItsOwn` and
`CloseArmNeverTaken`, from `ChannelsInvariant`, for all capacities, four-tuples
and numbers of tasks. The capacities need the record types of tasks and
applications and that a kind of segment leads from a phase to phases. That
the map leads from a four-tuple to its own task (`OwnSegments`) is kept by
`Spawn` because a slot is used again only when no entry names it, and by
`TaskExit` because a dead task keeps its key until its entry is evicted.
`CloseArmIdle` is the reason for the run `close_wait`: an application leaves its
read loop only when its task is gone, so it never closes a live one, and no
connection gets to the states behind `initiate_close`. `AnswerHasRoom`: an
application writes once, into an empty channel, so the `await` of `send_tx`
never waits; that part of `AppsProgress` is a matter of safety.

**Wire** (`WireProofs`). `WireFaithful`, `WireAnswerComesHome`,
`WireDamageRejected` and `WireNoPanic`, for all segments (ports, numbers, flags,
window, payload of any length that fits), all options, protocols and length
errors of a foreign stack, both builds, every changed byte and every cut. TLC
checks the same of a handful of segments. `InboundNeverPanics` goes further than
`WireNoPanic`: it is about every sequence of bytes, whoever made it. The argument
goes through these layers:

* Sums. `word_sum` of a concatenation is the sum of the parts when the first has
  an even length, and `fold` has a closed form modulo 65535, both by `UpTo`. So a
  checksum passes exactly when the sum of the words, the stored checksum
  included, is a positive multiple of 65535.
* What the parsers compute. `Ipv4Value` gives the value of `ipv4_parse` for every
  sequence of bytes, and that it never slices out of range; `DispatchValue` the
  value of `dispatch_packet`: a segment if `Accepts`, nothing otherwise.
* What the builders make. `Sealed` describes a packet of which header and segment
  are intact; the stack's own packets (`OwnPacket`) and a foreign stack's sound
  ones (`ForeignSealed`) are sealed, because each header field and each option
  is read where it was written (`TcpStartFields`, `IpStartFields`,
  `SegmentRoundTrip`) and the checksum completes the sum to a multiple of 65535.
* Damage (`DamagedRejected`). A changed byte changes its sum by less than 65535
  and by something, so it is no multiple any more; the length fields are
  covered by the header's checksum. The first byte needs an argument of its own: with
  another header length the border between header and segment moves. Either
  sum could then be a multiple again, but not both: together they changed by that
  byte and by the segment length in the pseudo-header
  (`FirstByteDamage`). Cuts contradict the total length (`CutRejected`).
* Wrong packets (`ForeignDropped`): a length that is too short, too long, even if
  padding supplies the missing byte, or zero; a data offset below five or beyond
  the segment; another protocol.
* Frames. `Robust` says of a frame what the receiver makes of it as it is,
  padded, cut and changed. The inductive invariant `Inv` says that each frame put
  on the wire is robust, and what the network's step leaves of that. `Faithful` by
  itself is not inductive, since it speaks of frames that have been read.

**Session** (`SessionProofs`). `ClientNeverRefused`, `AckedIsDelivered`,
`StaysInStep`, `UnsplitIsAnswered`, `SessionTypeCorrect`, for every request, cut,
answer, buffer size and initial sequence number. `ConnectionProofs` allows any
segment to arrive; here the segments are a client's, and the invariant says what
each end may believe of the other. Sequence numbers become positions, `Pos` in
the answer and `In` in the request, and `SessionInv` adds to the invariants of
both halves of the connection:

* `Client`: SND.UNA, what the client expects and SND.NXT are in this order, and,
  until its FIN, what the client knows to be acknowledged, RCV.NXT and the end of the
  request. `InStep` is a part of this, and needs the rest: that what the client
  expects does not pass SND.NXT follows from what the server may have sent.
* `OutInv`: a segment from the server is `Honest`: no RST, its bytes end at
  SND.NXT or before, and it acknowledges what has been taken in. A delayed
  acknowledgement from the client stays true, because its bounds only grow.
* `AnswerInv`, `PhaseInv`: before the answer is written nothing is in flight, and
  the states are those that a client which closes last can lead to. One answer
  is written at most, so positions do not wrap.
* `RequestInv`, `AppInv`, `TakenInv`: what was forwarded, read or not, and what the
  task still holds is exactly what RCV.NXT covers, and all in the buffer is of the
  request. The task holds something only between a segment and the flush after it,
  so that in `select!` all is forwarded.
* `WordInv`: if the segments at the start of the request hold the method word,
  so does the first chunk. A later segment that arrives first is staged and
  comes out behind it in one chunk, thus a chunk has at least that segment.

`bytes`, the sum over a channel, is a recursive function; `AppendBytes` and
`TailBytes` say what a send and a receive do to it, by `Recursion` and `UpTo`.

Only model-checked:

* liveness (`Delivered`, `TasksProgress`, `AppsProgress`, `OrphansEnd`,
  `RetriedSynAnswered`, `SentUntilAcked`, `Answered`, `Quiesces`,
  `HeldReleased`), which is beyond the prover.

`FlightStaysCovered` has room in the queue and an open window as hypotheses on the
behaviour; the code's constants guarantee neither.

## 6. Not modelled

* `Stack` and `Listener`, which nothing calls.
* Opening and configuring the device (`tun.rs`), the capture file's format
  (`pcap.rs`), error texts, command line: I/O without protocol state.
* The routing table of `build_http_response`: a response is its length.
* The PRNG of the middleware and `generate_isn`: choices.
* Half-closing clients and closing windows in `Session`: see the deviations.

## 7. What could follow

A refinement of `Dispatch`'s phases by `Connection`; the deviations of section 3
as runs of their own once the code or its documentation has changed.
