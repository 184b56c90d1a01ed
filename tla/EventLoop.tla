----------------------------- MODULE EventLoop -----------------------------
(***************************************************************************)
(* The event loop of main.rs with the chaos middleware of chaos.rs and the *)
(* capture file of pcap.rs: outbound messages are captured, pass through   *)
(* the middleware and are written to the device; frames read from it are   *)
(* captured and dispatched, and an ARP request for our address is answered *)
(* on the spot.                                                            *)
(*                                                                         *)
(* A frame is a packet of the set Packet; a packet is used again once      *)
(* nothing holds it.  The middleware's random numbers are choices within   *)
(* the configured limits, and its Instants are the time left.              *)
(***************************************************************************)
EXTENDS Selection, Functions

CONSTANTS Packet,
          ArpReply,
          OUT,          \* capacity of the outbound channel, 256
          MaxJitter,    \* bound: largest max_jitter_ms
          MaxHeld       \* bound: packets the middleware holds at a time

ASSUME EventLoopAssumption ==
    ArpReply \notin Packet /\ OUT \in Nat \ {0} /\ MaxJitter \in Nat /\ MaxHeld \in Nat

VARIABLES config,       \* ChaosConfig; without the middleware nothing is set
          capturing,    \* pcap_writer is Some
          queue,        \* outbound channel
          pending,      \* ChaosMiddleware::pending, oldest first
          captured,     \* packets in the capture file since they were queued
          written,      \* what the last step wrote to the device
          running

vars == <<config, capturing, queue, pending, captured, written, running>>

Held == {pending[i].packet : i \in DOMAIN pending}

Config == [drop : BOOLEAN, reorder : BOOLEAN, max_jitter : 0 .. MaxJitter]

Init ==
    /\ config \in Config
    /\ capturing \in BOOLEAN
    /\ queue = <<>> /\ pending = <<>> /\ captured = {} /\ written = <<>>
    /\ running = TRUE
-----------------------------------------------------------------------------
(* ChaosMiddleware.                                                        *)

\* Once the first packet is ready, everything behind it goes.
Bug_ready_all(p) == IF p # <<>> /\ p[1].left = 0 THEN Len(p) ELSE 0

\* How many packets flush_ready takes from the front: it stops at the first
\* one whose time has not come.
ready(p) ==
    CHOOSE n \in 0 .. Len(p) :
        /\ \A i \in 1 .. n : p[i].left = 0
        /\ n = Len(p) \/ p[n + 1].left > 0

flush_ready(p) ==
    [out |-> [i \in 1 .. ready(p) |-> p[i].packet],
     pending |-> SubSeq(p, ready(p) + 1, Len(p))]

hold(p, packet, delay) == flush_ready(Append(p, [packet |-> packet, left |-> delay]))

\* An undelayed packet sent on without looking at the queue.
Bug_pass(p, packet) == [out |-> <<packet>>, pending |-> p]

pass(p, packet) ==
    [out |-> Append(flush_ready(p).out, packet), pending |-> flush_ready(p).pending]

\* The modulus taken one too large.
Bug_delays(c) == 0 .. (c.max_jitter + 1)

\* What delay_ms may come to.
delays(c) == 0 .. c.max_jitter

\* A delayed packet sent at once as well, the early return missing.
Bug_intercept(p, packet, delay, reorder) ==
    IF delay > 0 \/ reorder
    THEN LET h == hold(p, packet, delay) IN [h EXCEPT !.out = Append(@, packet)]
    ELSE pass(p, packet)

\* intercept, with what next_f64 and next_u64 may have come to.
intercept(p, packet, delay, reorder) ==
    IF delay > 0 \/ reorder THEN hold(p, packet, delay) ELSE pass(p, packet)
-----------------------------------------------------------------------------
(* The arms of the select!.                                                *)

\* A connection task hands a packet to the outbound channel.
TaskSend(p) ==
    /\ running
    /\ p \notin Range(queue) \cup Held
    /\ Len(queue) < OUT
    /\ queue' = Append(queue, p)
    /\ captured' = captured \ {p}
    /\ written' = <<>>
    /\ UNCHANGED <<config, capturing, pending, running>>

\* write_packet of the frames that are about to be written.
Bug_capture(packet, out) == IF capturing THEN captured \cup Range(out) ELSE captured

\* write_packet, whatever becomes of the packet.  The file is taken to accept
\* what is written to it: the loop ignores an error.
capture(packet, out) == IF capturing THEN captured \cup {packet} ELSE captured

\* write_frame_nb may fail; the packet is then lost with a warning.
Write(out) ==
    \E ok \in SUBSET Range(out) : written' = Select(out, ok)

OutboundDropped ==
    /\ running /\ queue # <<>> /\ config.drop
    /\ queue' = Tail(queue)
    /\ captured' = capture(Head(queue), <<>>)
    /\ written' = <<>>
    /\ UNCHANGED <<config, capturing, pending, running>>

OutboundKept(delay, reorder) ==
    /\ running /\ queue # <<>>
    /\ delay \in delays(config)
    /\ reorder => config.reorder
    /\ Len(pending) < MaxHeld \/ (delay = 0 /\ ~ reorder)
    /\ LET r == intercept(pending, Head(queue), delay, reorder) IN
       /\ pending' = r.pending
       /\ captured' = capture(Head(queue), r.out)
       /\ Write(r.out)
    /\ queue' = Tail(queue)
    /\ UNCHANGED <<config, capturing, running>>

\* A frame is read and dispatched (module Dispatch); the reply to an ARP
\* request goes to the device past the capture and the middleware.
Inbound(arp) ==
    /\ running
    /\ IF arp THEN Write(<<ArpReply>>) ELSE written' = <<>>
    /\ UNCHANGED <<config, capturing, queue, pending, captured, running>>

\* A read error ends the loop, and with it the process.
ReadError ==
    /\ running
    /\ running' = FALSE
    /\ queue' = <<>> /\ pending' = <<>> /\ written' = <<>>
    /\ UNCHANGED <<config, capturing, captured>>

\* A millisecond passes.
Tick ==
    /\ \E i \in DOMAIN pending : pending[i].left > 0
    /\ pending' = [i \in DOMAIN pending |->
                      [pending[i] EXCEPT !.left = IF @ > 0 THEN @ - 1 ELSE 0]]
    /\ written' = <<>>
    /\ UNCHANGED <<config, capturing, queue, captured, running>>

Kept == \E delay \in 0 .. MaxJitter, reorder \in BOOLEAN : OutboundKept(delay, reorder)

Next ==
    \/ \E p \in Packet : TaskSend(p)
    \/ OutboundDropped
    \/ Kept
    \/ \E arp \in BOOLEAN : Inbound(arp)
    \/ ReadError
    \/ Tick

Spec == Init /\ [][Next]_vars

\* Time passes; the connections go on sending; the select! polls its arms in
\* random order, and a drop rate below 1 lets packets through again and again.
Fairness ==
    /\ WF_vars(Tick)
    /\ WF_vars(\E p \in Packet : TaskSend(p))
    /\ SF_vars(Kept)

FairSpec == Spec /\ Fairness
-----------------------------------------------------------------------------
\* Channel, middleware and capture file hold packets of connections only, the
\* channel no more than its capacity, and the time a held packet has left is
\* within the configured jitter.
TypeOK ==
    /\ config \in Config /\ capturing \in BOOLEAN /\ running \in BOOLEAN
    /\ Len(queue) <= OUT /\ Range(queue) \subseteq Packet
    /\ \A i \in DOMAIN pending :
          pending[i].packet \in Packet /\ pending[i].left \in 0 .. config.max_jitter
    /\ captured \subseteq Packet
    /\ Range(written) \subseteq Packet \cup {ArpReply}

\* What connections handed over and is neither lost nor written yet.
InTransit == Range(queue) \cup Held

\* The ARP replies among the frames written are no packets of a connection.
Link == INSTANCE LossyLink WITH held <- InTransit, delivered <- Select(written, Packet)

\* Channel, event loop and middleware together lose, delay and reorder packets,
\* but each one a connection hands over is written at most once, and none that
\* was not handed over since it was last written or lost.
ImplementsLink == Link!LinkSpec

\* No packet is written before its delay is over, wherever it stands in the
\* middleware's queue.
NotEarly ==
    [][\A i \in DOMAIN pending : pending[i].left > 0 => pending[i].packet \notin Range(written')]_vars

\* Everything the stack sends is in the capture file before it can leave,
\* held packets and those written late included; only ARP replies are not.
CaptureFirst == capturing => (Held \cup Range(written)) \ {ArpReply} \subseteq captured

\* As long as the connections go on sending, a held packet leaves the
\* middleware: one that is due stays until the next packet is sent, and one
\* behind a packet with a longer delay waits for it, but none for ever.
HeldReleased == \A p \in Packet : p \in Held ~> p \notin Held
=============================================================================
