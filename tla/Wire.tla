-------------------------------- MODULE Wire --------------------------------
(***************************************************************************)
(* What travels between two hosts that run the stack, byte by byte:        *)
(* frame_outbound and inbound_dispatch of main.rs with the device in       *)
(* between, on Linux (TAP, Ethernet frames) and on macOS (utun, IP packets *)
(* behind an address-family word).  Host A speaks first, with its own      *)
(* stack or with a foreign one that uses options or miscounts; the network *)
(* may pad, cut or damage the frame; host B answers.                       *)
(***************************************************************************)
EXTENDS Codec

CONSTANTS Sent,        \* segments A's connections build
          Damaged,     \* bound: those whose frames the network damages
          ForeignSent, \* segments a foreign stack sends
          Options      \* what it puts into its packets

Word == {w \in Nat : w < 65536}

Segment == [src_port : Word, dst_port : Word, seq : Word \X Word, ack_num : Word \X Word,
            flags : SUBSET TcpFlags, window : Word, payload : Seq(Byte)]

Option == [ip : 0 .. 10, tcp : 0 .. 10, protocol : Byte,
           total_len : {"right", "long", "short", "zero"}, data_offset : {"right", "long", "short"}]

\* A packet with the longest headers and one byte more than it has still has a
\* total length of 16 bits (the stack's payloads are at most 1460 bytes), and
\* a data offset that is too long is one beyond the end of the segment.
ASSUME WireAssumption ==
    /\ Sent \subseteq Segment /\ ForeignSent \subseteq Segment /\ Options \subseteq Option
    /\ \A s \in Sent \cup ForeignSent : Len(s.payload) + 121 <= 65535
    /\ \A o \in Options, s \in ForeignSent :
          o.data_offset = "long" => 20 + 4 * o.tcp + Len(s.payload) < 60

Host     == {"A", "B"}
Ip       == [A |-> <<192, 168, 100, 1>>, B |-> <<192, 168, 100, 2>>]
Mac      == [A |-> <<2, 0, 94, 16, 0, 1>>, B |-> <<10, 177, 233, 0, 0, 1>>]
ZERO_MAC == <<0, 0, 0, 0, 0, 0>>
Broadcast == <<255, 255, 255, 255, 255, 255>>

peer(h) == IF h = "A" THEN "B" ELSE "A"

VARIABLES os,          \* which of the two builds both hosts run
          pc,          \* "idle", a frame on the "wire", or a frame "read"
          to,          \* the host the frame goes to
          frame,       \* what is or was on the wire
          want,        \* what the receiver should make of it
          harm,        \* what the network did to it
          got          \* what the receiver made of it

vars == <<os, pc, to, frame, want, harm, got>>

None == [kind |-> "none"]
-----------------------------------------------------------------------------
(* The event loop's two directions.                                        *)

\* An OutboundMsg of a connection task on host h; tcp_bytes is its segment.
outbound_msg(src_ip, dst_ip, ether_src, ether_dst, seg) ==
    [src_ip |-> src_ip, dst_ip |-> dst_ip, ether_src |-> ether_src, ether_dst |-> ether_dst,
     tcp_bytes |-> segment_build(src_ip, dst_ip, seg)]

frame_outbound(msg) ==
    LET ip == build_packet(msg.src_ip, msg.dst_ip, PROTO_TCP, msg.tcp_bytes)
    IN  IF os = "linux" THEN ethernet_build(msg.ether_dst, msg.ether_src, ip) ELSE ip

AF_INET == <<0, 0, 0, 2>>

\* The device hands over frames on Linux; on macOS every packet has four bytes
\* in front that write_frame_nb prepends and try_recv_nb strips.
write_frame_nb(buf) == IF os = "linux" THEN buf ELSE AF_INET \o buf
try_recv_nb(raw)    == IF os = "linux" THEN raw ELSE IF Len(raw) <= 4 THEN <<>> ELSE from(raw, 4)

\* What a parser's error comes to: the frame is dropped, or the event loop
\* panics.
rejected(r) == IF r.err = "panic" THEN [kind |-> "panic"] ELSE None

\* The second half of inbound_dispatch: everything that is not a TCP segment
\* is logged at most.
dispatch_packet(raw, ether_src, ether_dst) ==
    LET packet == ipv4_parse(raw)
        parsed == segment_parse(packet.payload, packet.src, packet.dst)
    IN  IF packet.err # "none" THEN rejected(packet)
        ELSE IF packet.protocol # PROTO_TCP THEN None
        ELSE IF parsed.err # "none" THEN rejected(parsed)
        ELSE [kind |-> "tcp", remote_ip |-> packet.src, local_ip |-> packet.dst,
              ether_src |-> ether_src, ether_dst |-> ether_dst, seg |-> parsed.seg]

\* The TAP side: dispatch is told the frame's destination as its own address.
inbound_dispatch_linux(raw, our_ip, our_mac) ==
    LET f   == ethernet_parse(raw)
        req == parse_arp_request(raw)
    IN  IF f.err = "none" THEN dispatch_packet(f.payload, f.dst_mac, f.src_mac)
        ELSE IF f.err # "NonIpv4EtherType" THEN rejected(f)
        ELSE IF f.ethertype # ETHERTYPE_ARP THEN None
        ELSE IF req.err # "none" THEN rejected(req)
        ELSE IF req.target_ip # our_ip THEN None
        ELSE [kind |-> "arp",
              reply |-> build_arp_reply_frame(our_mac, our_ip, req.sender_mac, req.sender_ip)]

inbound_dispatch_macos(raw) == dispatch_packet(raw, ZERO_MAC, ZERO_MAC)

\* The arm of the event loop that reads the device.
inbound(raw, h) ==
    LET buf == try_recv_nb(raw) IN
    IF buf = <<>> THEN None
    ELSE IF os = "linux" THEN inbound_dispatch_linux(buf, Ip[h], Mac[h])
    ELSE inbound_dispatch_macos(buf)
-----------------------------------------------------------------------------
(* The hosts and the network.                                              *)

Init ==
    /\ os \in {"linux", "macos"}
    /\ pc = "idle" /\ to = "B" /\ frame = <<>> /\ want = None /\ harm = "none" /\ got = None

\* What the receiver should hand to its dispatcher for a segment of host h.
Expected(h, seg) ==
    [kind |-> "tcp", remote_ip |-> Ip[h], local_ip |-> Ip[peer(h)],
     ether_src |-> IF os = "linux" THEN Mac[peer(h)] ELSE ZERO_MAC,
     ether_dst |-> IF os = "linux" THEN Mac[h] ELSE ZERO_MAC,
     seg |-> seg]

Put(h, bytes, w) ==
    /\ frame' = bytes
    /\ want' = w
    /\ to' = peer(h)
    /\ pc' = "wire"
    /\ harm' = "none"
    /\ got' = None
    /\ UNCHANGED os

Transmit(seg) ==
    /\ pc = "idle"
    /\ LET msg == outbound_msg(Ip["A"], Ip["B"], Mac["A"], Mac["B"], seg)
       IN  Put("A", write_frame_nb(frame_outbound(msg)), Expected("A", seg))

\* The length fields of a foreign stack's packet, right or wrong, and options.
foreign_total_len(o, header_len, segment_len) ==
    CASE o.total_len = "right" -> header_len + segment_len
      [] o.total_len = "long"  -> header_len + segment_len + 1
      [] o.total_len = "zero"  -> 0
      [] o.total_len = "short" -> header_len - 1

foreign_data_offset(o) ==
    CASE o.data_offset = "right" -> 5 + o.tcp
      [] o.data_offset = "long"  -> 15
      [] o.data_offset = "short" -> 4

no_operation(n) == [i \in 1 .. (4 * n) |-> 1]

\* A packet of a foreign stack: o.ip and o.tcp words of options, a payload, and
\* those length fields; its checksums are always right.
foreign_packet(o, seg) ==
    LET total_len == foreign_total_len(o, 20 + 4 * o.ip, 20 + 4 * o.tcp + Len(seg.payload))
        tcp(c)    == be16(seg.src_port) \o be16(seg.dst_port) \o be32(seg.seq) \o be32(seg.ack_num)
                     \o <<16 * foreign_data_offset(o), to_byte(seg.flags)>> \o be16(seg.window)
                     \o be16(c) \o <<0, 0>> \o no_operation(o.tcp) \o seg.payload
        ip(c)     == <<69 + o.ip, 0>> \o be16(total_len) \o <<18, 52, 64, 0, 64, o.protocol>>
                     \o be16(c) \o Ip["A"] \o Ip["B"] \o no_operation(o.ip)
    IN  ip(checksum(ip(0))) \o tcp(tcp_checksum(tcp(0), Ip["A"], Ip["B"]))

Foreign(o, seg) ==
    /\ pc = "idle"
    /\ LET packet == foreign_packet(o, seg)
           bytes  == IF os = "linux" THEN ethernet_build(Mac["B"], Mac["A"], packet) ELSE packet
           sound  == o.total_len = "right" /\ o.data_offset = "right" /\ o.protocol = PROTO_TCP
       IN  Put("A", write_frame_nb(bytes), IF sound THEN Expected("A", seg) ELSE None)

\* A asks who has an address.
arp_reply(h) == build_arp_reply_frame(Mac[h], Ip[h], Mac[peer(h)], Ip[peer(h)])

ArpRequest(ip) ==
    /\ pc = "idle" /\ os = "linux"
    /\ Put("A", Broadcast \o Mac["A"] \o be16(ETHERTYPE_ARP) \o arp_fixed(1)
                \o Mac["A"] \o Ip["A"] \o ZERO_MAC \o ip,
           IF ip = Ip["B"] THEN [kind |-> "arp", reply |-> arp_reply("B")] ELSE None)

Harm(bytes, h) ==
    /\ frame' = bytes
    /\ harm' = h
    /\ UNCHANGED <<os, pc, to, want, got>>

\* Ethernet pads short frames to 60 bytes.
Pad ==
    /\ os = "linux" /\ Len(frame) < 60
    /\ Harm(frame \o [i \in 1 .. (60 - Len(frame)) |-> 0], "pad")

\* The bytes the checksums protect start after the link header.
Protected == IF os = "linux" THEN ETHERNET_HEADER_LEN ELSE 4

Damage(i, b) ==
    /\ want.kind = "tcp" /\ want.seg \in Damaged
    /\ frame[i] # b
    /\ Harm([frame EXCEPT ![i] = b], "damage")

Cut(n) ==
    /\ want.kind = "tcp"
    /\ Harm(SubSeq(frame, 1, n), "cut")

Network ==
    /\ pc = "wire" /\ to = "B" /\ harm = "none"
    /\ \/ Pad
       \/ \E i \in (Protected + 1) .. Len(frame), b \in Byte : Damage(i, b)
       \/ \E n \in 0 .. (Len(frame) - 1) : Cut(n)

Receive ==
    /\ pc = "wire"
    /\ got' = inbound(frame, to)
    /\ pc' = "read"
    /\ UNCHANGED <<os, to, frame, want, harm>>

\* B answers: an ARP reply as it is, a segment with one addressed the way the
\* connection task addresses its messages, from what dispatch was given.
Answer ==
    /\ pc = "read" /\ to = "B" /\ harm \in {"none", "pad"}
    /\ \/ /\ got.kind = "arp"
          /\ Put("B", write_frame_nb(got.reply), None)
       \/ /\ got.kind = "tcp"
          /\ LET back(sp, dp) == [src_port |-> sp, dst_port |-> dp, seq |-> <<65535, 65535>>,
                                 ack_num |-> got.seg.seq, flags |-> {"SYN", "ACK"},
                                 window |-> 65535, payload |-> <<>>]
                 msg == outbound_msg(got.local_ip, got.remote_ip, got.ether_src, got.ether_dst,
                                     back(got.seg.dst_port, got.seg.src_port))
             IN  Put("B", write_frame_nb(frame_outbound(msg)),
                     Expected("B", back(want.seg.dst_port, want.seg.src_port)))

Done ==
    /\ pc = "read"
    /\ pc' = "idle" /\ to' = "B" /\ frame' = <<>> /\ want' = None /\ harm' = "none" /\ got' = None
    /\ UNCHANGED os

Next ==
    \/ \E seg \in Sent : Transmit(seg)
    \/ \E o \in Options, seg \in ForeignSent : Foreign(o, seg)
    \/ \E ip \in {Ip["B"], <<192, 168, 100, 9>>} : ArpRequest(ip)
    \/ Network
    \/ Receive
    \/ Answer
    \/ Done

Spec == Init /\ [][Next]_vars
-----------------------------------------------------------------------------
\* What one host sends the other dispatches, unchanged, whatever the lengths,
\* options and padding: a segment with its addresses and exactly its payload,
\* an ARP request for its own address as a reply.  A packet whose length
\* fields do not agree with its bytes is dropped.
Faithful == pc = "read" /\ to = "B" /\ harm \in {"none", "pad"} => got = want

\* The answer reaches the sender: MAC and IP addresses and ports of what the
\* task sends are those dispatch read from the other side's frame, turned
\* round, and its checksums pass there.  An ARP reply is not answered again.
AnswerComesHome == pc = "read" /\ to = "A" => got = want

\* No change of one byte behind the link header, and no cut, gets a segment
\* past the checksums and length tests of the two parsers.
DamageRejected == pc = "read" /\ harm \in {"damage", "cut"} => got = None

\* No frame, whatever its length fields say and wherever it is cut, makes a
\* parser index out of range, which would end the event loop and every
\* connection with it: the tests come before the slices that need them.
NoPanic == got.kind # "panic"
=============================================================================
