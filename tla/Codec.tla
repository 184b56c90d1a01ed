------------------------------- MODULE Codec -------------------------------
(***************************************************************************)
(* The wire formats: the Internet checksum and the TCP, IPv4, Ethernet and *)
(* ARP codecs of tcp/header.rs, ipv4.rs, ethernet.rs and arp.rs, on real   *)
(* bytes at the code's offsets.  A slice is a sequence of bytes; offsets   *)
(* count from 0.  A u32 is a pair of its upper and lower 16 bits.  Every   *)
(* parser returns a record whose field err is "none" when it returns Ok,   *)
(* and "panic" when it indexes a slice out of range.                       *)
(***************************************************************************)
EXTENDS Naturals, Sequences

Byte == 0 .. 255

at(s, i)       == s[i + 1]
slice(s, a, b) == SubSeq(s, a + 1, b)
from(s, a)     == SubSeq(s, a + 1, Len(s))

u16(s, i) == 256 * at(s, i) + at(s, i + 1)
u32(s, i) == <<u16(s, i), u16(s, i + 2)>>
be16(w)   == <<w \div 256, w % 256>>
be32(w)   == be16(w[1]) \o be16(w[2])

Err(e) == [err |-> e]

\* The bytes s[a..b] are indexed on the way to the result r: out of range the
\* code panics.
reads(s, a, b, r) == IF a <= b /\ b <= Len(s) THEN r ELSE Err("panic")
-----------------------------------------------------------------------------
(* The Internet checksum.                                                  *)

\* The last byte of an odd length left out.
Bug_word_sum(data) ==
    LET sum[i \in 0 .. Len(data)] ==
          IF i = 0 THEN 0
          ELSE sum[i - 1] + (IF i % 2 = 0 THEN data[i] ELSE IF i < Len(data) THEN 256 * data[i] ELSE 0)
    IN  sum[Len(data)]

\* The sum of the words of the data.  Bytes are the upper and the lower halves
\* of words in turn, an odd one at the end being the upper half of the last.
word_sum(data) ==
    LET sum[i \in 0 .. Len(data)] ==
          IF i = 0 THEN 0 ELSE sum[i - 1] + (IF i % 2 = 1 THEN 256 * data[i] ELSE data[i])
    IN  sum[Len(data)]

\* while sum >> 16 != 0
fold[sum \in Nat] == IF sum < 65536 THEN sum ELSE fold[(sum % 65536) + (sum \div 65536)]

complement(sum) == 65535 - fold[sum]

checksum(data) == complement(word_sum(data))

PROTO_ICMP == 1
PROTO_TCP  == 6

tcp_checksum(segment, src_ip, dst_ip) ==
    complement(u16(src_ip, 0) + u16(src_ip, 2) + u16(dst_ip, 0) + u16(dst_ip, 2)
               + PROTO_TCP + Len(segment) + word_sum(segment))
-----------------------------------------------------------------------------
(* TCP.                                                                    *)

Weight   == [URG |-> 32, ACK |-> 16, PSH |-> 8, RST |-> 4, SYN |-> 2, FIN |-> 1]
TcpFlags == DOMAIN Weight

from_byte(b) == {f \in TcpFlags : (b \div Weight[f]) % 2 = 1}

to_byte(flags) ==
    LET bit(f) == IF f \in flags THEN Weight[f] ELSE 0
    IN  bit("URG") + bit("ACK") + bit("PSH") + bit("RST") + bit("SYN") + bit("FIN")

TCP_MIN_HEADER_LEN == 20

\* TcpSegment::parse.  data_offset, checksum and urgent_ptr are read by nobody.
segment_parse(raw, src_ip, dst_ip) ==
    IF Len(raw) < TCP_MIN_HEADER_LEN THEN Err("TcpHeaderTooShort")
    ELSE LET data_offset == at(raw, 12) \div 16
             header_len  == 4 * data_offset
             seg == [src_port |-> u16(raw, 0), dst_port |-> u16(raw, 2),
                     seq |-> u32(raw, 4), ack_num |-> u32(raw, 8),
                     flags |-> from_byte(at(raw, 13)), window |-> u16(raw, 14),
                     payload |-> from(raw, header_len)]
         IN  reads(raw, 0, TCP_MIN_HEADER_LEN,
             IF data_offset < 5 THEN Err("TcpDataOffsetTooSmall")
             ELSE IF Len(raw) < header_len THEN Err("TcpHeaderTooShort")
             ELSE IF tcp_checksum(raw, src_ip, dst_ip) # 0 THEN Err("TcpChecksumMismatch")
             ELSE reads(raw, header_len, Len(raw), [err |-> "none", seg |-> seg]))

\* SegmentBuilder::build.  The urgent pointer stays 0.
segment_build(src_ip, dst_ip, h) ==
    LET buf(csum) == be16(h.src_port) \o be16(h.dst_port) \o be32(h.seq) \o be32(h.ack_num)
                     \o <<80, to_byte(h.flags)>> \o be16(h.window) \o be16(csum) \o <<0, 0>>
                     \o h.payload
    IN  buf(tcp_checksum(buf(0), src_ip, dst_ip))
-----------------------------------------------------------------------------
(* IPv4.                                                                   *)

IPV4_MIN_HEADER_LEN == 20

\* The length of the packet taken from the buffer, not from the header.
Bug_ipv4_parse(raw) ==
    IF Len(raw) < IPV4_MIN_HEADER_LEN THEN Err("Ipv4HeaderTooShort")
    ELSE LET ihl        == at(raw, 0) % 16
             header_len == 4 * ihl
         IN  IF ihl < 5 THEN Err("Ipv4IhlTooSmall")
             ELSE IF Len(raw) < header_len THEN Err("Ipv4HeaderTooShort")
             ELSE IF checksum(slice(raw, 0, header_len)) # 0 THEN Err("Ipv4ChecksumMismatch")
             ELSE [err |-> "none", protocol |-> at(raw, 9), src |-> slice(raw, 12, 16),
                   dst |-> slice(raw, 16, 20), payload |-> from(raw, header_len)]

\* A total length below the header's not refused.
Bug_total_len_error(total_len, header_len, len) ==
    IF total_len > len THEN "Ipv4TruncatedPacket" ELSE "none"

\* The tests that keep raw[header_len..total_len] inside the buffer.
total_len_error(total_len, header_len, len) ==
    IF total_len < header_len THEN "Ipv4TotalLenTooSmall"
    ELSE IF total_len > len THEN "Ipv4TruncatedPacket" ELSE "none"

ipv4_parse(raw) ==
    IF Len(raw) < IPV4_MIN_HEADER_LEN THEN Err("Ipv4HeaderTooShort")
    ELSE LET ihl        == at(raw, 0) % 16
             header_len == 4 * ihl
             total_len  == u16(raw, 2)
             error      == total_len_error(total_len, header_len, Len(raw))
             packet     == [err |-> "none", protocol |-> at(raw, 9), src |-> slice(raw, 12, 16),
                            dst |-> slice(raw, 16, 20), payload |-> slice(raw, header_len, total_len)]
         IN  reads(raw, 0, IPV4_MIN_HEADER_LEN,
             IF ihl < 5 THEN Err("Ipv4IhlTooSmall")
             ELSE IF Len(raw) < header_len THEN Err("Ipv4HeaderTooShort")
             ELSE reads(raw, 0, header_len,
                  IF checksum(slice(raw, 0, header_len)) # 0 THEN Err("Ipv4ChecksumMismatch")
                  ELSE IF error # "none" THEN Err(error)
                  ELSE reads(raw, header_len, total_len, packet)))

\* The header that every packet of the stack carries: no options, "don't
\* fragment", a time to live of 64.
build_packet(src, dst, protocol, payload) ==
    LET total_len == (IPV4_MIN_HEADER_LEN + Len(payload)) % 65536
        hdr(csum) == <<69, 0>> \o be16(total_len) \o <<0, 0, 64, 0, 64, protocol>>
                     \o be16(csum) \o src \o dst
    IN  hdr(checksum(hdr(0))) \o payload
-----------------------------------------------------------------------------
(* Ethernet and ARP.                                                       *)

ETHERNET_HEADER_LEN == 14
ETHERTYPE_IPV4      == 2048
ETHERTYPE_ARP       == 2054

ethernet_build(dst_mac, src_mac, payload) ==
    dst_mac \o src_mac \o be16(ETHERTYPE_IPV4) \o payload

ethernet_parse(raw) ==
    IF Len(raw) < ETHERNET_HEADER_LEN THEN Err("EthernetFrameTooShort")
    ELSE reads(raw, 0, ETHERNET_HEADER_LEN,
         IF u16(raw, 12) # ETHERTYPE_IPV4 THEN [err |-> "NonIpv4EtherType", ethertype |-> u16(raw, 12)]
         ELSE [err |-> "none", dst_mac |-> slice(raw, 0, 6), src_mac |-> slice(raw, 6, 12),
               payload |-> from(raw, ETHERNET_HEADER_LEN)])

ARP_FRAME_LEN == ETHERNET_HEADER_LEN + 28

\* Hardware and protocol types and lengths; 1 is a request, 2 a reply.
arp_fixed(oper) == <<0, 1, 8, 0, 6, 4, 0, oper>>

\* The operation not looked at.
Bug_parse_arp_request(raw) ==
    LET arp == from(raw, ETHERNET_HEADER_LEN) IN
    IF Len(raw) < ARP_FRAME_LEN \/ slice(arp, 0, 6) # slice(arp_fixed(1), 0, 6) THEN Err("None")
    ELSE [err |-> "none", sender_mac |-> slice(arp, 8, 14), sender_ip |-> slice(arp, 14, 18),
          target_ip |-> slice(arp, 24, 28)]

parse_arp_request(raw) ==
    LET arp == from(raw, ETHERNET_HEADER_LEN) IN
    IF Len(raw) < ARP_FRAME_LEN THEN Err("None")
    ELSE reads(raw, 0, ARP_FRAME_LEN,
         IF slice(arp, 0, 8) # arp_fixed(1) THEN Err("None")
         ELSE [err |-> "none", sender_mac |-> slice(arp, 8, 14), sender_ip |-> slice(arp, 14, 18),
               target_ip |-> slice(arp, 24, 28)])

build_arp_reply_frame(our_mac, our_ip, requester_mac, requester_ip) ==
    requester_mac \o our_mac \o be16(ETHERTYPE_ARP) \o arp_fixed(2)
    \o our_mac \o our_ip \o requester_mac \o requester_ip
=============================================================================
