------------------------------- MODULE MCWire -------------------------------
(***************************************************************************)
(* Segments and options for the model-checking run of Wire.                *)
(***************************************************************************)
EXTENDS Wire

seg(port, flags, seq, ack, wnd, data) ==
    [src_port |-> port, dst_port |-> 80, seq |-> seq, ack_num |-> ack, flags |-> flags,
     window |-> wnd, payload |-> data]

\* Every combination of flags; numbers at the ends of their range; payloads of
\* even and odd length, of ones and of zeros.
MCSent ==
    {seg(54321, f, <<65535, 65535>>, <<0, 0>>, 65535, <<>>) : f \in SUBSET TcpFlags} \cup
    {seg(p, {"ACK", "PSH"}, <<0, 1>>, a, 0, d) :
        p \in {54321, 65199}, a \in {<<0, 0>>, <<32768, 0>>, <<65535, 65535>>},
        d \in {<<>>, <<0>>, <<255>>, <<71, 69, 84>>, <<255, 255>>, <<0, 0, 0, 0>>}}

\* With port 65199 a header length of 24 instead of 20 keeps the sum of the IP
\* header: only the TCP checksum can tell.
MCDamaged ==
    {seg(p, {"ACK", "PSH"}, <<0, 1>>, <<32768, 0>>, 0, <<71, 69, 84>>) : p \in {54321, 65199}}

MCForeignSent == {seg(54321, {"SYN"}, <<65535, 65535>>, <<0, 0>>, 64240, d) : d \in {<<>>, <<72, 105, 33>>}}

MCOptions ==
    [ip : {0, 1, 10}, tcp : {0, 1, 9}, protocol : {PROTO_TCP, PROTO_ICMP, 17},
     total_len : {"right", "long", "short", "zero"}, data_offset : {"right", "long", "short"}]
=============================================================================
