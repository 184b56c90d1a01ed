---------------------------- MODULE MCConnection ----------------------------
(***************************************************************************)
(* Arrivals for the model-checking runs of Connection.  The peer's initial *)
(* sequence number is PeerIss; its segments start at PeerIss, or up to two *)
(* bytes after it.                                                         *)
(***************************************************************************)
EXTENDS Connection

CONSTANT PeerIss

pseg(flags, off, ack, wnd, len) ==
    [flags |-> flags, seq |-> wrapping_add(PeerIss, off), ack_num |-> ack,
     window |-> wnd, len |-> len]

Syn    == {pseg({"SYN"}, 0, 0, MAX_WINDOW, 0)}
SynAck == {pseg({"SYN", "ACK"}, 0, a, MAX_WINDOW, 0) : a \in SeqNum}
Rst    == {pseg({"RST"}, 1, 0, 0, 0)}

\* Pure acknowledgements: every number, with closed, small and open windows.
Acks == {pseg({"ACK"}, 1, a, w, 0) : a \in SeqNum, w \in {0, 2, MAX_WINDOW}}

SenderArrivals == Syn \cup SynAck \cup Acks \cup Rst

\* The peer's first bytes, in order and not, overlapping, acknowledging no more
\* than our SYN; its FIN alone or at the end of data; and every acknowledgement
\* that our first bytes and FIN can bring, with and without a FIN.
OurFirst == {wrapping_add(iss, i) : iss \in Iss, i \in 1 .. 4}
Texts    == {pseg({"ACK"} \cup f, off, wrapping_add(iss, 1), MAX_WINDOW, n) :
                f \in SUBSET {"FIN"}, off \in 1 .. 2, iss \in Iss, n \in 1 .. 2}
BareFins == {pseg({"FIN"}, off, 0, MAX_WINDOW, 0) : off \in 1 .. 2}
NewAcks  == {pseg({"ACK"} \cup f, 1, a, MAX_WINDOW, 0) : f \in SUBSET {"FIN"}, a \in OurFirst}

CloseArrivals == Syn \cup Texts \cup BareFins \cup NewAcks \cup Rst
=============================================================================
