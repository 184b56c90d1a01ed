----------------------------- MODULE LossyLink -----------------------------
(***************************************************************************)
(* What a connection may expect of everything between its outbound channel *)
(* and the device: a packet is delivered at most once and only if it was   *)
(* handed over, but it may be lost, delayed or overtaken.                  *)
(***************************************************************************)
EXTENDS Naturals, Sequences

CONSTANT Packet

VARIABLES held,        \* packets handed over and neither lost nor delivered
          delivered    \* packets delivered by the last step, in order

linkVars == <<held, delivered>>

Members(s) == {s[i] : i \in DOMAIN s}

OnceEach(s) == \A i, j \in DOMAIN s : s[i] = s[j] => i = j

LinkInit == held = {} /\ delivered = <<>>

\* A connection hands over a packet that is not in the link.
Enter(p) ==
    /\ p \notin held
    /\ held' = held \cup {p}
    /\ delivered' = <<>>

\* Packets leave the link, delivered or lost; any may stay.
Leave ==
    /\ OnceEach(delivered')
    /\ Members(delivered') \subseteq held
    /\ held' \subseteq held \ Members(delivered')

LinkNext == (\E p \in Packet : Enter(p)) \/ Leave

LinkSpec == LinkInit /\ [][LinkNext]_linkVars
=============================================================================
