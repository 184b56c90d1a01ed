----------------------------- MODULE MCSession -----------------------------
(***************************************************************************)
(* Requests of two bytes, sent as one segment or two.                      *)
(***************************************************************************)
EXTENDS Session

Cut(off, len) == [off |-> off, len |-> len]

\* An HTTP request whose method word is its first byte.
Http == [word |-> 1, head |-> 2, total |-> 2, cuts |-> {Cut(0, 1), Cut(1, 1), Cut(0, 2)}]

\* One whose method word takes both bytes: cut in the middle it is taken for
\* bytes that are no request.
Split == [Http EXCEPT !.word = 2]

\* One whose method word is in its first segment, which a later one overlaps.
Unsplit == [Split EXCEPT !.cuts = {Cut(0, 2), Cut(1, 1)}]

MCRequests == {Http, Split, Unsplit}

\* The client of Session takes the place of Connection's arrivals.
MCArrivals == {}
=============================================================================
