---------------------------- MODULE MCWriterGuard ----------------------------
(* Three processes, of one account or of two. *)
EXTENDS WriterGuard

CONSTANTS w1, w2, w3

MCWriters == {w1, w2, w3}
MCOneUser == [w \in MCWriters |-> "service"]
MCTwoUsers == [w \in MCWriters |-> IF w = w1 THEN "service" ELSE "operator"]
\* Two processes may acquire twice, or acquire and refresh; the third acquires once.
MCMaxStamp == [w \in MCWriters |-> IF w = w3 THEN 1 ELSE 2]
=============================================================================
