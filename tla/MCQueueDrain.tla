---------------------------- MODULE MCQueueDrain ----------------------------
(* QueueDrain over two jobs at one host, in two lanes, and two processes. *)
EXTENDS QueueDrain, TLC

CONSTANTS j1, j2, p1, p2

OneHost == [j \in Jobs |-> "host"]
OwnLane == [j \in Jobs |-> j]
Symmetric == Permutations({j1, j2}) \cup Permutations({p1, p2})
=============================================================================
