------------------------------ MODULE MCLogger ------------------------------
(* Instances of Logger: an iterator over system entries, and one over others that begins later. *)
EXTENDS Logger

Starts == [r \in Readers |-> r - 1]
Kinds == [r \in Readers |-> r = 1]
=============================================================================
