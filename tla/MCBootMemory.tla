---------------------------- MODULE MCBootMemory ----------------------------
(* Instances of BootMemory: eleven pages, three of them below the offset. *)
EXTENDS BootMemory, Sequences

\* The trampoline's pages 1 and 2 are free, in use by boot services, or by
\* runtime services.  High memory is free but for its end, in small pieces, and,
\* where the map can grow most, nearly all in use by boot services.
Layouts ==
  {<<"reserved", "conv", "conv", "conv", "conv", "conv", "conv", "conv", "loader", "boot", "runtime">>,
   <<"conv", "boot", "conv", "conv", "conv", "loader", "reserved", "conv", "conv", "boot", "hole">>,
   <<"boot", "conv", "runtime", "boot", "conv", "conv", "hole", "hole", "loader", "boot", "boot">>,
   <<"reserved", "boot", "boot", "conv", "boot", "boot", "boot", "boot", "boot", "boot", "boot">>}
MCMaps == {[p \in 0..10 |-> l[p + 1]] : l \in Layouts}
=============================================================================
