-------------------------------- MODULE Fifo --------------------------------
(***************************************************************************)
(* What a multi-producer single-consumer queue promises: an entry that is  *)
(* put in is taken out once, and entries leave in the order they entered.  *)
(***************************************************************************)
EXTENDS Sequences

CONSTANT Nodes

VARIABLE entries

Init == entries = <<>>

Put == \E n \in Nodes : entries' = Append(entries, n)

Take == entries # <<>> /\ entries' = Tail(entries)

Next == Put \/ Take

Spec == Init /\ [][Next]_entries
=============================================================================
