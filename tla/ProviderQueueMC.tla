-------------------------- MODULE ProviderQueueMC --------------------------
(* Small instances of ProviderQueue for TLC. *)
EXTENDS ProviderQueue, TLC

\* Queues of capacity one.
Buffer1 == [g \in Gens |-> 1]

\* Messages are interchangeable, and so are calls unless one of them streams.
CallSymmetry == Permutations(Msgs) \cup Permutations(Calls)
=============================================================================
