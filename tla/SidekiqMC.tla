----------------------------- MODULE SidekiqMC -----------------------------
(* Small instances of Sidekiq for TLC. *)
EXTENDS Sidekiq, TLC
CONSTANT n1

\* All jobs in one partition, or none in any.
OneKey == [j \in Jobs |-> "key"]
NoKeys == [j \in Jobs |-> NoKey]

\* Every node has handlers for all jobs, or only n1 has one for the oldest.
AllHandled == [n \in Nodes |-> Jobs]
OldestOnN1 == [n \in Nodes |-> IF n = n1 THEN Jobs ELSE Jobs \ {1}]

\* Nodes are interchangeable if all handle all jobs, and so are goroutines.
NodeSymmetry == Permutations(Nodes) \cup Permutations(Threads)
=============================================================================
