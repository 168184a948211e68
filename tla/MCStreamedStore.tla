--------------------------- MODULE MCStreamedStore ---------------------------
(* Two clients, two runs and batches of two events. *)
EXTENDS StreamedStore, TLC
CONSTANTS a, b
Pairs == {<<a, b>>}
\* Neither a run, nor a client, nor a runStream is treated in a way of its own.
Renamings == Permutations(Runs) \cup Permutations(Clients) \cup Permutations(Streams)
=============================================================================
