----------------------------- MODULE DurableLog -----------------------------
(***************************************************************************)
(* What the journal of one run promises: a sequence of batches that grows  *)
(* by whole batches, and of which no batch whose append returned without   *)
(* an error is ever lost, whatever crashes.                                *)
(***************************************************************************)
EXTENDS Integers, Sequences

CONSTANT Batches

VARIABLES
    log,        \* the batches a reader of the journal obtains
    promised    \* how many of them had been written when an append last returned

vars == <<log, promised>>

Init == log = <<>> /\ promised = 0

Extend(batch) == log' = Append(log, batch) /\ UNCHANGED promised

Promise == promised' = Len(log) /\ UNCHANGED log

\* Only a batch nobody was promised may go.
Lose == promised < Len(log) /\ log' = SubSeq(log, 1, Len(log) - 1) /\ UNCHANGED promised

Next == Promise \/ Lose \/ \E batch \in Batches : Extend(batch)

Spec == Init /\ [][Next]_vars
=============================================================================
