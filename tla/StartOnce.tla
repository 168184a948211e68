------------------------------- MODULE StartOnce -------------------------------
(***************************************************************************)
(* What POST /v2/start promises (openapi.yaml:115-130): the first start    *)
(* with a key binds it to a run and a seed; every answer to that key names *)
(* this run, once its world is complete, and the one access of its panel.  *)
(***************************************************************************)
EXTENDS FiniteSets

CONSTANTS Keys, Seeds, RunIDs, Accesses, Nobody

VARIABLES
    bound,    \* key -> the run and seed it stands for, or Nobody
    ready,    \* the runs whose journal holds the whole world
    given,    \* run -> the access of its panel, or Nobody
    answer    \* the last one given, or Nobody

vars == <<bound, ready, given, answer>>

Init ==
    /\ bound = [k \in Keys |-> Nobody]
    /\ ready = {}
    /\ given = [r \in RunIDs |-> Nobody]
    /\ answer = Nobody

BoundRuns == {bound[k].run : k \in {x \in Keys : bound[x] # Nobody}}

Bind(k, s, r) ==
    /\ bound[k] = Nobody /\ r \notin BoundRuns
    /\ bound' = [bound EXCEPT ![k] = [run |-> r, seed |-> s]]
    /\ UNCHANGED <<ready, given, answer>>

Prepare(r) ==
    /\ r \in BoundRuns \ ready
    /\ ready' = ready \cup {r}
    /\ UNCHANGED <<bound, given, answer>>

Give(r, a) ==
    /\ r \in ready /\ given[r] = Nobody
    /\ given' = [given EXCEPT ![r] = a]
    /\ UNCHANGED <<bound, ready, answer>>

Answer(k) ==
    /\ bound[k] # Nobody /\ bound[k].run \in ready /\ given[bound[k].run] # Nobody
    /\ answer' = [key |-> k, seed |-> bound[k].seed,
                  run |-> bound[k].run, access |-> given[bound[k].run]]
    /\ UNCHANGED <<bound, ready, given>>

Next ==
    \/ \E k \in Keys :
         Answer(k) \/ \E s \in Seeds, r \in RunIDs : Bind(k, s, r)
    \/ \E r \in RunIDs : Prepare(r) \/ \E a \in Accesses : Give(r, a)

Spec == Init /\ [][Next]_vars
=============================================================================
