----------------------------- MODULE EventStore -----------------------------
(***************************************************************************)
(* What simulation.EventStore promises to its callers: the streams only    *)
(* grow, an append is taken at the version it was decided on, and a Load   *)
(* returns a prefix of the stream that holds every append acknowledged     *)
(* before the Load began.                                                  *)
(***************************************************************************)
EXTENDS Integers, Sequences

CONSTANTS Runs, Clients, Events

VARIABLES
    log,      \* run -> events
    acked,    \* run -> the version up to which appends have returned
    phase,    \* client -> "idle", "loading" or "appending"
    on,       \* client -> the run of its call
    mark,     \* client -> version a Load must reach, or an append produced, else 0
    result    \* client -> what its last Load returned; empty during its next call

vars == <<log, acked, phase, on, mark, result>>

Greater(a, b) == IF a > b THEN a ELSE b

Init ==
    /\ log = [r \in Runs |-> <<>>]
    /\ acked = [r \in Runs |-> 0]
    /\ phase = [c \in Clients |-> "idle"]
    /\ on \in [Clients -> Runs]
    /\ mark = [c \in Clients |-> 0]
    /\ result = [c \in Clients |-> <<>>]

BeginLoad(c, r) ==
    /\ phase[c] = "idle"
    /\ phase' = [phase EXCEPT ![c] = "loading"]
    /\ on' = [on EXCEPT ![c] = r]
    /\ mark' = [mark EXCEPT ![c] = acked[r]]
    /\ result' = [result EXCEPT ![c] = <<>>]
    /\ UNCHANGED <<log, acked>>

Returned(c, r, least) ==
    \E n \in least..Len(log[r]) : result' = [result EXCEPT ![c] = SubSeq(log[r], 1, n)]

EndLoad(c) ==
    /\ phase[c] = "loading"
    /\ Returned(c, on[c], mark[c])
    /\ phase' = [phase EXCEPT ![c] = "idle"]
    /\ mark' = [mark EXCEPT ![c] = 0]
    /\ UNCHANGED <<log, acked, on>>

LoadAtOnce(c, r) ==
    /\ phase[c] = "idle"
    /\ Returned(c, r, acked[r])
    /\ UNCHANGED <<log, acked, phase, on, mark>>

\* An append decided on another version than the current one changes nothing.
CommitAppend(c, r, batch) ==
    /\ phase[c] = "idle"
    /\ log' = [log EXCEPT ![r] = @ \o batch]
    /\ phase' = [phase EXCEPT ![c] = "appending"]
    /\ on' = [on EXCEPT ![c] = r]
    /\ mark' = [mark EXCEPT ![c] = Len(log[r]) + Len(batch)]
    /\ result' = [result EXCEPT ![c] = <<>>]
    /\ UNCHANGED acked

Acknowledge(c) ==
    /\ phase[c] = "appending"
    /\ acked' = [acked EXCEPT ![on[c]] = Greater(@, mark[c])]
    /\ phase' = [phase EXCEPT ![c] = "idle"]
    /\ mark' = [mark EXCEPT ![c] = 0]
    /\ UNCHANGED <<log, on, result>>

Next ==
    \E c \in Clients :
        \/ EndLoad(c) \/ Acknowledge(c)
        \/ \E r \in Runs :
             \/ BeginLoad(c, r) \/ LoadAtOnce(c, r)
             \/ \E batch \in Seq(Events) : CommitAppend(c, r, batch)

Spec == Init /\ [][Next]_vars
=============================================================================
