---------------------------- MODULE SlidingWindow ----------------------------
(***************************************************************************)
(* What a rate limit promises, with no table and nothing forgotten before  *)
(* its process restarts: a request is served unless Limit requests of that *)
(* client were served in the Window before it, and refused only then.      *)
(***************************************************************************)
EXTENDS Naturals, FiniteSets

CONSTANTS
    Guards,     \* the rate limits, each with a limit and a window of its own
    Clients,
    Limit,
    Window

VARIABLES
    now,
    served,     \* the requests served to a client since the process started
    refused     \* the request refused last, until one is served or time passes

vars == <<now, served, refused>>

Nobody == [guard |-> "none"]

Recent(g, c) == {s \in served[g][c] : now - s.at < Window[g]}

Init ==
    /\ now     = 0
    /\ served  = [g \in Guards |-> [c \in Clients |-> {}]]
    /\ refused = Nobody

\* Requests of one moment are told apart by their number.
Stamp(g, c) == [at |-> now, n |-> Cardinality(served[g][c])]

Serve(g, c) ==
    /\ Cardinality(Recent(g, c)) < Limit[g]
    /\ served' = [served EXCEPT ![g][c] = served[g][c] \cup {Stamp(g, c)}]
    /\ refused' = Nobody
    /\ UNCHANGED now

Refuse(g, c) ==
    /\ Cardinality(Recent(g, c)) >= Limit[g]
    /\ refused' = [guard |-> g, client |-> c]
    /\ UNCHANGED <<now, served>>

Tick == now' = now + 1 /\ refused' = Nobody /\ UNCHANGED served

Restart ==
    /\ served' = [g \in Guards |-> [c \in Clients |-> {}]]
    /\ refused' = Nobody
    /\ UNCHANGED now

Next ==
    \/ \E g \in Guards, c \in Clients : Serve(g, c) \/ Refuse(g, c)
    \/ Tick
    \/ Restart

Spec == Init /\ [][Next]_vars
=============================================================================
