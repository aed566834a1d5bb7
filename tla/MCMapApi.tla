------------------------------ MODULE MCMapApi ------------------------------
(* A small instance of MapApi for TLC. *)
EXTENDS MapApi, TLC

\* Two requests in two moments on the map, one submission in two moments; the
\* third moment after is out of every window.
Limits  == [g \in Guards |-> IF g = "map" THEN 2 ELSE 1]
Windows == [g \in Guards |-> 2]
OneEach == [g \in Guards |-> 1]

Symmetric == Permutations(Clients) \cup Permutations(Codes) \cup Permutations(Calls)
=============================================================================
