-------------------------- MODULE MCRawEventQueue --------------------------
(* Small instances of RawEventQueue for TLC. *)
EXTENDS RawEventQueue, TLC

CONSTANTS e1, e2, e3, w1, w2

TwoEvents   == {e1, e2}
ThreeEvents == {e1, e2, e3}
TwoWorkers  == {w1, w2}
OnePoller   == {w1}

\* hostname-pid, or a WORKER_INSTANCE_ID set per container.
OwnNames   == [w \in TwoWorkers |-> IF w = w1 THEN "worker-1" ELSE "worker-2"]
\* docker-compose.prod.yml: WORKER_INSTANCE_ID defaults to worker-1 in api and worker.
SharedName == [w \in TwoWorkers |-> "worker-1"]

EventSymmetry == Permutations(Events)
=============================================================================
