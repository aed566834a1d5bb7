--------------------------- MODULE EventLifecycle ---------------------------
(***************************************************************************)
(* What the raw_events queue promises of every event, with no worker, no   *)
(* lease and no clock: the status column moves                             *)
(*                                                                         *)
(*    absent -> pending -> processing -> processed                         *)
(*                 ^            |------> failed                            *)
(*                 |------------|                                          *)
(*                                                                         *)
(* every return to pending costs one retry, an event is given up only when *)
(* its retries are spent, and processed and failed are final.              *)
(***************************************************************************)
EXTENDS Naturals

CONSTANTS
    Events,         \* rows of raw_events
    MaxRetries      \* WORKER_MAX_RETRIES

VARIABLES
    status,         \* raw_events.processing_status, "absent" before the INSERT
    retries         \* raw_events.retry_count

vars == <<status, retries>>

Statuses == {"absent", "pending", "processing", "processed", "failed"}
Final    == {"processed", "failed"}

Init ==
    /\ status  = [e \in Events |-> "absent"]
    /\ retries = [e \in Events |-> 0]

\* One INSERT transaction stores one message or a whole batch.
Submit(S) ==
    /\ \A e \in S : status[e] = "absent"
    /\ status' = [e \in Events |-> IF e \in S THEN "pending" ELSE status[e]]
    /\ UNCHANGED retries

\* One claim takes any number of waiting events.
Begin(S) ==
    /\ \A e \in S : status[e] = "pending"
    /\ status' = [e \in Events |-> IF e \in S THEN "processing" ELSE status[e]]
    /\ UNCHANGED retries

Finish(e) ==
    /\ status[e] = "processing"
    /\ status' = [status EXCEPT ![e] = "processed"]
    /\ UNCHANGED retries

Reschedule(e) ==
    /\ status[e] = "processing"
    /\ retries[e] < MaxRetries
    /\ status'  = [status EXCEPT ![e] = "pending"]
    /\ retries' = [retries EXCEPT ![e] = retries[e] + 1]

GiveUp(e) ==
    /\ status[e] = "processing"
    /\ retries[e] = MaxRetries
    /\ status' = [status EXCEPT ![e] = "failed"]
    /\ UNCHANGED retries

Next ==
    \/ \E S \in SUBSET Events : Submit(S) \/ Begin(S)
    \/ \E e \in Events : Finish(e) \/ Reschedule(e) \/ GiveUp(e)

Spec == Init /\ [][Next]_vars

(* Every stored event is settled in the end: processed, or failed. *)
Settles == \A e \in Events : status[e] = "pending" ~> status[e] \in Final
=============================================================================
