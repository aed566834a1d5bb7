------------------------------ MODULE RateLimit ------------------------------
(***************************************************************************)
(* The rate limits of the public endpoints                                 *)
(* (src/src/map/public-map-rate-limit.guard.ts and its two copies for      *)
(* submissions and for the configuration of the app): in the memory of the *)
(* api process a table from clients to the times of their requests, pruned *)
(* at each request served and swept when it holds too many clients.        *)
(* canActivate awaits nothing, so it is one step.                          *)
(***************************************************************************)
EXTENDS Naturals, FiniteSets

CONSTANTS
    Guards,         \* the guards: each has a table and constants of its own
    Clients,        \* first address of x-forwarded-for, or the peer's
    Limit,          \* maxRequests
    Window,         \* windowMs
    MaxTracked,     \* maxTrackedClients
    MaxTime         \* bound: the clock

VARIABLES
    now,            \* Date.now()
    table,          \* buckets: the times kept for a client, {} without an entry
    served,         \* history: all requests served since the process started
    refused         \* history: the request refused last, until one is served or time passes

limitVars == <<now, table, served, refused>>

\* Equal times in a bucket are told apart by the number of the request.
Stamps == [at : Nat, n : Nat]
None   == [g \in Guards |-> [c \in Clients |-> {}]]
Nobody == [guard |-> "none"]

ASSUME RateAssumption ==
    /\ IsFiniteSet(Clients)
    /\ Limit \in [Guards -> Nat \ {0}]
    /\ Window \in [Guards -> Nat \ {0}]
    /\ MaxTracked \in [Guards -> Nat]
    /\ MaxTime \in Nat

LimitTypeOK ==
    /\ now    \in 0..MaxTime
    /\ table  \in [Guards -> [Clients -> SUBSET Stamps]]
    /\ served \in [Guards -> [Clients -> SUBSET Stamps]]
    /\ refused \in [guard : Guards, client : Clients] \cup {Nobody}

LimitInit ==
    /\ now    = 0
    /\ table  = None
    /\ served = None
    /\ refused = Nobody

\* Mutated form of Active: a request counts one moment less.
ActiveShorter(g, bucket) == {s \in bucket : now - s.at < Window[g] - 1}

Active(g, bucket) == {s \in bucket : now - s.at < Window[g]}

Tracked(buckets) == {c \in Clients : buckets[c] # {}}

\* Mutated form of Compact: nobody is swept.
CompactNone(g, buckets) == buckets

\* Entries without active times are deleted.
Compact(g, buckets) == [c \in Clients |-> Active(g, buckets[c])]

Stamp(g, c) == [at |-> now, n |-> Cardinality(served[g][c])]

\* The table after a request at time now.
Entered(g, c) == [table[g] EXCEPT ![c] = Active(g, table[g][c]) \cup {Stamp(g, c)}]

Full(g, buckets) == Cardinality(Tracked(buckets)) > MaxTracked[g]

\* Mutated form of AtLimit: the request itself is counted.
AtLimitEarly(g, c) == Cardinality(Active(g, table[g][c])) + 1 >= Limit[g]

AtLimit(g, c) == Cardinality(Active(g, table[g][c])) >= Limit[g]

Admit(g, c) ==
    /\ ~AtLimit(g, c)
    /\ table'  = [table EXCEPT ![g] = IF Full(g, Entered(g, c))
                                      THEN Compact(g, Entered(g, c))
                                      ELSE Entered(g, c)]
    /\ served' = [served EXCEPT ![g][c] = served[g][c] \cup {Stamp(g, c)}]
    /\ refused' = Nobody
    /\ UNCHANGED now

\* 429: the bucket is not written back.
Refuse(g, c) ==
    /\ AtLimit(g, c)
    /\ refused' = [guard |-> g, client |-> c]
    /\ UNCHANGED <<now, table, served>>

Tick ==
    /\ now < MaxTime
    /\ now' = now + 1
    /\ refused' = Nobody
    /\ UNCHANGED <<table, served>>

\* The tables are in memory.
Restart ==
    /\ table'  = None
    /\ served' = None
    /\ refused' = Nobody
    /\ UNCHANGED now

LimitNext ==
    \/ \E g \in Guards, c \in Clients : Admit(g, c) \/ Refuse(g, c)
    \/ Tick
    \/ Restart

LimitSpec == LimitInit /\ [][LimitNext]_limitVars
-----------------------------------------------------------------------------
(* Properties. *)

(* In no stretch of Window moments, wherever it begins, is one client      *)
(* served more than Limit requests (by a process that does not restart in  *)
(* it), though what is counted are only the times that pruning and         *)
(* sweeping have left in the table.                                        *)
WindowKept ==
    \A g \in Guards, c \in Clients, t \in 0..MaxTime :
        Cardinality({s \in served[g][c] : t <= s.at /\ s.at < t + Window[g]}) <= Limit[g]

(* The table grows past its maximum only by clients that all were active   *)
(* at one time: who has gone quiet is swept before the table grows.        *)
TableBounded ==
    \A g \in Guards :
        Full(g, table[g])
        => \E t \in 0..now : \A c \in Tracked(table[g]) :
               \E s \in table[g][c] : s.at <= t /\ t - s.at < Window[g]

(* Pruning and sweeping cannot be told from a guard that forgets nothing:  *)
(* it serves and refuses the same requests.                                *)
Promise == INSTANCE SlidingWindow WITH
    Guards <- Guards, Clients <- Clients, Limit <- Limit, Window <- Window,
    now <- now, served <- served, refused <- refused
PromiseKept == Promise!Spec
=============================================================================
