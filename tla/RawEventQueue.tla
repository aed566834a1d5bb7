--------------------------- MODULE RawEventQueue ---------------------------
(***************************************************************************)
(* The raw_events queue in Postgres and the processes that work on it      *)
(* (src/src/processing/processing.service.ts), with the parsed_events row  *)
(* each message is turned into (src/src/parsing/parsing.service.ts) and    *)
(* everybody else who writes the enrich_status of that row.                *)
(*                                                                         *)
(* A worker is an operating-system process that runs ProcessingService:    *)
(* the worker container polls, the api container runs a batch when the dev *)
(* trigger is called.  Each SQL statement is one action; what a process    *)
(* remembers between two statements (the claimed batch, the result of      *)
(* findOne, the retry_count it read) is a variable of its own, lost in a   *)
(* crash.  Time is two facts per row: whether next_retry_at has passed and *)
(* whether the lease has run out.                                          *)
(***************************************************************************)
EXTENDS Naturals, FiniteSets

CONSTANTS
    Events,         \* rows of raw_events
    Workers,        \* processes that run ProcessingService
    Pollers,        \* the ones that called startPolling
    Instance,       \* WORKER_INSTANCE_ID of each process
    BatchSize,      \* WORKER_BATCH_SIZE
    MaxRetries,     \* WORKER_MAX_RETRIES
    MaxFaults,      \* bound: crashes, failed statements, leases run out in use
    NoEvent,        \* no current event
    NoInstance      \* processor_instance IS NULL

ASSUME QueueAssumption ==
    /\ Pollers \subseteq Workers
    /\ DOMAIN Instance = Workers
    /\ \A w \in Workers : Instance[w] # NoInstance
    /\ NoEvent \notin Events
    /\ BatchSize \in Nat \ {0}
    /\ MaxRetries \in Nat \ {0}
    /\ MaxFaults \in Nat

VARIABLES
    status,         \* processing_status, "absent" before the INSERT
    kind,           \* what raw_message is, as far as processing tells
    created,        \* created_at, as the number of the INSERT transaction
    arrivals,       \* INSERT transactions so far
    retries,        \* retry_count
    retryAt,        \* next_retry_at: NULL, in the future, or passed
    lease,          \* processing_started_at: NULL, within the lease, or past it
    owner,          \* processor_instance
    report,         \* enrich_status of the parsed_events row of the event
    pc, batch, cur, \* a process: next statement, rest of the batch, current event
    found,          \* its result of parsedEventsRepository.findOne
    seen,           \* the retry_count it read in markRetryOrFailed
    claimant,       \* history: the process whose claim touched the row last
    faults          \* history: faults so far

rowVars  == <<status, kind, created, arrivals, retries, retryAt, lease, owner>>
procVars == <<pc, batch, cur, found, seen>>
vars     == <<rowVars, report, procVars, claimant, faults>>

Kinds     == {"readable", "noise", "forced"}
Statuses  == {"absent", "pending", "processing", "processed", "failed"}
Final     == {"processed", "failed"}
\* "settled" stands for enriched and failed.
Reports   == {"none", "pending", "no_match", "settled"}
Steps     == {"idle", "next", "find", "write", "mark", "readRetry", "writeRetry"}
NoRetry   == MaxRetries + 1     \* no retry_count in memory
Instances == {Instance[w] : w \in Workers}

TypeOK ==
    /\ status   \in [Events -> Statuses]
    /\ kind     \in [Events -> Kinds]
    /\ created  \in [Events -> Nat]
    /\ arrivals \in Nat
    /\ retries  \in [Events -> 0..MaxRetries]
    /\ retryAt  \in [Events -> {"null", "future", "passed"}]
    /\ lease    \in [Events -> {"null", "running", "expired"}]
    /\ owner    \in [Events -> Instances \cup {NoInstance}]
    /\ report   \in [Events -> Reports]
    /\ pc       \in [Workers -> Steps]
    /\ batch    \in [Workers -> SUBSET Events]
    /\ cur      \in [Workers -> Events \cup {NoEvent}]
    /\ \A w \in Workers : pc[w] \notin {"idle", "next"} <=> cur[w] # NoEvent
    /\ found    \in [Workers -> BOOLEAN]
    /\ seen     \in [Workers -> 0..NoRetry]
    /\ \A w \in Workers : pc[w] = "writeRetry" => seen[w] # NoRetry
    /\ claimant \in [Events -> Workers \cup {NoInstance}]
    /\ faults   \in 0..MaxFaults

Init ==
    /\ status   = [e \in Events |-> "absent"]
    /\ kind     = [e \in Events |-> "noise"]
    /\ created  = [e \in Events |-> 0]
    /\ arrivals = 0
    /\ retries  = [e \in Events |-> 0]
    /\ retryAt  = [e \in Events |-> "null"]
    /\ lease    = [e \in Events |-> "null"]
    /\ owner    = [e \in Events |-> NoInstance]
    /\ report   = [e \in Events |-> "none"]
    /\ pc       = [w \in Workers |-> "idle"]
    /\ batch    = [w \in Workers |-> {}]
    /\ cur      = [w \in Workers |-> NoEvent]
    /\ found    = [w \in Workers |-> FALSE]
    /\ seen     = [w \in Workers |-> NoRetry]
    /\ claimant = [e \in Events |-> NoInstance]
    /\ faults   = 0

-----------------------------------------------------------------------------
(* What the statements ask of a row.                                       *)

\* Mutated forms of Claimable: the lease is ignored; the
\* retry time is never compared with NOW().
ClaimableInLease(e) ==
    (status[e] = "pending" /\ retryAt[e] # "future") \/ status[e] = "processing"
ClaimableNoRetry(e) ==
    \/ status[e] = "pending" /\ retryAt[e] = "null"
    \/ status[e] = "processing" /\ lease[e] = "expired"

\* WHERE of the claim.
Claimable(e) ==
    \/ status[e] = "pending" /\ retryAt[e] # "future"
    \/ status[e] = "processing" /\ lease[e] = "expired"

\* ORDER BY created_at LIMIT: the batches the claim may return.
ClaimBatches ==
    LET ready == {e \in Events : Claimable(e)}
    IN  {C \in SUBSET ready :
            /\ C # {}
            /\ Cardinality(C) <= BatchSize
            /\ Cardinality(C) < BatchSize => C = ready
            /\ \A c \in C, d \in ready \ C : created[c] <= created[d]}

\* Mutated forms of Owns: without processor_instance, without processing_status.
OwnsAnyInstance(w, e) == e \in Events /\ status[e] = "processing"
OwnsAnyStatus(w, e)   == e \in Events /\ owner[e] = Instance[w]

\* WHERE of the three statements that settle or reschedule a row.
Owns(w, e) ==
    e \in Events /\ status[e] = "processing" /\ owner[e] = Instance[w]

\* What process w still has in memory to work on.
Load(w) == batch[w] \cup ({cur[w]} \ {NoEvent})

InUse(e) == \E w \in Workers : Owns(w, e) /\ e \in Load(w)

-----------------------------------------------------------------------------
(* The api stores one message, or a batch in one transaction.              *)
Ingest(S) ==
    /\ S # {}
    /\ \A e \in S : status[e] = "absent"
    /\ status'   = [e \in Events |-> IF e \in S THEN "pending" ELSE status[e]]
    /\ arrivals' = arrivals + 1
    /\ created'  = [e \in Events |-> IF e \in S THEN arrivals + 1 ELSE created[e]]
    /\ \E k \in [S -> Kinds] :
          kind' = [e \in Events |-> IF e \in S THEN k[e] ELSE kind[e]]
    /\ UNCHANGED <<retries, retryAt, lease, owner, report, procVars, claimant, faults>>

(* A cycle starts with the claim.  An idle process only: cycleInProgress.  *)
Claim(w) ==
    /\ pc[w] = "idle"
    /\ \E C \in ClaimBatches :
          /\ status'   = [e \in Events |-> IF e \in C THEN "processing" ELSE status[e]]
          /\ lease'    = [e \in Events |-> IF e \in C THEN "running" ELSE lease[e]]
          /\ owner'    = [e \in Events |-> IF e \in C THEN Instance[w] ELSE owner[e]]
          /\ claimant' = [e \in Events |-> IF e \in C THEN w ELSE claimant[e]]
          /\ batch'    = [batch EXCEPT ![w] = C]
    /\ pc' = [pc EXCEPT ![w] = "next"]
    /\ UNCHANGED <<kind, created, arrivals, retries, retryAt, report, cur, found, seen, faults>>

\* Mutated form of TakeEvent: a message without text is marked without persisting.
TakeEventSkipsNoise(w) ==
    /\ pc[w] = "next"
    /\ \E e \in batch[w] :
          /\ cur'   = [cur EXCEPT ![w] = e]
          /\ batch' = [batch EXCEPT ![w] = @ \ {e}]
          /\ pc'    = [pc EXCEPT ![w] = IF kind[e] = "noise" THEN "mark" ELSE "find"]
    /\ UNCHANGED <<rowVars, report, found, seen, claimant, faults>>

(* The loop takes the next claimed event, in the order RETURNING gave.  A  *)
(* "[fail-processing]" message throws before anything is written.          *)
TakeEvent(w) ==
    /\ pc[w] = "next"
    /\ \E e \in batch[w] :
          /\ cur'   = [cur EXCEPT ![w] = e]
          /\ batch' = [batch EXCEPT ![w] = @ \ {e}]
          /\ pc'    = [pc EXCEPT ![w] =
                          IF kind[e] = "forced" THEN "readRetry" ELSE "find"]
    /\ UNCHANGED <<rowVars, report, found, seen, claimant, faults>>

EndCycle(w) ==
    /\ pc[w] = "next"
    /\ batch[w] = {}
    /\ pc' = [pc EXCEPT ![w] = "idle"]
    /\ UNCHANGED <<rowVars, report, batch, cur, found, seen, claimant, faults>>

FindReport(w) ==
    /\ pc[w] = "find"
    /\ found' = [found EXCEPT ![w] = report[cur[w]] # "none"]
    /\ pc'    = [pc EXCEPT ![w] = "write"]
    /\ UNCHANGED <<rowVars, report, batch, cur, seen, claimant, faults>>

\* The UPDATE or INSERT of persistParsed.  Neither looks at the raw event.
StoreReport(e) ==
    report' = [report EXCEPT ![e] =
                  IF kind[e] = "readable" THEN "pending" ELSE "no_match"]

\* INSERT of a second row for the event: raw_event_id is UNIQUE.
InsertConflict(w) == ~found[w] /\ report[cur[w]] # "none"

WriteReport(w) ==
    /\ pc[w] = "write"
    /\ \/ /\ InsertConflict(w)
          /\ pc' = [pc EXCEPT ![w] = "readRetry"]
          /\ UNCHANGED report
       \/ /\ ~InsertConflict(w)
          /\ StoreReport(cur[w])
          /\ pc' = [pc EXCEPT ![w] = "mark"]
    /\ UNCHANGED <<rowVars, batch, cur, found, seen, claimant, faults>>

\* The guarded UPDATE to processed: no row is touched by another than its owner.
SetProcessed(w) ==
    LET e == cur[w]
    IN  IF Owns(w, e)
        THEN /\ status'  = [status EXCEPT ![e] = "processed"]
             /\ lease'   = [lease EXCEPT ![e] = "null"]
             /\ retryAt' = [retryAt EXCEPT ![e] = "null"]
        ELSE UNCHANGED <<status, lease, retryAt>>

MarkProcessed(w) ==
    /\ pc[w] = "mark"
    /\ SetProcessed(w)
    /\ IF Owns(w, cur[w])
       THEN /\ pc'  = [pc EXCEPT ![w] = "next"]
            /\ cur' = [cur EXCEPT ![w] = NoEvent]
       ELSE /\ pc'  = [pc EXCEPT ![w] = "readRetry"]
            /\ UNCHANGED cur
    /\ UNCHANGED <<kind, created, arrivals, retries, owner, report,
                   batch, found, seen, claimant, faults>>

(* markRetryOrFailed, its SELECT: a row that is no longer ours is left.    *)
ReadRetryCount(w) ==
    /\ pc[w] = "readRetry"
    /\ IF Owns(w, cur[w])
       THEN /\ seen' = [seen EXCEPT ![w] = retries[cur[w]]]
            /\ pc'   = [pc EXCEPT ![w] = "writeRetry"]
            /\ UNCHANGED cur
       ELSE /\ pc'   = [pc EXCEPT ![w] = "next"]
            /\ cur'  = [cur EXCEPT ![w] = NoEvent]
            /\ UNCHANGED seen
    /\ UNCHANGED <<rowVars, report, batch, found, claimant, faults>>

\* Mutated forms of Reschedule: one retry too many; the count is not raised.
RescheduleOnceMore(w) ==
    /\ seen[w] <= MaxRetries
    /\ status'  = [status EXCEPT ![cur[w]] = "pending"]
    /\ retries' = [retries EXCEPT ![cur[w]] = seen[w] + 1]
    /\ retryAt' = [retryAt EXCEPT ![cur[w]] = "future"]
    /\ lease'   = [lease EXCEPT ![cur[w]] = "null"]
RescheduleUncounted(w) ==
    /\ seen[w] + 1 <= MaxRetries
    /\ status'  = [status EXCEPT ![cur[w]] = "pending"]
    /\ retryAt' = [retryAt EXCEPT ![cur[w]] = "future"]
    /\ lease'   = [lease EXCEPT ![cur[w]] = "null"]
    /\ UNCHANGED retries

\* markRetryOrFailed, its UPDATE, decided by the count read before.
Reschedule(w) ==
    LET e == cur[w]
    IN  /\ seen[w] + 1 <= MaxRetries
        /\ status'  = [status EXCEPT ![e] = "pending"]
        /\ retries' = [retries EXCEPT ![e] = seen[w] + 1]
        /\ retryAt' = [retryAt EXCEPT ![e] = "future"]
        /\ lease'   = [lease EXCEPT ![e] = "null"]

\* Mutated form of GiveUp: the last retry counts as one too many.
GiveUpEarly(w) ==
    /\ seen[w] + 1 >= MaxRetries
    /\ status'  = [status EXCEPT ![cur[w]] = "failed"]
    /\ retryAt' = [retryAt EXCEPT ![cur[w]] = "null"]
    /\ lease'   = [lease EXCEPT ![cur[w]] = "null"]
    /\ UNCHANGED retries

GiveUp(w) ==
    LET e == cur[w]
    IN  /\ seen[w] + 1 > MaxRetries
        /\ status'  = [status EXCEPT ![e] = "failed"]
        /\ retryAt' = [retryAt EXCEPT ![e] = "null"]
        /\ lease'   = [lease EXCEPT ![e] = "null"]
        /\ UNCHANGED retries

WriteRetry(w) ==
    /\ pc[w] = "writeRetry"
    /\ IF Owns(w, cur[w])
       THEN Reschedule(w) \/ GiveUp(w)
       ELSE UNCHANGED <<status, retries, retryAt, lease>>
    /\ pc'   = [pc EXCEPT ![w] = "next"]
    /\ cur'  = [cur EXCEPT ![w] = NoEvent]
    /\ seen' = [seen EXCEPT ![w] = NoRetry]
    /\ UNCHANGED <<kind, created, arrivals, owner, report, batch, found, claimant, faults>>

-----------------------------------------------------------------------------
(* Time and faults. *)

RetryComesDue(e) ==
    /\ retryAt[e] = "future"
    /\ retryAt' = [retryAt EXCEPT ![e] = "passed"]
    /\ UNCHANGED <<status, kind, created, arrivals, retries, lease, owner,
                   report, procVars, claimant, faults>>

ExpireLease(e) ==
    /\ lease[e] = "running"
    /\ lease' = [lease EXCEPT ![e] = "expired"]
    /\ UNCHANGED <<status, kind, created, arrivals, retries, retryAt, owner,
                   report, procVars, claimant>>

\* The lease of a row nobody works on any more.
OrphanExpires(e) == ~InUse(e) /\ ExpireLease(e) /\ UNCHANGED faults

Fault == faults < MaxFaults /\ faults' = faults + 1

\* A batch so slow that the lease of one of its rows runs out before its turn.
LeaseRunsOut(e) == InUse(e) /\ ExpireLease(e) /\ Fault

\* processEvent throws because a statement failed, or because its reply was
\* lost after it had been applied.
StatementFails(w) ==
    /\ pc[w] \in {"find", "write", "mark"}
    /\ \/ UNCHANGED <<status, retryAt, lease, report>>
       \/ pc[w] = "write" /\ ~InsertConflict(w) /\ StoreReport(cur[w])
                          /\ UNCHANGED <<status, retryAt, lease>>
       \/ pc[w] = "mark"  /\ SetProcessed(w) /\ UNCHANGED report
    /\ pc' = [pc EXCEPT ![w] = "readRetry"]
    /\ Fault
    /\ UNCHANGED <<kind, created, arrivals, retries, owner, batch, cur, found, seen, claimant>>

\* The process dies and is restarted, or markRetryOrFailed throws out of the
\* loop: either way the rest of the batch is forgotten.
Crash(w) ==
    /\ pc[w] # "idle"
    /\ pc'    = [pc EXCEPT ![w] = "idle"]
    /\ batch' = [batch EXCEPT ![w] = {}]
    /\ cur'   = [cur EXCEPT ![w] = NoEvent]
    /\ found' = [found EXCEPT ![w] = FALSE]
    /\ seen'  = [seen EXCEPT ![w] = NoRetry]
    /\ Fault
    /\ UNCHANGED <<rowVars, report, claimant>>

-----------------------------------------------------------------------------
(* The other writers of a report.  None of them looks at the raw event's   *)
(* lease or owner.                                                         *)

\* backfillProcessedEvents parses a processed event again.  Its SELECT, the
\* findOne and the UPDATE by id of persistParsed are one step here: processed
\* is final and the report that was found stays.
Backfill(e) ==
    /\ status[e] = "processed"
    /\ report[e] # "none"
    /\ StoreReport(e)
    /\ UNCHANGED <<rowVars, procVars, claimant, faults>>

\* reEnrichEvent or reEnrichBatch sends a report to enrichment again.
ReEnrichReport(e) ==
    /\ report[e] # "none"
    /\ report' = [report EXCEPT ![e] = "pending"]
    /\ UNCHANGED <<rowVars, procVars, claimant, faults>>

\* The enrichment process writes the outcome of an attempt, by id alone: a
\* poller with a record selected long ago writes over a report parsed since.
EnrichReport(e) ==
    /\ report[e] # "none"
    /\ \E outcome \in {"settled", "pending"} :
          report' = [report EXCEPT ![e] = outcome]
    /\ UNCHANGED <<rowVars, procVars, claimant, faults>>

OtherWriter(e) == Backfill(e) \/ ReEnrichReport(e) \/ EnrichReport(e)

-----------------------------------------------------------------------------
\* The steps of a cycle after its claim.
InCycle(w) ==
    \/ TakeEvent(w) \/ EndCycle(w)
    \/ FindReport(w) \/ WriteReport(w) \/ MarkProcessed(w)
    \/ ReadRetryCount(w) \/ WriteRetry(w)

Next ==
    \/ \E S \in SUBSET Events : Ingest(S)
    \/ \E w \in Workers : Claim(w) \/ InCycle(w) \/ StatementFails(w) \/ Crash(w)
    \/ \E e \in Events :
          RetryComesDue(e) \/ OrphanExpires(e) \/ LeaseRunsOut(e) \/ OtherWriter(e)

Spec == Init /\ [][Next]_vars

\* The poll timer fires for ever, a cycle that started goes on, time passes.
\* Nobody has to call the dev trigger, store a message or fail.
Fairness ==
    /\ \A w \in Pollers : WF_vars(Claim(w))
    /\ \A w \in Workers : WF_vars(InCycle(w))
    /\ \A e \in Events  : WF_vars(RetryComesDue(e)) /\ WF_vars(OrphanExpires(e))

FairSpec == Spec /\ Fairness
-----------------------------------------------------------------------------
(* Properties. *)

DistinctInstances == \A v, w \in Workers : Instance[v] = Instance[w] => v = w

(* An event is processed only once its parsed_events row exists, whatever  *)
(* stale workers, lost replies and crashes did on the way (processEvent    *)
(* persists first and marks second).                                       *)
ProcessedHasReport ==
    \A e \in Events : status[e] = "processed" => report[e] # "none"

(* An event is failed only with its retry budget spent: no interleaving of *)
(* SELECT retry_count with other claims makes markRetryOrFailed give up    *)
(* early.                                                                  *)
FailedSpentRetries ==
    \A e \in Events : status[e] = "failed" => retries[e] = MaxRetries

(* A process about to write a retry decision that will be applied decides  *)
(* on the current retry_count, though it read it in an earlier statement.  *)
DecisionIsCurrent ==
    \A w \in Workers :
        pc[w] = "writeRetry" /\ Owns(w, cur[w]) => seen[w] = retries[cur[w]]

(* As long as nothing failed and no lease ran out under its holder, no two *)
(* processes have the same event in memory.                                *)
HeldOnce ==
    faults = 0 => \A v, w \in Workers : v # w => Load(v) \cap Load(w) = {}

(* processed and failed are final: no stale worker revives or re-marks.    *)
FinalIsFinal ==
    [][\A e \in Events : status[e] \in Final => status'[e] = status[e]]_vars

(* Only the process that claimed a row last takes it out of 'processing'.  *)
OnlyClaimantSettles ==
    [][\A e \in Events, w \in Workers :
          /\ status[e] = "processing" /\ status'[e] # "processing"
          /\ cur[w] = e /\ pc'[w] # pc[w]
          => claimant[e] = w]_vars

(* As long as nothing failed and no lease ran out under its holder, a      *)
(* worker writes a report only where there is none: persistParsed asks for *)
(* no ownership, and only the backfill is meant to parse over a report     *)
(* that enrichment or an administrator has worked on.                      *)
WorkersParseOnce ==
    [][\A e \in Events, w \in Workers :
          faults = 0 /\ pc'[w] # pc[w] /\ report'[e] # report[e]
          => report[e] = "none"]_vars

(* The queue implements the lifecycle of a single event.                   *)
Lifecycle == INSTANCE EventLifecycle WITH
    Events <- Events, MaxRetries <- MaxRetries,
    status <- status, retries <- retries
LifecycleSpec == Lifecycle!Spec

(* Every stored event ends processed or failed, through crashes, lost      *)
(* replies, orphaned leases and retries.                                   *)
EveryEventSettles == Lifecycle!Settles
=============================================================================
