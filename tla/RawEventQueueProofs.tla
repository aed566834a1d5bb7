------------------------ MODULE RawEventQueueProofs ------------------------
(***************************************************************************)
(* Theorems about RawEventQueue for any set of events and of workers, any  *)
(* batch size, retry budget and number of faults.                          *)
(***************************************************************************)
EXTENDS RawEventQueue, TLAPS

(* Type correctness: every column and every value in a process's memory    *)
(* keeps to its range; retry_count never passes WORKER_MAX_RETRIES.        *)
LEMMA TypeInit == Init => TypeOK
  BY QueueAssumption DEF QueueAssumption, Init, TypeOK, Statuses, Kinds, Reports,
                         Steps, NoRetry, Instances

\* Whoever else writes a report: the row of the event and the workers stay as
\* they are, and a report that is there stays.
LEMMA OthersWriteReports ==
    ASSUME NEW e \in Events, OtherWriter(e)
    PROVE  /\ UNCHANGED <<rowVars, procVars, claimant, faults>>
           /\ report[e] # "none"
           /\ \E new \in Reports \ {"none"} : report' = [report EXCEPT ![e] = new]
  BY DEF OtherWriter, Backfill, StoreReport, ReEnrichReport, EnrichReport, Reports

LEMMA TypeStep == TypeOK /\ [Next]_vars => TypeOK'
<1> SUFFICES ASSUME TypeOK, [Next]_vars PROVE TypeOK'
  OBVIOUS
<1> USE QueueAssumption DEF QueueAssumption
<1>1. ASSUME NEW S \in SUBSET Events, Ingest(S) PROVE TypeOK'
  <2>1. PICK k \in [S -> Kinds] :
           kind' = [e \in Events |-> IF e \in S THEN k[e] ELSE kind[e]]
    BY <1>1 DEF Ingest
  <2>2. kind' \in [Events -> Kinds]
    BY <2>1 DEF TypeOK
  <2>3. /\ created' \in [Events -> Nat]
        /\ status' \in [Events -> Statuses]
        /\ arrivals' \in Nat
    BY <1>1 DEF TypeOK, Ingest, Statuses
  <2> QED
    BY <1>1, <2>2, <2>3 DEF TypeOK, Ingest, procVars
<1>2. ASSUME NEW w \in Workers, Claim(w) PROVE TypeOK'
  <2>1. PICK C \in ClaimBatches :
          /\ status'   = [e \in Events |-> IF e \in C THEN "processing" ELSE status[e]]
          /\ lease'    = [e \in Events |-> IF e \in C THEN "running" ELSE lease[e]]
          /\ owner'    = [e \in Events |-> IF e \in C THEN Instance[w] ELSE owner[e]]
          /\ claimant' = [e \in Events |-> IF e \in C THEN w ELSE claimant[e]]
          /\ batch'    = [batch EXCEPT ![w] = C]
    BY <1>2 DEF Claim
  <2>2. C \in SUBSET Events
    BY DEF ClaimBatches
  <2>3. batch' \in [Workers -> SUBSET Events]
    BY <2>1, <2>2 DEF TypeOK
  <2>4. Instance[w] \in Instances
    BY DEF Instances
  <2>5. /\ status' \in [Events -> Statuses]
        /\ lease' \in [Events -> {"null", "running", "expired"}]
        /\ owner' \in [Events -> Instances \cup {NoInstance}]
        /\ claimant' \in [Events -> Workers \cup {NoInstance}]
    BY <2>1, <2>4 DEF TypeOK, Statuses
  <2>6. /\ pc' \in [Workers -> Steps]
        /\ \A v \in Workers : pc'[v] \notin {"idle", "next"} <=> cur'[v] # NoEvent
        /\ \A v \in Workers : pc'[v] = "writeRetry" => seen'[v] # NoRetry
    BY <1>2 DEF TypeOK, Claim, Steps
  <2> QED
    BY <1>2, <2>3, <2>5, <2>6 DEF TypeOK, Claim
<1>3. ASSUME NEW w \in Workers, TakeEvent(w) PROVE TypeOK'
  BY <1>3 DEF TypeOK, TakeEvent, rowVars, Steps
<1>4. ASSUME NEW w \in Workers, EndCycle(w) PROVE TypeOK'
  BY <1>4 DEF TypeOK, EndCycle, rowVars, Steps
<1>5. ASSUME NEW w \in Workers, FindReport(w) PROVE TypeOK'
  BY <1>5 DEF TypeOK, FindReport, rowVars, Steps
<1>6. ASSUME NEW w \in Workers, WriteReport(w) PROVE TypeOK'
  BY <1>6 DEF TypeOK, WriteReport, StoreReport, rowVars, Steps, Reports
<1>7. ASSUME NEW w \in Workers, MarkProcessed(w) PROVE TypeOK'
  BY <1>7 DEF TypeOK, MarkProcessed, SetProcessed, Owns, Steps, Statuses
<1>8. ASSUME NEW w \in Workers, ReadRetryCount(w) PROVE TypeOK'
  BY <1>8 DEF TypeOK, ReadRetryCount, Owns, rowVars, Steps, NoRetry
<1>9. ASSUME NEW w \in Workers, WriteRetry(w) PROVE TypeOK'
  <2>1. /\ status' \in [Events -> Statuses]
        /\ retryAt' \in [Events -> {"null", "future", "passed"}]
        /\ lease' \in [Events -> {"null", "running", "expired"}]
    BY <1>9 DEF TypeOK, WriteRetry, Reschedule, GiveUp, Owns, Statuses
  <2>2. retries' \in [Events -> 0..MaxRetries]
    <3>1. CASE retries' = retries
      BY <3>1 DEF TypeOK
    <3>2. CASE Owns(w, cur[w]) /\ Reschedule(w)
      <4>1. seen[w] + 1 \in 0..MaxRetries
        BY <3>2 DEF TypeOK, Reschedule, NoRetry
      <4> QED
        BY <3>2, <4>1 DEF TypeOK, Reschedule
    <3> QED
      BY <1>9, <3>1, <3>2 DEF WriteRetry, GiveUp
  <2>3. seen' \in [Workers -> 0..NoRetry]
    BY <1>9 DEF TypeOK, WriteRetry, NoRetry
  <2>4. /\ pc' \in [Workers -> Steps]
        /\ cur' \in [Workers -> Events \cup {NoEvent}]
        /\ \A v \in Workers : pc'[v] \notin {"idle", "next"} <=> cur'[v] # NoEvent
        /\ \A v \in Workers : pc'[v] = "writeRetry" => seen'[v] # NoRetry
    BY <1>9 DEF TypeOK, WriteRetry, Steps
  <2> QED
    BY <1>9, <2>1, <2>2, <2>3, <2>4 DEF TypeOK, WriteRetry
<1>10. ASSUME NEW e \in Events, RetryComesDue(e) PROVE TypeOK'
  BY <1>10 DEF TypeOK, RetryComesDue, procVars
<1>11. ASSUME NEW e \in Events, OrphanExpires(e) PROVE TypeOK'
  BY <1>11 DEF TypeOK, OrphanExpires, ExpireLease, procVars
<1>12. ASSUME NEW e \in Events, LeaseRunsOut(e) PROVE TypeOK'
  BY <1>12 DEF TypeOK, LeaseRunsOut, ExpireLease, Fault, procVars
<1>13. ASSUME NEW w \in Workers, StatementFails(w) PROVE TypeOK'
  BY <1>13 DEF TypeOK, StatementFails, StoreReport, SetProcessed, Owns, Fault,
               Steps, Statuses, Reports
<1>14. ASSUME NEW w \in Workers, Crash(w) PROVE TypeOK'
  BY <1>14 DEF TypeOK, Crash, Fault, rowVars, Steps, NoRetry
<1>15. ASSUME NEW e \in Events, OtherWriter(e) PROVE TypeOK'
  BY <1>15, OthersWriteReports DEF TypeOK, rowVars, procVars
<1>16. CASE UNCHANGED vars
  BY <1>16 DEF TypeOK, vars, rowVars, procVars
<1> QED
  BY <1>1, <1>2, <1>3, <1>4, <1>5, <1>6, <1>7, <1>8, <1>9, <1>10, <1>11, <1>12,
     <1>13, <1>14, <1>15, <1>16 DEF Next, InCycle

THEOREM TypeCorrect == Spec => []TypeOK
  BY TypeInit, TypeStep, PTL DEF Spec

-----------------------------------------------------------------------------
(* processed and failed are final: the claim takes only pending and        *)
(* processing rows, and every other statement asks for 'processing'.       *)
LEMMA FinalStep ==
    ASSUME TypeOK, [Next]_vars, NEW e \in Events, status[e] \in Final
    PROVE  status'[e] = status[e]
<1> USE DEF TypeOK, Final
<1>1. ASSUME NEW S \in SUBSET Events, Ingest(S) PROVE status'[e] = status[e]
  BY <1>1 DEF Ingest
<1>2. ASSUME NEW w \in Workers, Claim(w) PROVE status'[e] = status[e]
  <2>1. PICK C \in ClaimBatches :
          status' = [d \in Events |-> IF d \in C THEN "processing" ELSE status[d]]
    BY <1>2 DEF Claim
  <2>2. e \notin C
    BY DEF ClaimBatches, Claimable
  <2> QED
    BY <2>1, <2>2
<1>3. ASSUME NEW w \in Workers, InCycle(w) PROVE status'[e] = status[e]
  BY <1>3 DEF InCycle, TakeEvent, EndCycle, FindReport, WriteReport, MarkProcessed,
              SetProcessed, ReadRetryCount, WriteRetry, Reschedule, GiveUp, Owns, rowVars
<1>4. ASSUME NEW w \in Workers, StatementFails(w) PROVE status'[e] = status[e]
  BY <1>4 DEF StatementFails, SetProcessed, Owns
<1>5. ASSUME NEW w \in Workers, Crash(w) PROVE status'[e] = status[e]
  BY <1>5 DEF Crash, rowVars
<1>6. ASSUME NEW d \in Events,
             RetryComesDue(d) \/ OrphanExpires(d) \/ LeaseRunsOut(d) \/ OtherWriter(d)
      PROVE  status'[e] = status[e]
  BY <1>6, OthersWriteReports DEF RetryComesDue, OrphanExpires, LeaseRunsOut, ExpireLease, rowVars
<1>7. CASE UNCHANGED vars
  BY <1>7 DEF vars, rowVars
<1> QED
  BY <1>1, <1>2, <1>3, <1>4, <1>5, <1>6, <1>7 DEF Next

(* No stale worker revives or re-marks a settled event.                    *)
THEOREM FinalCorrect == Spec => FinalIsFinal
<1>1. TypeOK /\ [Next]_vars => [\A e \in Events : status[e] \in Final => status'[e] = status[e]]_vars
  BY FinalStep
<1> QED
  BY <1>1, TypeCorrect, PTL DEF Spec, FinalIsFinal

-----------------------------------------------------------------------------
(* A processed event has its report: a process that is about to mark has   *)
(* stored the report before, and reports are never deleted.                *)
ReportBeforeMark ==
    \A w \in Workers : pc[w] = "mark" => report[cur[w]] # "none"

ReportInv == ProcessedHasReport /\ ReportBeforeMark

LEMMA ReportsStay ==
    ASSUME TypeOK, [Next]_vars, NEW e \in Events, report[e] # "none"
    PROVE  report'[e] # "none"
<1> USE DEF TypeOK
<1>1. ASSUME NEW w \in Workers, StoreReport(cur[w]), cur[w] \in Events PROVE report'[e] # "none"
  BY <1>1 DEF StoreReport
<1>2. ASSUME NEW w \in Workers, WriteReport(w) PROVE report'[e] # "none"
  <2>1. cur[w] \in Events
    BY <1>2 DEF WriteReport
  <2> QED
    BY <1>2, <2>1, <1>1 DEF WriteReport
<1>3. ASSUME NEW w \in Workers, StatementFails(w) PROVE report'[e] # "none"
  <2>1. cur[w] \in Events
    BY <1>3 DEF StatementFails
  <2> QED
    BY <1>3, <2>1, <1>1 DEF StatementFails
<1>4. ASSUME NEW d \in Events, OtherWriter(d) PROVE report'[e] # "none"
  BY <1>4, OthersWriteReports
<1>5. CASE UNCHANGED report
  BY <1>5
<1> QED
  BY <1>2, <1>3, <1>4, <1>5
  DEF Next, InCycle, Ingest, Claim, TakeEvent, EndCycle, FindReport, MarkProcessed,
      ReadRetryCount, WriteRetry, Crash, RetryComesDue, OrphanExpires, LeaseRunsOut,
      ExpireLease, vars

LEMMA ReportInit == Init => ReportInv
  BY DEF Init, ReportInv, ProcessedHasReport, ReportBeforeMark

LEMMA ReportStep == TypeOK /\ ReportInv /\ [Next]_vars => ReportInv'
<1> SUFFICES ASSUME TypeOK, ReportInv, [Next]_vars PROVE ReportInv'
  OBVIOUS
<1> USE DEF TypeOK
<1>1. ASSUME NEW w \in Workers, pc'[w] = "mark" PROVE report'[cur'[w]] # "none"
  <2>1. CASE pc[w] = "mark" /\ cur'[w] = cur[w]
    <3>1. cur[w] \in Events /\ report[cur[w]] # "none"
      BY <2>1 DEF ReportInv, ReportBeforeMark
    <3> QED
      BY <2>1, <3>1, ReportsStay
  <2>2. CASE WriteReport(w)
    <3>1. cur[w] \in Events
      BY <2>2 DEF WriteReport
    <3>2. StoreReport(cur[w]) /\ cur' = cur
      BY <2>2, <1>1 DEF WriteReport
    <3> QED
      BY <3>1, <3>2 DEF StoreReport
  <2>3. ASSUME NEW v \in Workers, WriteReport(v), v # w
        PROVE  pc[w] = "mark" /\ cur'[w] = cur[w]
    BY <2>3, <1>1 DEF WriteReport
  <2> QED
    BY <1>1, <2>1, <2>2, <2>3, OthersWriteReports
    DEF Next, InCycle, Ingest, Claim, TakeEvent, EndCycle, FindReport, MarkProcessed,
        ReadRetryCount, WriteRetry, StatementFails, Crash, RetryComesDue, OrphanExpires,
        LeaseRunsOut, ExpireLease, procVars, vars
<1>2. ASSUME NEW e \in Events, status'[e] = "processed" PROVE report'[e] # "none"
  <2>1. CASE status[e] = "processed"
    BY <2>1, ReportsStay DEF ReportInv, ProcessedHasReport
  <2>2. CASE status[e] # "processed"
    <3>1. PICK w \in Workers : pc[w] = "mark" /\ cur[w] = e
      <4>1. ASSUME NEW S \in SUBSET Events, Ingest(S) PROVE FALSE
        BY <4>1, <1>2, <2>2 DEF Ingest
      <4>2. ASSUME NEW w \in Workers, Claim(w) PROVE FALSE
        BY <4>2, <1>2, <2>2 DEF Claim
      <4>3. ASSUME NEW w \in Workers, WriteRetry(w) PROVE FALSE
        BY <4>3, <1>2, <2>2 DEF WriteRetry, Reschedule, GiveUp
      <4>4. ASSUME NEW w \in Workers, MarkProcessed(w) \/ StatementFails(w)
            PROVE  pc[w] = "mark" /\ cur[w] = e
        BY <4>4, <1>2, <2>2 DEF MarkProcessed, StatementFails, SetProcessed
      <4>5. CASE UNCHANGED status
        BY <4>5, <1>2, <2>2
      <4> QED
        BY <4>1, <4>2, <4>3, <4>4, <4>5, OthersWriteReports
        DEF Next, InCycle, TakeEvent, EndCycle, FindReport, WriteReport, ReadRetryCount,
            Crash, RetryComesDue, OrphanExpires, LeaseRunsOut, ExpireLease,
            rowVars, vars
    <3> QED
      BY <3>1, ReportsStay DEF ReportInv, ReportBeforeMark
  <2> QED
    BY <2>1, <2>2
<1> QED
  BY <1>1, <1>2 DEF ReportInv, ProcessedHasReport, ReportBeforeMark

(* No message is lost between processing and parsing: whatever the         *)
(* interleaving of claims, lost replies and crashes, a processed event has *)
(* its parsed_events row.                                                  *)
THEOREM ProcessedCorrect == Spec => []ProcessedHasReport
<1>1. ReportInv => ProcessedHasReport
  BY DEF ReportInv
<1> QED
  BY <1>1, TypeCorrect, ReportInit, ReportStep, PTL DEF Spec

-----------------------------------------------------------------------------
(* The retry budget, when no two processes share an instance id.  Between  *)
(* the SELECT and the UPDATE of markRetryOrFailed the row may be reclaimed *)
(* and rescheduled by others, but then it has another owner: as long as    *)
(* the UPDATE will be applied, the count that was read is the count there. *)
BudgetInv == DecisionIsCurrent /\ FailedSpentRetries

LEMMA BudgetInit == Init => BudgetInv
  BY DEF Init, BudgetInv, DecisionIsCurrent, FailedSpentRetries

\* Only WriteRetry changes retries, and only of a row that its process owns.
LEMMA RetriesChange ==
    ASSUME TypeOK, [Next]_vars, NEW e \in Events, retries'[e] # retries[e]
    PROVE  \E w \in Workers : WriteRetry(w) /\ cur[w] = e /\ Owns(w, e)
<1>1. PICK w \in Workers : WriteRetry(w)
  BY OthersWriteReports DEF Next, InCycle, Ingest, Claim, TakeEvent, EndCycle, FindReport, WriteReport,
         MarkProcessed, ReadRetryCount, StatementFails, Crash, RetryComesDue,
         OrphanExpires, LeaseRunsOut, ExpireLease, rowVars, vars
<1>2. cur[w] = e /\ Owns(w, cur[w])
  BY <1>1 DEF WriteRetry, Reschedule, GiveUp, TypeOK
<1> QED
  BY <1>1, <1>2

\* A process owns a row after a step only if it did before, or has just claimed it.
LEMMA OwnershipComesFromClaim ==
    ASSUME TypeOK, [Next]_vars, NEW w \in Workers, NEW e \in Events,
           ~Claim(w), DistinctInstances, Owns(w, e)'
    PROVE  Owns(w, e)
<1> USE DEF TypeOK, Owns
<1>1. ASSUME NEW S \in SUBSET Events, Ingest(S) PROVE Owns(w, e)
  BY <1>1 DEF Ingest
<1>2. ASSUME NEW v \in Workers, Claim(v) PROVE Owns(w, e)
  <2>1. PICK C \in ClaimBatches :
          /\ status' = [d \in Events |-> IF d \in C THEN "processing" ELSE status[d]]
          /\ owner'  = [d \in Events |-> IF d \in C THEN Instance[v] ELSE owner[d]]
    BY <1>2 DEF Claim
  <2>2. Instance[v] # Instance[w]
    BY <1>2 DEF DistinctInstances
  <2> QED
    BY <2>1, <2>2
<1>3. ASSUME NEW v \in Workers, InCycle(v) PROVE Owns(w, e)
  BY <1>3 DEF InCycle, TakeEvent, EndCycle, FindReport, WriteReport, MarkProcessed,
              SetProcessed, ReadRetryCount, WriteRetry, Reschedule, GiveUp, rowVars
<1>4. ASSUME NEW v \in Workers, StatementFails(v) PROVE Owns(w, e)
  BY <1>4 DEF StatementFails, SetProcessed
<1>5. ASSUME NEW v \in Workers, Crash(v) PROVE Owns(w, e)
  BY <1>5 DEF Crash, rowVars
<1>6. ASSUME NEW d \in Events,
             RetryComesDue(d) \/ OrphanExpires(d) \/ LeaseRunsOut(d) \/ OtherWriter(d)
      PROVE  Owns(w, e)
  BY <1>6, OthersWriteReports DEF RetryComesDue, OrphanExpires, LeaseRunsOut, ExpireLease, rowVars
<1>7. CASE UNCHANGED vars
  BY <1>7 DEF vars, rowVars
<1> QED
  BY <1>1, <1>2, <1>3, <1>4, <1>5, <1>6, <1>7 DEF Next

LEMMA DecisionStep ==
    ASSUME TypeOK, BudgetInv, [Next]_vars, DistinctInstances
    PROVE  DecisionIsCurrent'
<1> USE DEF TypeOK
<1> SUFFICES ASSUME NEW w \in Workers, pc'[w] = "writeRetry", Owns(w, cur[w])'
             PROVE  seen'[w] = retries'[cur'[w]]
  BY DEF DecisionIsCurrent
<1>1. CASE ReadRetryCount(w)
  <2>1. Owns(w, cur[w]) /\ cur' = cur /\ seen'[w] = retries[cur[w]] /\ retries' = retries
    BY <1>1 DEF ReadRetryCount, rowVars
  <2> QED
    BY <2>1
<1>2. CASE ~ReadRetryCount(w)
  <2>1. pc[w] = "writeRetry" /\ cur'[w] = cur[w] /\ seen'[w] = seen[w] /\ ~Claim(w) /\ ~WriteRetry(w)
    BY <1>2, OthersWriteReports DEF Next, InCycle, Ingest, Claim, TakeEvent, EndCycle, FindReport, WriteReport,
         MarkProcessed, WriteRetry, ReadRetryCount, StatementFails, Crash, RetryComesDue,
         OrphanExpires, LeaseRunsOut, ExpireLease, rowVars, procVars, vars
  <2>2. cur[w] \in Events
    BY <2>1
  <2>3. Owns(w, cur[w])'  => Owns(w, cur[w])
    <3> DEFINE e == cur[w]
    <3>1. Owns(w, cur[w])' => status'[e] = "processing" /\ owner'[e] = Instance[w]
      BY <2>1, <2>2 DEF Owns
    <3>2. (status'[e] = "processing" /\ owner'[e] = Instance[w]) => Owns(w, e)
      BY <2>1, <2>2, OwnershipComesFromClaim DEF Owns
    <3> QED
      BY <3>1, <3>2
  <2>4. seen[w] = retries[cur[w]]
    BY <2>1, <2>3 DEF BudgetInv, DecisionIsCurrent
  <2>5. retries'[cur[w]] = retries[cur[w]]
    <3> SUFFICES ASSUME retries'[cur[w]] # retries[cur[w]] PROVE FALSE
      OBVIOUS
    <3>1. PICK v \in Workers : WriteRetry(v) /\ cur[v] = cur[w] /\ Owns(v, cur[w])
      BY <2>2, RetriesChange
    <3>2. v # w
      BY <3>1, <2>1
    <3>3. Instance[v] = Instance[w]
      BY <3>1, <2>3 DEF Owns
    <3> QED
      BY <3>2, <3>3 DEF DistinctInstances
  <2> QED
    BY <2>1, <2>4, <2>5
<1> QED
  BY <1>1, <1>2

\* An event that is given up has its budget spent.
LEMMA GiveUpSpent ==
    ASSUME TypeOK, BudgetInv, [Next]_vars, NEW e \in Events,
           status[e] # "failed", status'[e] = "failed"
    PROVE  retries[e] = MaxRetries /\ retries'[e] = retries[e]
<1>1. PICK w \in Workers : WriteRetry(w)
  <2>1. ASSUME NEW S \in SUBSET Events, Ingest(S) PROVE FALSE
    BY <2>1 DEF Ingest, TypeOK
  <2>2. ASSUME NEW w \in Workers, Claim(w) PROVE FALSE
    BY <2>2 DEF Claim, TypeOK
  <2>3. ASSUME NEW w \in Workers, MarkProcessed(w) \/ StatementFails(w) PROVE FALSE
    BY <2>3 DEF MarkProcessed, StatementFails, SetProcessed, TypeOK
  <2> QED
    BY <2>1, <2>2, <2>3, OthersWriteReports
    DEF Next, InCycle, TakeEvent, EndCycle, FindReport, WriteReport, ReadRetryCount,
        Crash, RetryComesDue, OrphanExpires, LeaseRunsOut, ExpireLease,
        rowVars, vars
<1>2. cur[w] = e /\ Owns(w, cur[w]) /\ GiveUp(w) /\ pc[w] = "writeRetry"
  BY <1>1 DEF WriteRetry, Reschedule, GiveUp, TypeOK
<1>3. seen[w] = retries[e]
  BY <1>2 DEF BudgetInv, DecisionIsCurrent
<1>4. retries[e] + 1 > MaxRetries /\ retries[e] \in 0..MaxRetries
  BY <1>2, <1>3 DEF GiveUp, TypeOK
<1>5. retries[e] = MaxRetries
  BY <1>4, QueueAssumption DEF QueueAssumption
<1>6. retries' = retries
  BY <1>2 DEF GiveUp
<1> QED
  BY <1>5, <1>6

LEMMA FailedStep ==
    ASSUME TypeOK, BudgetInv, [Next]_vars
    PROVE  FailedSpentRetries'
<1> SUFFICES ASSUME NEW e \in Events, status'[e] = "failed" PROVE retries'[e] = MaxRetries
  BY DEF FailedSpentRetries
<1>1. CASE status[e] = "failed"
  <2>1. retries[e] = MaxRetries
    BY <1>1 DEF BudgetInv, FailedSpentRetries
  <2>2. retries'[e] = retries[e]
    BY <1>1, RetriesChange DEF Owns
  <2> QED
    BY <2>1, <2>2
<1>2. CASE status[e] # "failed"
  BY <1>2, GiveUpSpent
<1> QED
  BY <1>1, <1>2

(* An event is failed only after all its retries.                          *)
THEOREM BudgetCorrect ==
    ASSUME DistinctInstances
    PROVE  Spec => []FailedSpentRetries
<1>1. TypeOK /\ BudgetInv /\ [Next]_vars => BudgetInv'
  BY DecisionStep, FailedStep DEF BudgetInv
<1>2. BudgetInv => FailedSpentRetries
  BY DEF BudgetInv
<1> QED
  BY <1>1, <1>2, TypeCorrect, BudgetInit, PTL DEF Spec

(* The decision of markRetryOrFailed is never taken on a stale count.      *)
THEOREM DecisionCorrect ==
    ASSUME DistinctInstances
    PROVE  Spec => []DecisionIsCurrent
<1>1. TypeOK /\ BudgetInv /\ [Next]_vars => BudgetInv'
  BY DecisionStep, FailedStep DEF BudgetInv
<1>2. BudgetInv => DecisionIsCurrent
  BY DEF BudgetInv
<1> QED
  BY <1>1, <1>2, TypeCorrect, BudgetInit, PTL DEF Spec

-----------------------------------------------------------------------------
(* processor_instance is the instance id of the process that claimed last. *)
ClaimantInv ==
    \A e \in Events : status[e] = "processing" =>
        claimant[e] \in Workers /\ owner[e] = Instance[claimant[e]]

LEMMA ClaimantStep == TypeOK /\ ClaimantInv /\ [Next]_vars => ClaimantInv'
<1> SUFFICES ASSUME TypeOK, ClaimantInv, [Next]_vars,
                    NEW e \in Events, status'[e] = "processing"
             PROVE  claimant'[e] \in Workers /\ owner'[e] = Instance[claimant'[e]]
  BY DEF ClaimantInv
<1> USE DEF TypeOK, ClaimantInv
<1>1. ASSUME NEW w \in Workers, Claim(w)
      PROVE  claimant'[e] \in Workers /\ owner'[e] = Instance[claimant'[e]]
  <2>1. PICK C \in ClaimBatches :
          /\ status'   = [d \in Events |-> IF d \in C THEN "processing" ELSE status[d]]
          /\ owner'    = [d \in Events |-> IF d \in C THEN Instance[w] ELSE owner[d]]
          /\ claimant' = [d \in Events |-> IF d \in C THEN w ELSE claimant[d]]
    BY <1>1 DEF Claim
  <2> QED
    BY <2>1
<1>2. CASE status[e] = "processing" /\ owner' = owner /\ claimant' = claimant
  BY <1>2
<1>3. ASSUME NEW S \in SUBSET Events, Ingest(S)
      PROVE  status[e] = "processing" /\ owner' = owner /\ claimant' = claimant
  BY <1>3 DEF Ingest
<1>4. ASSUME NEW w \in Workers, InCycle(w) \/ StatementFails(w) \/ Crash(w)
      PROVE  status[e] = "processing" /\ owner' = owner /\ claimant' = claimant
  BY <1>4 DEF InCycle, TakeEvent, EndCycle, FindReport, WriteReport, MarkProcessed,
              SetProcessed, ReadRetryCount, WriteRetry, Reschedule, GiveUp,
              StatementFails, Crash, rowVars
<1>5. ASSUME NEW d \in Events,
             RetryComesDue(d) \/ OrphanExpires(d) \/ LeaseRunsOut(d) \/ OtherWriter(d)
      PROVE  status[e] = "processing" /\ owner' = owner /\ claimant' = claimant
  BY <1>5, OthersWriteReports DEF RetryComesDue, OrphanExpires, LeaseRunsOut, ExpireLease, rowVars
<1>6. CASE UNCHANGED vars
  BY <1>6 DEF vars, rowVars
<1> QED
  BY <1>1, <1>2, <1>3, <1>4, <1>5, <1>6 DEF Next

\* The step that takes a row out of 'processing' is one of a process that owns it.
LEMMA SettledByOwner ==
    ASSUME TypeOK, [Next]_vars, NEW e \in Events,
           status[e] = "processing", status'[e] # "processing"
    PROVE  \E v \in Workers :
              /\ MarkProcessed(v) \/ WriteRetry(v) \/ StatementFails(v)
              /\ cur[v] = e /\ Owns(v, e)
<1> USE DEF TypeOK
<1>1. ASSUME NEW S \in SUBSET Events, Ingest(S) PROVE FALSE
  BY <1>1 DEF Ingest
<1>2. ASSUME NEW w \in Workers, Claim(w) PROVE FALSE
  BY <1>2 DEF Claim
<1>3. ASSUME NEW v \in Workers, MarkProcessed(v) \/ StatementFails(v)
      PROVE  cur[v] = e /\ Owns(v, e)
  BY <1>3 DEF MarkProcessed, StatementFails, SetProcessed
<1>4. ASSUME NEW v \in Workers, WriteRetry(v) PROVE cur[v] = e /\ Owns(v, e)
  BY <1>4 DEF WriteRetry, Reschedule, GiveUp
<1> QED
  BY <1>1, <1>2, <1>3, <1>4, OthersWriteReports
  DEF Next, InCycle, TakeEvent, EndCycle, FindReport, WriteReport, ReadRetryCount,
      Crash, RetryComesDue, OrphanExpires, LeaseRunsOut, ExpireLease,
      rowVars, vars

LEMMA SettlesItsClaim ==
    ASSUME TypeOK, ClaimantInv, [Next]_vars, DistinctInstances,
           NEW e \in Events, NEW w \in Workers,
           status[e] = "processing", status'[e] # "processing",
           cur[w] = e, pc'[w] # pc[w]
    PROVE  claimant[e] = w
<1>1. PICK v \in Workers :
         /\ MarkProcessed(v) \/ WriteRetry(v) \/ StatementFails(v)
         /\ cur[v] = e /\ Owns(v, e)
  BY SettledByOwner
<1>2. v = w
  BY <1>1 DEF MarkProcessed, WriteRetry, StatementFails, TypeOK
<1>3. Instance[w] = Instance[claimant[e]] /\ claimant[e] \in Workers
  BY <1>1, <1>2 DEF Owns, ClaimantInv
<1> QED
  BY <1>3 DEF DistinctInstances

(* With an instance id of its own, a process settles only what it claimed  *)
(* last: a result that comes after the lease was lost is dropped.          *)
THEOREM ClaimantCorrect ==
    ASSUME DistinctInstances
    PROVE  Spec => OnlyClaimantSettles
<1>1. Init => ClaimantInv
  BY DEF Init, ClaimantInv
<1>2. TypeOK /\ ClaimantInv /\ [Next]_vars =>
        [\A e \in Events, w \in Workers :
            /\ status[e] = "processing" /\ status'[e] # "processing"
            /\ cur[w] = e /\ pc'[w] # pc[w]
            => claimant[e] = w]_vars
  BY SettlesItsClaim
<1> QED
  BY <1>1, <1>2, ClaimantStep, TypeCorrect, PTL DEF Spec, OnlyClaimantSettles

-----------------------------------------------------------------------------
(* The queue implements EventLifecycle.                                    *)
LEMMA LifecycleStep ==
    ASSUME TypeOK, BudgetInv, [Next]_vars
    PROVE  [Lifecycle!Next]_(Lifecycle!vars)
<1> USE DEF TypeOK
<1>1. CASE UNCHANGED <<status, retries>>
  BY <1>1 DEF Lifecycle!vars
<1>2. ASSUME NEW S \in SUBSET Events, Ingest(S) PROVE Lifecycle!Submit(S)
  BY <1>2 DEF Ingest, Lifecycle!Submit
<1>3. ASSUME NEW w \in Workers, Claim(w) PROVE \E S \in SUBSET Events : Lifecycle!Begin(S)
  <2>1. PICK C \in ClaimBatches :
          status' = [e \in Events |-> IF e \in C THEN "processing" ELSE status[e]]
    BY <1>3 DEF Claim
  <2> DEFINE S == {e \in C : status[e] = "pending"}
  <2>2. C \subseteq Events /\ \A e \in C : status[e] \in {"pending", "processing"}
    BY DEF ClaimBatches, Claimable
  <2>3. status' = [e \in Events |-> IF e \in S THEN "processing" ELSE status[e]]
    BY <2>1, <2>2
  <2>4. Lifecycle!Begin(S)
    BY <2>3, <1>3 DEF Lifecycle!Begin, Claim
  <2> QED
    BY <2>2, <2>4
<1>4. ASSUME NEW w \in Workers, MarkProcessed(w) \/ StatementFails(w)
      PROVE  UNCHANGED <<status, retries>> \/ \E e \in Events : Lifecycle!Finish(e)
  <2>1. UNCHANGED retries
    BY <1>4 DEF MarkProcessed, StatementFails
  <2>2. CASE SetProcessed(w) /\ Owns(w, cur[w])
    <3>1. /\ cur[w] \in Events /\ status[cur[w]] = "processing"
          /\ status' = [status EXCEPT ![cur[w]] = "processed"]
      BY <2>2 DEF SetProcessed, Owns
    <3>2. Lifecycle!Finish(cur[w])
      BY <3>1, <2>1 DEF Lifecycle!Finish
    <3> QED
      BY <3>1, <3>2
  <2> QED
    BY <1>4, <2>1, <2>2 DEF MarkProcessed, StatementFails, SetProcessed
<1>5. ASSUME NEW w \in Workers, WriteRetry(w), Owns(w, cur[w])
      PROVE  Lifecycle!Reschedule(cur[w]) \/ Lifecycle!GiveUp(cur[w])
  <2>1. cur[w] \in Events /\ status[cur[w]] = "processing" /\ pc[w] = "writeRetry"
    BY <1>5 DEF Owns, WriteRetry
  <2>2. seen[w] = retries[cur[w]]
    BY <1>5, <2>1 DEF BudgetInv, DecisionIsCurrent
  <2>3. retries[cur[w]] \in 0..MaxRetries /\ MaxRetries \in Nat
    BY <2>1, QueueAssumption DEF QueueAssumption
  <2>4. CASE Reschedule(w)
    <3>1. retries[cur[w]] < MaxRetries
      BY <2>2, <2>3, <2>4 DEF Reschedule
    <3> QED
      BY <2>1, <2>2, <2>4, <3>1 DEF Reschedule, Lifecycle!Reschedule
  <2>5. CASE GiveUp(w)
    <3>1. retries[cur[w]] + 1 > MaxRetries
      BY <2>2, <2>5 DEF GiveUp
    <3>2. retries[cur[w]] = MaxRetries
      BY <2>3, <3>1
    <3> QED
      BY <2>1, <2>5, <3>2 DEF GiveUp, Lifecycle!GiveUp
  <2> QED
    BY <1>5, <2>4, <2>5 DEF WriteRetry
<1>6. ASSUME NEW w \in Workers, WriteRetry(w), ~Owns(w, cur[w])
      PROVE  UNCHANGED <<status, retries>>
  BY <1>6 DEF WriteRetry
<1>7. ASSUME NEW w \in Workers, WriteRetry(w), Owns(w, cur[w]) PROVE cur[w] \in Events
  BY <1>7 DEF Owns
<1> QED
  BY <1>1, <1>2, <1>3, <1>4, <1>5, <1>6, <1>7, OthersWriteReports
  DEF Next, InCycle, TakeEvent, EndCycle, FindReport, WriteReport, ReadRetryCount,
      Crash, RetryComesDue, OrphanExpires, LeaseRunsOut, ExpireLease,
      rowVars, vars, Lifecycle!Next

(* With distinct instance ids the queue keeps the promise of EventLifecycle *)
(* for every event: leases, reclaims, crashes and lost replies are stutters *)
(* or ordinary lifecycle steps.                                             *)
THEOREM ImplementsLifecycle ==
    ASSUME DistinctInstances
    PROVE  Spec => LifecycleSpec
<1>1. Init => Lifecycle!Init
  BY DEF Init, Lifecycle!Init
<1>2. TypeOK /\ BudgetInv /\ [Next]_vars => BudgetInv'
  BY DecisionStep, FailedStep DEF BudgetInv
<1>3. TypeOK /\ BudgetInv /\ [Next]_vars => [Lifecycle!Next]_(Lifecycle!vars)
  BY LifecycleStep
<1> QED
  BY <1>1, <1>2, <1>3, BudgetInit, TypeCorrect, PTL DEF Spec, LifecycleSpec, Lifecycle!Spec

-----------------------------------------------------------------------------
(* Without faults every event a process remembers is a row it owns, within *)
(* its lease, and no event is remembered twice; so a report exists only of *)
(* a processed event or of one whose process is about to mark it.          *)
LoadsOwned ==
    \A w \in Workers : \A e \in Load(w) : Owns(w, e) /\ lease[e] = "running"
LoadsApart ==
    /\ \A v, w \in Workers : v # w => Load(v) \cap Load(w) = {}
    /\ \A w \in Workers : cur[w] \notin batch[w]
ReportsStored ==
    \A e \in Events : report[e] # "none" =>
        status[e] = "processed" \/ \E w \in Workers : pc[w] = "mark" /\ cur[w] = e

Quiet    == LoadsOwned /\ LoadsApart /\ ReportsStored
QuietInv == faults = 0 => Quiet

LEMMA QuietInit == Init => QuietInv
  BY DEF Init, QuietInv, Quiet, LoadsOwned, LoadsApart, ReportsStored, Load

\* A process that works on an event, and is not about to mark it, works on one
\* without a report.
LEMMA NoReportYet ==
    ASSUME TypeOK, Quiet, NEW w \in Workers, cur[w] \in Events, pc[w] # "mark"
    PROVE  report[cur[w]] = "none"
<1> SUFFICES ASSUME report[cur[w]] # "none" PROVE FALSE
  OBVIOUS
<1>1. cur[w] \in Load(w) /\ cur[w] # NoEvent
  BY QueueAssumption DEF QueueAssumption, Load
<1>2. status[cur[w]] = "processing"
  BY <1>1 DEF Quiet, LoadsOwned, Owns
<1>3. PICK v \in Workers : pc[v] = "mark" /\ cur[v] = cur[w]
  BY <1>2 DEF Quiet, ReportsStored
<1>4. cur[w] \in Load(v)
  BY <1>3, <1>1 DEF Load
<1> QED
  BY <1>1, <1>3, <1>4 DEF Quiet, LoadsApart

\* A process drops its current event, after a step that touched no other row.
LEMMA EventLeaves ==
    ASSUME TypeOK, Quiet, NEW w \in Workers, NEW e \in Events,
             cur[w] = e, cur' = [cur EXCEPT ![w] = NoEvent], batch' = batch,
             pc'[w] = "next", \A v \in Workers \ {w} : pc'[v] = pc[v],
             \A d \in Events \ {e} :
                status'[d] = status[d] /\ lease'[d] = lease[d],
             owner' = owner, report' = report,
             report[e] # "none" => status'[e] = "processed"
    PROVE  Quiet'
<1> USE QueueAssumption DEF QueueAssumption, TypeOK
<1>1. Load(w)' = Load(w) \ {e} /\ \A v \in Workers \ {w} : Load(v)' = Load(v)
  BY DEF Load, Quiet, LoadsApart
<1>2. e \in Load(w)
  BY DEF Load
<1>3. \A v \in Workers : e \notin Load(v)'
  BY <1>1, <1>2 DEF Quiet, LoadsApart
<1>4. LoadsOwned'
  <2> SUFFICES ASSUME NEW v \in Workers, NEW d \in Load(v)'
               PROVE  Owns(v, d)' /\ lease'[d] = "running"
    BY DEF LoadsOwned
  <2>1. d \in Load(v) /\ d # e
    BY <1>1, <1>3
  <2> QED
    BY <2>1 DEF Quiet, LoadsOwned, Owns
<1>5. LoadsApart'
  <2>1. \A u, v \in Workers : u # v => (Load(u) \cap Load(v))' = {}
    BY <1>1 DEF Quiet, LoadsApart
  <2>2. \A v \in Workers : cur'[v] \notin batch'[v]
    BY DEF Quiet, LoadsApart
  <2> QED
    BY <2>1, <2>2 DEF LoadsApart
<1>6. ReportsStored'
  <2> SUFFICES ASSUME NEW d \in Events, report[d] # "none", d # e
               PROVE  status'[d] = "processed" \/ \E v \in Workers : pc'[v] = "mark" /\ cur'[v] = d
    BY DEF ReportsStored
  <2>1. CASE status[d] = "processed"
    BY <2>1
  <2>2. ASSUME NEW v \in Workers, pc[v] = "mark", cur[v] = d
        PROVE  pc'[v] = "mark" /\ cur'[v] = d
    BY <2>2
  <2> QED
    BY <2>1, <2>2 DEF Quiet, ReportsStored
<1> QED
  BY <1>4, <1>5, <1>6 DEF Quiet

LEMMA QuietStep == TypeOK /\ QuietInv /\ [Next]_vars => QuietInv'
<1> SUFFICES ASSUME TypeOK, QuietInv, [Next]_vars, faults' = 0 PROVE Quiet'
  BY DEF QuietInv
<1> USE QueueAssumption DEF QueueAssumption
<1>0. ~(\E w \in Workers : StatementFails(w) \/ Crash(w)) /\ ~(\E e \in Events : LeaseRunsOut(e))
  BY DEF StatementFails, Crash, LeaseRunsOut, Fault, TypeOK
<1>00. faults = 0
  BY <1>0, OthersWriteReports DEF Next, InCycle, Ingest, Claim, TakeEvent, EndCycle, FindReport, WriteReport,
         MarkProcessed, ReadRetryCount, WriteRetry, RetryComesDue, OrphanExpires,
         vars
<1>01. Quiet
  BY <1>00 DEF QuietInv
<1> USE DEF TypeOK
<1>1. ASSUME NEW S \in SUBSET Events, Ingest(S) PROVE Quiet'
  <2>1. LoadsOwned' /\ LoadsApart'
    BY <1>1, <1>01 DEF Quiet, LoadsOwned, LoadsApart, Load, Owns, Ingest, procVars
  <2>2. ReportsStored'
    BY <1>1, <1>01 DEF Quiet, ReportsStored, Ingest, procVars
  <2> QED
    BY <2>1, <2>2 DEF Quiet
<1>2. ASSUME NEW w \in Workers, Claim(w) PROVE Quiet'
  <2>1. PICK C \in ClaimBatches :
          /\ status' = [e \in Events |-> IF e \in C THEN "processing" ELSE status[e]]
          /\ lease'  = [e \in Events |-> IF e \in C THEN "running" ELSE lease[e]]
          /\ owner'  = [e \in Events |-> IF e \in C THEN Instance[w] ELSE owner[e]]
          /\ batch'  = [batch EXCEPT ![w] = C]
    BY <1>2 DEF Claim
  <2>2. C \subseteq Events /\ \A e \in C : Claimable(e)
    BY DEF ClaimBatches
  <2>3. \A v \in Workers : Load(v) \cap C = {}
    BY <2>2, <1>01 DEF Quiet, LoadsOwned, Owns, Claimable
  <2>4. cur[w] = NoEvent /\ cur' = cur
    BY <1>2 DEF Claim
  <2>5. Load(w)' = C /\ \A v \in Workers \ {w} : Load(v)' = Load(v)
    BY <2>1, <2>4 DEF Load
  <2>6. LoadsOwned'
    <3> SUFFICES ASSUME NEW v \in Workers, NEW e \in Load(v)'
                 PROVE  Owns(v, e)' /\ lease'[e] = "running"
      BY DEF LoadsOwned
    <3>1. CASE v = w
      BY <3>1, <2>1, <2>2, <2>5 DEF Owns
    <3>2. CASE v # w
      <4>1. e \in Load(v) /\ e \notin C
        BY <3>2, <2>3, <2>5
      <4> QED
        BY <4>1, <2>1, <1>01 DEF Quiet, LoadsOwned, Owns
    <3> QED
      BY <3>1, <3>2
  <2>7. LoadsApart'
    <3>1. \A u, v \in Workers : u # v => (Load(u) \cap Load(v))' = {}
      BY <2>3, <2>5, <1>01 DEF Quiet, LoadsApart
    <3>2. \A v \in Workers : cur'[v] \notin batch'[v]
      BY <2>1, <2>2, <2>4, <1>01 DEF Quiet, LoadsApart
    <3> QED
      BY <3>1, <3>2 DEF LoadsApart
  <2>8. ReportsStored'
    <3>1. report' = report /\ \A v \in Workers : pc[v] = "mark" => pc'[v] = "mark"
      BY <1>2 DEF Claim
    <3>2. \A e \in Events : status[e] = "processed" => status'[e] = "processed"
      BY <2>1, <2>2 DEF Claimable
    <3> QED
      BY <2>4, <3>1, <3>2, <1>01 DEF Quiet, ReportsStored
  <2> QED
    BY <2>6, <2>7, <2>8 DEF Quiet
<1>3. ASSUME NEW w \in Workers, TakeEvent(w) PROVE Quiet'
  <2>1. PICK e \in batch[w] : /\ cur'   = [cur EXCEPT ![w] = e]
                              /\ batch' = [batch EXCEPT ![w] = @ \ {e}]
    BY <1>3 DEF TakeEvent
  <2>2. pc[w] = "next" /\ cur[w] = NoEvent /\ e \in Events
    BY <1>3 DEF TakeEvent
  <2>3. \A v \in Workers : Load(v)' = Load(v)
    BY <2>1, <2>2 DEF Load
  <2>4. LoadsOwned'
    BY <2>3, <1>3, <1>01 DEF Quiet, LoadsOwned, Owns, TakeEvent, rowVars
  <2>5. LoadsApart'
    BY <2>1, <2>3, <1>01 DEF Quiet, LoadsApart
  <2>6. ReportsStored'
    BY <2>1, <2>2, <1>3, <1>01 DEF Quiet, ReportsStored, TakeEvent, rowVars
  <2> QED
    BY <2>4, <2>5, <2>6 DEF Quiet
<1>4. ASSUME NEW w \in Workers, EndCycle(w) \/ FindReport(w) PROVE Quiet'
  <2>1. UNCHANGED <<rowVars, report, batch, cur>> /\ pc[w] # "mark"
        /\ \A v \in Workers \ {w} : pc'[v] = pc[v]
    BY <1>4 DEF EndCycle, FindReport
  <2>2. LoadsOwned' /\ LoadsApart'
    BY <2>1, <1>01 DEF Quiet, LoadsOwned, LoadsApart, Load, Owns, rowVars
  <2>3. ReportsStored'
    BY <2>1, <1>01 DEF Quiet, ReportsStored, rowVars
  <2> QED
    BY <2>2, <2>3 DEF Quiet
<1>5. ASSUME NEW w \in Workers, WriteReport(w) PROVE Quiet'
  <2>1. cur[w] \in Events /\ pc[w] = "write"
    BY <1>5 DEF WriteReport
  <2>2. report[cur[w]] = "none"
    BY <2>1, <1>01, NoReportYet
  <2>3. StoreReport(cur[w]) /\ pc' = [pc EXCEPT ![w] = "mark"]
        /\ UNCHANGED <<rowVars, batch, cur>>
    BY <1>5, <2>2 DEF WriteReport, InsertConflict
  <2>4. LoadsOwned' /\ LoadsApart'
    BY <2>3, <1>01 DEF Quiet, LoadsOwned, LoadsApart, Load, Owns, rowVars
  <2>5. ReportsStored'
    BY <2>1, <2>3, <1>01 DEF Quiet, ReportsStored, StoreReport, rowVars
  <2> QED
    BY <2>4, <2>5 DEF Quiet
<1>7. ASSUME NEW w \in Workers, pc[w] \in {"mark", "readRetry", "writeRetry"}
      PROVE  cur[w] \in Events /\ Owns(w, cur[w])
  BY <1>7, <1>01 DEF Quiet, LoadsOwned, Load
<1>8. ASSUME NEW w \in Workers, MarkProcessed(w) PROVE Quiet'
  <2>1. PICK e \in Events : cur[w] = e /\ Owns(w, e)
    BY <1>7, <1>8 DEF MarkProcessed
  <2>2. /\ cur' = [cur EXCEPT ![w] = NoEvent] /\ batch' = batch
        /\ pc'[w] = "next" /\ \A v \in Workers \ {w} : pc'[v] = pc[v]
        /\ owner' = owner /\ report' = report
    BY <1>8, <2>1 DEF MarkProcessed
  <2>3. /\ \A d \in Events \ {e} : status'[d] = status[d] /\ lease'[d] = lease[d]
        /\ status'[e] = "processed"
    BY <1>8, <2>1 DEF MarkProcessed, SetProcessed
  <2> HIDE DEF TypeOK
  <2> QED
    BY <2>1, <2>2, <2>3, <1>01, EventLeaves
<1>9. ASSUME NEW w \in Workers, ReadRetryCount(w) PROVE Quiet'
  <2>1. Owns(w, cur[w])
    BY <1>7, <1>9 DEF ReadRetryCount
  <2>2. UNCHANGED <<rowVars, report, batch, cur>> /\ pc[w] # "mark"
        /\ \A v \in Workers \ {w} : pc'[v] = pc[v]
    BY <1>9, <2>1 DEF ReadRetryCount
  <2>3. LoadsOwned' /\ LoadsApart'
    BY <2>2, <1>01 DEF Quiet, LoadsOwned, LoadsApart, Load, Owns, rowVars
  <2>4. ReportsStored'
    BY <2>2, <1>01 DEF Quiet, ReportsStored, rowVars
  <2> QED
    BY <2>3, <2>4 DEF Quiet
<1>10. ASSUME NEW w \in Workers, WriteRetry(w) PROVE Quiet'
  <2>1. PICK e \in Events : cur[w] = e /\ Owns(w, e)
    BY <1>7, <1>10 DEF WriteRetry
  <2>2. report[e] = "none"
    BY <2>1, <1>10, <1>01, NoReportYet DEF WriteRetry
  <2>3. /\ cur' = [cur EXCEPT ![w] = NoEvent] /\ batch' = batch
        /\ pc'[w] = "next" /\ \A v \in Workers \ {w} : pc'[v] = pc[v]
        /\ owner' = owner /\ report' = report
    BY <1>10 DEF WriteRetry
  <2>4. \A d \in Events \ {e} : status'[d] = status[d] /\ lease'[d] = lease[d]
    BY <1>10, <2>1 DEF WriteRetry, Reschedule, GiveUp
  <2> HIDE DEF TypeOK
  <2> QED
    BY <2>1, <2>2, <2>3, <2>4, <1>01, EventLeaves
<1>11. ASSUME NEW e \in Events, RetryComesDue(e) PROVE Quiet'
  BY <1>11, <1>01 DEF RetryComesDue, Quiet, LoadsOwned, LoadsApart, ReportsStored,
                      Load, Owns, procVars
<1>12. ASSUME NEW e \in Events, OrphanExpires(e) PROVE Quiet'
  <2>1. \A w \in Workers : e \notin Load(w)
    BY <1>12, <1>01 DEF OrphanExpires, InUse, Quiet, LoadsOwned
  <2>2. LoadsOwned'
    BY <2>1, <1>12, <1>01 DEF OrphanExpires, ExpireLease, Quiet, LoadsOwned, Load, Owns, procVars
  <2>3. LoadsApart' /\ ReportsStored'
    BY <1>12, <1>01 DEF OrphanExpires, ExpireLease, Quiet, LoadsApart, ReportsStored,
                        Load, procVars
  <2> QED
    BY <2>2, <2>3 DEF Quiet
<1>13. ASSUME NEW e \in Events, OtherWriter(e) PROVE Quiet'
  <2>1. UNCHANGED <<rowVars, procVars>>
    BY <1>13, OthersWriteReports
  <2>2. LoadsOwned' /\ LoadsApart'
    BY <2>1, <1>01 DEF Quiet, LoadsOwned, LoadsApart, Load, Owns, rowVars, procVars
  <2>3. \A d \in Events : report'[d] # "none" => report[d] # "none"
    BY <1>13, OthersWriteReports
  <2>4. ReportsStored'
    BY <2>1, <2>3, <1>01 DEF Quiet, ReportsStored, rowVars, procVars
  <2> QED
    BY <2>2, <2>4 DEF Quiet
<1>14. CASE UNCHANGED vars
  BY <1>14, <1>01 DEF Quiet, LoadsOwned, LoadsApart, ReportsStored, Load, Owns,
                      vars, rowVars, procVars
<1> QED
  BY <1>0, <1>1, <1>2, <1>3, <1>4, <1>5, <1>8, <1>9, <1>10, <1>11, <1>12, <1>13, <1>14
  DEF Next, InCycle

(* As long as nothing fails, no event is in the hands of two processes,    *)
(* not even of two with one instance id.                                   *)
THEOREM HeldOnceCorrect == Spec => []HeldOnce
<1>1. QuietInv => HeldOnce
  BY DEF QuietInv, Quiet, LoadsApart, HeldOnce
<1> QED
  BY <1>1, QuietInit, QuietStep, TypeCorrect, PTL DEF Spec

LEMMA ParseStep ==
    ASSUME TypeOK, QuietInv, [Next]_vars, NEW e \in Events, NEW w \in Workers,
           faults = 0, pc'[w] # pc[w], report'[e] # report[e]
    PROVE  report[e] = "none"
<1> USE DEF TypeOK
<1>1. pc[w] = "write" /\ StoreReport(cur[w])
  <2>1. ASSUME NEW v \in Workers, WriteReport(v) \/ StatementFails(v)
        PROVE  v = w /\ pc[w] = "write" /\ StoreReport(cur[w])
    BY <2>1 DEF WriteReport, StatementFails
  <2>2. ~\E d \in Events : OtherWriter(d)
    BY OthersWriteReports DEF procVars
  <2> QED
    BY <2>1, <2>2
    DEF Next, InCycle, Ingest, Claim, TakeEvent, EndCycle, FindReport, MarkProcessed,
        ReadRetryCount, WriteRetry, Crash, RetryComesDue, OrphanExpires, LeaseRunsOut,
        ExpireLease, vars
<1>2. cur[w] = e
  BY <1>1 DEF StoreReport
<1> QED
  BY <1>1, <1>2, NoReportYet DEF QuietInv

(* Until a fault no worker writes over a report, though persistParsed asks *)
(* for no ownership: whoever works on an event is the only one to, and has *)
(* the report yet to write.                                                *)
THEOREM ParseOnceCorrect == Spec => WorkersParseOnce
<1>1. TypeOK /\ QuietInv /\ [Next]_vars =>
        [\A e \in Events, w \in Workers :
            faults = 0 /\ pc'[w] # pc[w] /\ report'[e] # report[e]
            => report[e] = "none"]_vars
  BY ParseStep
<1> QED
  BY <1>1, QuietInit, QuietStep, TypeCorrect, PTL DEF Spec, WorkersParseOnce
=============================================================================
