------------------------- MODULE SinglePollerProofs -------------------------
(***************************************************************************)
(* Theorems about Enrichment as it is deployed, with one poller (one       *)
(* container enrichment), and until a statement fails or the process dies: *)
(* for any set of reports and of texts, any batch size, attempt budget and *)
(* number of requests, any answers of the language model and either answer *)
(* of the driver.  Requests of administrators and reparses come between    *)
(* any two statements of the poller.                                       *)
(***************************************************************************)
EXTENDS EnrichmentProofs

(***************************************************************************)
(* A poller has a report in hand once at most: findPending returns each    *)
(* row once, and a record leaves the batch when its work begins.  This     *)
(* holds for any number of pollers, each by itself.                        *)
(***************************************************************************)
OneRecordEach ==
    \A p \in Pollers :
       /\ \A x, y \in batch[p] : x.id = y.id => x = y
       /\ cur[p] # NoRecord => \A x \in batch[p] : x.id # cur[p].id

LEMMA OneRecordInit == Init => OneRecordEach
  BY DEF Init, OneRecordEach

LEMMA OneRecordStep ==
    ASSUME ProcInv, OneRecordEach, [Next]_vars
    PROVE  OneRecordEach'
<1>1. ASSUME NEW p \in Pollers, Poll(p) PROVE OneRecordEach'
  <2>1. PICK B \in SUBSET {r \in Reports : Due(r)} :
           batch' = [batch EXCEPT ![p] = {Selected(r) : r \in B}]
    BY <1>1 DEF Poll
  <2>2. cur' = cur /\ cur[p] = NoRecord
    BY <1>1 DEF Poll, ProcInv
  <2>3. \A x, y \in batch'[p] : x.id = y.id => x = y
    BY <2>1 DEF Selected, ProcInv
  <2> QED
    BY <2>1, <2>2, <2>3 DEF OneRecordEach, ProcInv
<1>2. ASSUME NEW p \in Pollers, Take(p) PROVE OneRecordEach'
  <2>1. PICK rec \in batch[p] :
           /\ cur'   = [cur EXCEPT ![p] = rec]
           /\ batch' = [batch EXCEPT ![p] = batch[p] \ {rec}]
    BY <1>2 DEF Take
  <2> QED
    BY <2>1 DEF OneRecordEach, ProcInv
\* Every other step leaves batches or empties them, and work ends.
<1>3. ASSUME batch' = batch \/ \E p \in Pollers : batch' = [batch EXCEPT ![p] = {}],
             cur' = cur \/ \E p \in Pollers : cur' = [cur EXCEPT ![p] = NoRecord]
      PROVE  OneRecordEach'
  <2>1. ASSUME NEW p \in Pollers
        PROVE  batch'[p] \subseteq batch[p] /\ cur'[p] \in {cur[p], NoRecord}
    BY <1>3 DEF ProcInv
  <2> QED
    BY <2>1 DEF OneRecordEach
<1>4. ASSUME NEW p \in Pollers, InCycle(p) \/ StatementFails(p) \/ Crash(p) PROVE OneRecordEach'
  <2>1. CASE Take(p)
    BY <1>2, <2>1
  <2>2. CASE ~Take(p)
    <3>1. /\ batch' = batch \/ batch' = [batch EXCEPT ![p] = {}]
          /\ cur' = cur \/ cur' = [cur EXCEPT ![p] = NoRecord]
      BY <1>4, <2>2 DEF InCycle, EndCycle, Lookup, Extract, ExtractFails, Save, Write, Announce,
                        Fail, StatementFails, Crash, Done
    <3> QED
      BY <1>3, <3>1
  <2> QED
    BY <2>1, <2>2
<1>5. ASSUME NEW r \in Reports,
             \/ Parse(r) \/ Submit(r) \/ RetryComesDue(r) \/ Reparse(r)
             \/ AdminEdit(r) \/ AdminVerify(r) \/ AdminEditBreaks(r)
      PROVE  OneRecordEach'
  BY <1>3, <1>5 DEF Parse, Submit, RetryComesDue, Reparse, AdminEdit, AdminVerify,
                    AdminEditBreaks, procVars
<1>6. ASSUME NEW S \in SUBSET Reports, ReEnrich(S) PROVE OneRecordEach'
  <2>1. UNCHANGED procVars
    BY <1>6 DEF ReEnrich
  <2> QED
    BY <1>3, <2>1 DEF procVars
<1>7. ASSUME NEW t \in Texts, AdminCacheEdit(t) \/ AdminCacheDelete(t) PROVE OneRecordEach'
  BY <1>3, <1>7 DEF AdminCacheEdit, AdminCacheDelete, procVars
<1>8. CASE UNCHANGED vars
  BY <1>3, <1>8 DEF vars, procVars
<1> QED
  BY <1>1, <1>4, <1>5, <1>6, <1>7, <1>8 DEF Next

(***************************************************************************)
(* What the poller still has to settle: its batch, and the record in work  *)
(* until its row is written.  Such a report is pending, or somebody has    *)
(* parsed it anew as unreadable; so it is off the map, nothing has been    *)
(* announced since it was made pending, and no administrator waits for a   *)
(* new attempt at it, since reports are re-enriched and settled outside    *)
(* the poller's hands.                                                     *)
(***************************************************************************)
Open(p) == batch[p] \cup (IF pc[p] = "announce" THEN {} ELSE {cur[p]} \ {NoRecord})

Unsettled == {"pending", "none"}

OpenUnsettled ==
    \A p \in Pollers : \A rec \in Open(p) :
       row[rec.id].enrich \in Unsettled /\ rec.id \notin asked

RowsQuiet ==
    /\ \A r \in Reports : row[r].shown => row[r].enrich = "enriched"
    /\ \A r \in asked : row[r].enrich = "pending"
    /\ \A r \in Reports : announced[r] <= 1 /\ (announced[r] # 0 => row[r].enrich = "enriched")
    /\ \A p \in Pollers : pc[p] = "announce" => announced[cur[p].id] = 0

QuietInv == OpenUnsettled /\ RowsQuiet

LEMMA QuietInit == Init => QuietInv
  BY DEF Init, QuietInv, OpenUnsettled, RowsQuiet, Open

LEMMA OpenHeld ==
    ASSUME ProcInv, NEW p \in Pollers
    PROVE  /\ Open(p) \subseteq Held(p)
           /\ \A rec \in Held(p) : rec \in Records /\ rec.id \in Reports
  BY DEF Open, Held, ProcInv, Records

\* Before its row is written, the record in work is open.
LEMMA WorkIsOpen ==
    ASSUME ProcInv, OpenUnsettled, NEW p \in Pollers,
           pc[p] \notin {"idle", "next", "announce"}
    PROVE  /\ cur[p].id \in Reports
           /\ row[cur[p].id].enrich \in Unsettled
           /\ cur[p].id \notin asked
BY InWork DEF OpenUnsettled, Open, Held, ProcInv

(* Statements of others: each report is left as it is, or made pending (or *)
(* unreadable) and to be announced anew, or is a new one.                  *)
LeftAlone(r) ==
    /\ row'[r].enrich = row[r].enrich
    /\ row'[r].shown = row[r].shown
    /\ announced'[r] = announced[r]
    /\ r \in asked' <=> r \in asked

MadePending(r) ==
    /\ row'[r].enrich \in Unsettled
    /\ ~row'[r].shown
    /\ announced'[r] = 0
    /\ r \in asked' => /\ row'[r].enrich = "pending"
                       /\ r \in asked \/ row[r].enrich \in Settled

Stored(r) ==
    /\ row[r].enrich = "absent"
    /\ row'[r].shown => row'[r].enrich = "enriched"
    /\ announced'[r] = announced[r]
    /\ r \in asked' <=> r \in asked

LEMMA OthersStep ==
    ASSUME TypeInv, TypeInv', QuietInv, UNCHANGED procVars,
           \A r \in Reports : LeftAlone(r) \/ MadePending(r) \/ Stored(r)
    PROVE  QuietInv'
<1>0. ProcInv /\ RowInv /\ RestInv /\ RestInv' /\ asked' \subseteq Reports
  BY DEF TypeInv, RestInv
<1>1. OpenUnsettled'
  <2> SUFFICES ASSUME NEW p \in Pollers, NEW rec \in Open(p)
               PROVE  row'[rec.id].enrich \in Unsettled /\ rec.id \notin asked'
    BY DEF OpenUnsettled, Open, procVars
  <2>1. rec.id \in Reports /\ row[rec.id].enrich \in Unsettled /\ rec.id \notin asked
    BY <1>0, OpenHeld DEF QuietInv, OpenUnsettled
  <2> QED
    BY <2>1 DEF LeftAlone, MadePending, Stored, Unsettled, Settled
<1>2. ASSUME NEW r \in Reports
      PROVE  /\ row'[r].shown => row'[r].enrich = "enriched"
             /\ r \in asked' => row'[r].enrich = "pending"
             /\ announced'[r] <= 1 /\ (announced'[r] # 0 => row'[r].enrich = "enriched")
             /\ announced[r] = 0 => announced'[r] = 0
  BY DEF QuietInv, RowsQuiet, LeftAlone, MadePending, Stored
<1>3. ASSUME NEW p \in Pollers, pc'[p] = "announce" PROVE announced'[cur'[p].id] = 0
  <2>1. pc[p] = "announce" /\ cur'[p] = cur[p] /\ cur[p].id \in Reports
    BY <1>0, <1>3, InWork DEF procVars
  <2> QED
    BY <1>2, <2>1 DEF QuietInv, RowsQuiet
<1> QED
  BY <1>0, <1>1, <1>2, <1>3 DEF QuietInv, RowsQuiet

(* Statements of the poller that write no row and announce nothing.        *)
LEMMA IdleStep ==
    ASSUME QuietInv, UNCHANGED <<row, announced>>, asked' \subseteq asked,
           \A p \in Pollers :
              /\ \A rec \in Open(p)' : row[rec.id].enrich \in Unsettled /\ rec.id \notin asked'
              /\ pc'[p] = "announce" => pc[p] = "announce" /\ cur'[p] = cur[p]
    PROVE  QuietInv'
  BY DEF QuietInv, RowsQuiet, OpenUnsettled

LEMMA OtherRequests ==
    ASSUME TypeInv, TypeInv', QuietInv,
           \/ \E r \in Reports :
                 \/ Parse(r) \/ Submit(r) \/ RetryComesDue(r) \/ Reparse(r)
                 \/ AdminEdit(r) \/ AdminVerify(r)
           \/ \E S \in SUBSET Reports : ReEnrich(S)
           \/ \E t \in Texts : AdminCacheEdit(t) \/ AdminCacheDelete(t)
           \/ UNCHANGED vars
    PROVE  QuietInv'
<1>0. RowInv /\ ProcInv
  BY DEF TypeInv
<1>a. ASSUME UNCHANGED <<procVars, row, announced, asked>> PROVE QuietInv'
  BY <1>a, OthersStep DEF LeftAlone
\* A statement on one row.
<1>b. ASSUME NEW r \in Reports, UNCHANGED procVars,
             \A s \in Reports : s # r => LeftAlone(s),
             LeftAlone(r) \/ MadePending(r) \/ Stored(r)
      PROVE  QuietInv'
  BY <1>b, OthersStep
<1>1. ASSUME NEW r \in Reports, Parse(r) \/ Submit(r) PROVE QuietInv'
  <2>1. UNCHANGED <<procVars, announced, asked>> /\ row[r].enrich = "absent" /\ row[r] \in Rows
    BY <1>0, <1>1 DEF Parse, Submit, Exists, histVars, RowInv
  <2>2. row[r].shown \in BOOLEAN /\ ~row[r].shown
    BY <2>1 DEF QuietInv, RowsQuiet, Rows
  <2>3. \A s \in Reports : s # r => row'[s] = row[s]
    BY <1>0, <1>1 DEF Parse, Submit, RowInv
  <2>4. row'[r].shown => row'[r].enrich = "enriched"
    BY <1>0, <1>1, <2>1, <2>2 DEF Parse, Submit, RowInv, Rows
  <2>5. Stored(r) /\ \A s \in Reports : s # r => LeftAlone(s)
    BY <2>1, <2>3, <2>4 DEF Stored, LeftAlone
  <2> QED
    BY <1>b, <2>1, <2>5
<1>2. ASSUME NEW r \in Reports, RetryComesDue(r) \/ AdminEdit(r) PROVE QuietInv'
  <2>1. UNCHANGED <<procVars, announced, asked>>
    BY <1>2 DEF RetryComesDue, AdminEdit, histVars
  <2>2. \A s \in Reports : row'[s].enrich = row[s].enrich /\ row'[s].shown = row[s].shown
    <3>1. CASE RetryComesDue(r)
      BY <1>0, <3>1 DEF RetryComesDue, RowInv, Rows
    <3>2. CASE AdminEdit(r)
      BY <1>0, <3>2 DEF AdminEdit, RowInv, Rows
    <3> QED
      BY <1>2, <3>1, <3>2
  <2> QED
    BY <2>1, <2>2, OthersStep DEF LeftAlone
<1>3. ASSUME NEW r \in Reports, Reparse(r) PROVE QuietInv'
  <2>1. /\ UNCHANGED procVars
        /\ announced' = [announced EXCEPT ![r] = 0]
        /\ asked' = asked \ {r}
    BY <1>3 DEF Reparse
  <2>2. ParsedAs[r].enrich \in Unsettled
    BY EnrichmentAssumption DEF EnrichmentAssumption, ParseResults, Unsettled
  <2>3. /\ row'[r].enrich = ParsedAs[r].enrich /\ row'[r].shown = FALSE
        /\ \A s \in Reports : s # r => row'[s] = row[s]
    BY <1>0, <1>3 DEF Reparse, RowInv, Rows
  <2>4. announced \in [Reports -> 0..2]
    BY DEF TypeInv, RestInv
  <2>5. MadePending(r) /\ \A s \in Reports : s # r => LeftAlone(s)
    BY <2>1, <2>2, <2>3, <2>4 DEF MadePending, LeftAlone
  <2> QED
    BY <1>b, <2>1, <2>5
<1>4. ASSUME NEW S \in SUBSET Reports, ReEnrich(S) PROVE QuietInv'
  <2>1. /\ UNCHANGED procVars
        /\ announced' = [r \in Reports |-> IF r \in S THEN 0 ELSE announced[r]]
        /\ asked' = asked \cup {r \in S : row[r].enrich \in Settled}
        /\ row' = [r \in Reports |->
                      IF r \in S
                      THEN [row[r] EXCEPT !.enrich = "pending", !.attempts = 0,
                                          !.due = "null", !.shown = FALSE]
                      ELSE row[r]]
    BY <1>4 DEF ReEnrich
  <2>2. ASSUME NEW r \in S PROVE MadePending(r)
    <3>1. row[r] \in Rows
      BY <1>0 DEF RowInv
    <3>2. row'[r].enrich = "pending" /\ row'[r].shown = FALSE
      BY <2>1, <3>1 DEF Rows
    <3> QED
      BY <2>1, <3>2 DEF MadePending, Unsettled
  <2>3. \A r \in Reports \ S : LeftAlone(r)
    BY <2>1 DEF LeftAlone
  <2> QED
    BY <2>1, <2>2, <2>3, OthersStep
<1>5. ASSUME \/ \E r \in Reports : AdminVerify(r)
             \/ \E t \in Texts : AdminCacheEdit(t) \/ AdminCacheDelete(t)
             \/ UNCHANGED vars
      PROVE  QuietInv'
  BY <1>a, <1>5 DEF AdminVerify, AdminCacheEdit, AdminCacheDelete, vars, histVars
<1> QED
  BY <1>1, <1>2, <1>3, <1>4, <1>5

(***************************************************************************)
(* The statements of the one poller.                                       *)
(***************************************************************************)
LEMMA PollerStep ==
    ASSUME Alone, TypeInv, TypeInv', OneRecordEach, QuietInv,
           NEW p \in Pollers, Poll(p) \/ InCycle(p)
    PROVE  QuietInv'
<1>0. RowInv /\ ProcInv /\ RestInv /\ \A q \in Pollers : q = p
  BY DEF TypeInv, Alone
\* The row of the record in work is written and the record is settled.
<1>a. ASSUME pc[p] \notin {"idle", "next", "announce"}, batch' = batch, asked' = asked,
             announced' = announced,
             Open(p)' \subseteq batch[p],
             \A s \in Reports : s # cur[p].id => row'[s] = row[s],
             row'[cur[p].id].shown => row'[cur[p].id].enrich = "enriched",
             pc'[p] = "announce" => cur'[p] = cur[p]
      PROVE  QuietInv'
  <2> DEFINE r == cur[p].id
  <2>1. r \in Reports /\ row[r].enrich \in Unsettled /\ r \notin asked
    BY <1>0, <1>a, WorkIsOpen DEF QuietInv
  <2>2. announced[r] = 0
    BY <2>1 DEF QuietInv, RowsQuiet, Unsettled
  <2>3. \A rec \in Open(p)' : rec \in Open(p) /\ rec.id \in Reports \ {r}
    <3>1. \A rec \in batch[p] : rec \in Held(p) /\ rec.id # r
      BY <1>0, <1>a DEF OneRecordEach, ProcInv, Held
    <3> QED
      BY <1>0, <1>a, <3>1, OpenHeld DEF Open
  <2>4. OpenUnsettled'
    <3>1. \A rec \in Open(p)' : row'[rec.id].enrich \in Unsettled /\ rec.id \notin asked'
      BY <1>a, <2>3 DEF QuietInv, OpenUnsettled
    <3> QED
      BY <1>0, <3>1 DEF OpenUnsettled
  <2>5. RowsQuiet'
    <3>1. \A s \in asked : s \in Reports /\ s # r
      BY <1>0, <2>1 DEF RestInv
    <3> HIDE DEF r
    <3>2. \A s \in asked' : row'[s].enrich = "pending"
      BY <1>a, <3>1 DEF QuietInv, RowsQuiet, r
    <3>3. \A s \in Reports : /\ row'[s].shown => row'[s].enrich = "enriched"
                             /\ announced'[s] <= 1
                             /\ announced'[s] # 0 => row'[s].enrich = "enriched"
      BY <1>a, <2>2 DEF QuietInv, RowsQuiet, r
    <3>4. \A q \in Pollers : pc'[q] = "announce" => announced'[cur'[q].id] = 0
      BY <1>0, <1>a, <2>2 DEF r
    <3> QED
      BY <3>2, <3>3, <3>4 DEF RowsQuiet
  <2> QED
    BY <2>4, <2>5 DEF QuietInv
\* Nothing is written, and no record comes into the poller's hands.
<1>b. ASSUME UNCHANGED <<row, announced, asked>>, Open(p)' \subseteq Open(p),
             pc'[p] = "announce" => pc[p] = "announce" /\ cur'[p] = cur[p]
      PROVE  QuietInv'
  <2>1. \A q \in Pollers : \A rec \in Open(q)' :
           row[rec.id].enrich \in Unsettled /\ rec.id \notin asked
    BY <1>0, <1>b DEF QuietInv, OpenUnsettled
  <2> QED
    BY <1>0, <1>b, <2>1, IdleStep
<1>1. CASE Poll(p)
  <2>1. PICK B \in SUBSET {r \in Reports : Due(r)} :
           /\ batch' = [batch EXCEPT ![p] = {Selected(r) : r \in B}]
           /\ asked' = asked \ B
    BY <1>1 DEF Poll
  <2>2. /\ UNCHANGED <<row, announced, cur>>
        /\ cur[p] = NoRecord /\ pc'[p] = "next"
    BY <1>0, <1>1 DEF Poll, ProcInv
  <2>3. \A rec \in Open(p)' : \E r \in B : rec = Selected(r)
    BY <1>0, <2>1, <2>2 DEF Open, ProcInv
  <2>4. \A rec \in Open(p)' : row[rec.id].enrich \in Unsettled /\ rec.id \notin asked'
    BY <2>1, <2>3 DEF Selected, Due, Unsettled
  <2> QED
    BY <1>0, <2>1, <2>2, <2>4, IdleStep
<1>2. CASE Take(p)
  <2>1. PICK rec \in batch[p] :
           /\ cur'   = [cur EXCEPT ![p] = rec]
           /\ batch' = [batch EXCEPT ![p] = batch[p] \ {rec}]
    BY <1>2 DEF Take
  <2>2. Open(p)' \subseteq Open(p) /\ pc'[p] = "lookup"
    BY <1>0, <1>2, <2>1 DEF Take, Open, ProcInv
  <2>3. UNCHANGED <<row, announced, asked>>
    BY <1>2 DEF Take, histVars
  <2> QED
    BY <1>b, <2>2, <2>3
<1>3. CASE EndCycle(p) \/ Lookup(p) \/ Extract(p) \/ ExtractFails(p) \/ Save(p)
  <2>1. UNCHANGED <<row, announced, asked, batch, cur>>
    BY <1>3 DEF EndCycle, Lookup, Extract, ExtractFails, Save, histVars
  <2>2. pc[p] # "announce" /\ pc'[p] # "announce"
    BY <1>0, <1>3 DEF EndCycle, Lookup, Extract, ExtractFails, Save, Errs, Caught, ProcInv
  <2>3. Open(p)' = Open(p)
    BY <2>1, <2>2 DEF Open
  <2> QED
    BY <1>b, <2>1, <2>2, <2>3
<1>4. CASE Write(p)
  <2>1. UNCHANGED <<batch, cur, asked, announced>> /\ pc[p] = "write"
    BY <1>4 DEF Write, Caught
  <2>2. CASE Storable(p) /\ StoreEnriched(p) /\ pc' = [pc EXCEPT ![p] = "announce"]
    <3>1. /\ row'[cur[p].id].enrich = "enriched"
          /\ \A s \in Reports : s # cur[p].id => row'[s] = row[s]
      BY <1>0, <2>1, <2>2, EnrichedStored
    <3>2. Open(p)' = batch[p]
      BY <1>0, <2>1, <2>2 DEF Open, ProcInv
    <3> QED
      BY <1>a, <2>1, <3>1, <3>2
  <2>3. CASE row' = row /\ pc' = [pc EXCEPT ![p] = "fail"]
    <3>1. Open(p)' = Open(p) /\ pc'[p] # "announce"
      BY <1>0, <2>1, <2>3 DEF Open, ProcInv
    <3> QED
      BY <1>b, <2>1, <2>3, <3>1
  <2> QED
    BY <1>4, <2>2, <2>3 DEF Write, Caught
<1>5. CASE Announce(p)
  <2> DEFINE r == cur[p].id
  <2>1. /\ UNCHANGED <<row, batch, asked>>
        /\ pc[p] = "announce" /\ pc'[p] = "next" /\ cur'[p] = NoRecord
        /\ r \in Reports /\ announced \in [Reports -> 0..2]
    BY <1>0, <1>5, InWork DEF Announce, Done, ProcInv, RestInv
  <2>2. announced[r] = 0
    BY <2>1 DEF QuietInv, RowsQuiet
  <2>3. \A s \in Reports : /\ announced'[s] <= 1
                           /\ announced'[s] # 0 => row'[s].enrich = "enriched"
    <3>1. CASE announced' = announced
      BY <2>1, <3>1 DEF QuietInv, RowsQuiet
    <3>2. CASE row[r].shown /\ announced' = [announced EXCEPT ![r] = Up(announced[r], 2)]
      <4>1. announced'[r] = 1 /\ \A s \in Reports : s # r => announced'[s] = announced[s]
        BY <2>1, <2>2, <3>2 DEF Up
      <4>2. row[r].enrich = "enriched"
        BY <2>1, <3>2 DEF QuietInv, RowsQuiet
      <4> QED
        BY <2>1, <4>1, <4>2 DEF QuietInv, RowsQuiet
    <3> QED
      BY <1>5, <3>1, <3>2 DEF Announce
  <2>4. Open(p)' = Open(p)
    BY <2>1 DEF Open
  <2>5. OpenUnsettled'
    BY <1>0, <2>1, <2>4 DEF QuietInv, OpenUnsettled
  <2>6. RowsQuiet'
    BY <1>0, <2>1, <2>3 DEF QuietInv, RowsQuiet
  <2> QED
    BY <2>5, <2>6 DEF QuietInv
<1>6. CASE Fail(p)
  <2>1. /\ UNCHANGED <<batch, asked, announced>>
        /\ pc[p] = "fail" /\ pc'[p] = "next" /\ cur'[p] = NoRecord
    BY <1>0, <1>6 DEF Fail, Done, ProcInv, histVars
  <2>2. cur[p].id \in Reports /\ row[cur[p].id].enrich \in Unsettled
    BY <1>0, <2>1, WorkIsOpen DEF QuietInv
  <2>3. row[cur[p].id] \in Rows /\ ~row[cur[p].id].shown
    BY <1>0, <2>2 DEF QuietInv, RowsQuiet, RowInv, Unsettled
  <2>4. /\ row'[cur[p].id].shown = row[cur[p].id].shown
        /\ \A s \in Reports : s # cur[p].id => row'[s] = row[s]
    BY <1>0, <1>6, <2>2, <2>3 DEF Fail, RowInv, Rows
  <2>5. Open(p)' \subseteq batch[p]
    BY <2>1 DEF Open
  <2> QED
    BY <1>a, <2>1, <2>3, <2>4, <2>5
<1> QED
  BY <1>1, <1>2, <1>3, <1>4, <1>5, <1>6 DEF InCycle

(* The inductive invariant: QuietInv holds until the first fault.          *)
PollerInv == TypeInv /\ OneRecordEach /\ (Quiet => QuietInv)

LEMMA PollerInvStep ==
    ASSUME Alone, PollerInv, [Next]_vars
    PROVE  PollerInv'
<1>1. TypeInv /\ TypeInv' /\ OneRecordEach /\ OneRecordEach'
  BY TypeStep, OneRecordStep DEF PollerInv, TypeInv
<1>2. ASSUME Quiet' PROVE QuietInv'
  <2>1. faults \in Nat
    BY <1>1, EnrichmentAssumption DEF EnrichmentAssumption, TypeInv, RestInv
  <2>2. ~Fault
    BY <1>2, <2>1 DEF Quiet, Fault
  <2>3. /\ \A p \in Pollers : ~StatementFails(p) /\ ~Crash(p)
        /\ \A r \in Reports : ~AdminEditBreaks(r)
    BY <2>2 DEF StatementFails, Crash, AdminEditBreaks
  <2>4. CASE \E p \in Pollers : Poll(p) \/ InCycle(p)
    <3>1. Quiet
      BY <1>2, <2>4 DEF Quiet, Poll, InCycle, Take, EndCycle, Lookup, Extract, ExtractFails, Save,
                        Write, Announce, Fail
    <3> QED
      BY <1>1, <2>4, <3>1, PollerStep DEF PollerInv
  <2>5. ASSUME \/ \E r \in Reports :
                    \/ Parse(r) \/ Submit(r) \/ RetryComesDue(r) \/ Reparse(r)
                    \/ AdminEdit(r) \/ AdminVerify(r)
               \/ \E S \in SUBSET Reports : ReEnrich(S)
               \/ \E t \in Texts : AdminCacheEdit(t) \/ AdminCacheDelete(t)
               \/ UNCHANGED vars
        PROVE  QuietInv'
    <3>1. faults' = faults
      BY <2>5 DEF Parse, Submit, RetryComesDue, Reparse, AdminEdit, AdminVerify, ReEnrich,
                  AdminCacheEdit, AdminCacheDelete, vars
    <3> QED
      BY <1>1, <1>2, <2>5, <3>1, OtherRequests DEF PollerInv, Quiet
  <2> QED
    BY <2>3, <2>4, <2>5 DEF Next
<1> QED
  BY <1>1, <1>2 DEF PollerInv

LEMMA PollerInvariant == Alone => (Spec => []PollerInv)
<1> SUFFICES ASSUME Alone PROVE Spec => []PollerInv
  OBVIOUS
<1>1. Init => PollerInv
  BY TypeInit, OneRecordInit, QuietInit DEF PollerInv
<1>2. PollerInv /\ [Next]_vars => PollerInv'
  BY PollerInvStep
<1> QED
  BY <1>1, <1>2, PTL DEF Spec

(* With one poller and until the first fault, a report that an             *)
(* administrator sends to enrichment again after it had settled            *)
(* (reEnrichEvent, reEnrichBatch) stays pending until findPending selects  *)
(* it: no attempt begun before answers for the new one.                    *)
THEOREM RequestsCorrect == Alone => (Spec => []RequestServed)
<1>1. PollerInv => RequestServed
  BY DEF PollerInv, QuietInv, RowsQuiet, RequestServed
<1> QED
  BY <1>1, PollerInvariant, PTL

(* With one poller and until the first fault, the map shows (enriched_at)  *)
(* no report that enrichment still works on or has given up: what takes a report back to pending clears enriched_at,   *)
(* and the catch of enrichEvent never meets a report that is shown.        *)
THEOREM ShownCorrect == Alone => (Spec => []ShownIsEnriched)
<1>1. PollerInv => ShownIsEnriched
  BY DEF PollerInv, QuietInv, RowsQuiet, ShownIsEnriched
<1> QED
  BY <1>1, PollerInvariant, PTL

(* With one poller and until the first fault, new_report goes out at most  *)
(* once for each time a report is made pending (enrichEvent:               *)
(* findVisibleReportById and publish).                                     *)
THEOREM AnnouncedCorrect == Alone => (Spec => []AnnouncedOnce)
<1>1. PollerInv => AnnouncedOnce
  BY DEF PollerInv, QuietInv, RowsQuiet, AnnouncedOnce
<1> QED
  BY <1>1, PollerInvariant, PTL

\* What a step of a poller, also one that fails, does to a status.
LEMMA PollerChangesOpen ==
    ASSUME ProcInv, RowInv, [Next]_vars, NEW p \in Pollers, NEW r \in Reports,
           pc'[p] # pc[p], row'[r].enrich # row[r].enrich
    PROVE  \E q \in Pollers : pc[q] \in {"write", "fail"} /\ cur[q].id = r
<1>1. ASSUME UNCHANGED pc PROVE FALSE
  BY <1>1
<1>2. PICK q \in Pollers : Poll(q) \/ InCycle(q) \/ StatementFails(q) \/ Crash(q)
  <2>1. \A s \in Reports :
           /\ Parse(s) \/ Submit(s) \/ RetryComesDue(s) \/ Reparse(s) => UNCHANGED pc
           /\ AdminEdit(s) \/ AdminVerify(s) \/ AdminEditBreaks(s) => UNCHANGED pc
    BY DEF Parse, Submit, RetryComesDue, Reparse, AdminEdit, AdminVerify, AdminEditBreaks, procVars
  <2>2. \A S \in SUBSET Reports : ReEnrich(S) => UNCHANGED pc
    BY DEF ReEnrich, procVars
  <2>3. \A t \in Texts : AdminCacheEdit(t) \/ AdminCacheDelete(t) => UNCHANGED pc
    BY DEF AdminCacheEdit, AdminCacheDelete, procVars
  <2>4. UNCHANGED vars => UNCHANGED pc
    BY DEF vars, procVars
  <2> QED
    BY <1>1, <2>1, <2>2, <2>3, <2>4 DEF Next
<1>3. row' # row
  OBVIOUS
<1>4. \/ pc[q] = "write" /\ Storable(q) /\ StoreEnriched(q)
      \/ Fail(q)
  BY <1>2, <1>3 DEF Poll, InCycle, Take, EndCycle, Lookup, Extract, ExtractFails, Save, Write,
                    Announce, StatementFails, Crash
<1>5. \A s \in Reports : s # cur[q].id => row'[s] = row[s]
  <2>1. CASE pc[q] = "write" /\ Storable(q) /\ StoreEnriched(q)
    BY <2>1, EnrichedStored
  <2>2. CASE Fail(q)
    BY <2>2 DEF Fail, RowInv
  <2> QED
    BY <1>4, <2>1, <2>2
<1>6. cur[q].id = r /\ pc[q] \in {"write", "fail"}
  BY <1>4, <1>5 DEF Fail
<1> QED
  BY <1>6

(* With one poller and until the first fault, the poller never reopens or  *)
(* settles anew a report that is settled (enrichEvent's UPDATEs, which go  *)
(* by id alone): no record of such a report is in its hands before it      *)
(* writes.                                                                 *)
THEOREM SettledCorrect == Alone => (Spec => PollerLeavesSettled)
<1> SUFFICES ASSUME Alone PROVE Spec => PollerLeavesSettled
  OBVIOUS
<1> DEFINE Leaves == \A p \in Pollers, r \in Reports :
                        Quiet /\ pc'[p] # pc[p] /\ row'[r].enrich # row[r].enrich
                        => row[r].enrich \notin Settled
<1>1. PollerInv /\ [Next]_vars => [Leaves]_vars
  <2> SUFFICES ASSUME PollerInv, [Next]_vars, NEW p \in Pollers, NEW r \in Reports,
                      Quiet, pc'[p] # pc[p], row'[r].enrich # row[r].enrich
               PROVE  row[r].enrich \notin Settled
    OBVIOUS
  <2>1. ProcInv /\ RowInv /\ OpenUnsettled
    BY DEF PollerInv, TypeInv, QuietInv
  <2>2. PICK q \in Pollers : pc[q] \in {"write", "fail"} /\ cur[q].id = r
    BY <2>1, PollerChangesOpen
  <2>3. row[r].enrich \in Unsettled
    BY <2>1, <2>2, WorkIsOpen
  <2> QED
    BY <2>3 DEF Unsettled, Settled
<1> QED
  BY <1>1, PollerInvariant, PTL DEF Spec, PollerLeavesSettled
=============================================================================
