-------------------------- MODULE EnrichmentProofs --------------------------
(***************************************************************************)
(* Theorems about Enrichment for any set of reports, of texts and of       *)
(* pollers, any batch size, attempt budget and number of faults and        *)
(* requests.                                                               *)
(***************************************************************************)
EXTENDS Enrichment, TLAPS

(* Type correctness.  A failed attempt adds one to the attempts of a       *)
(* record that was selected as pending, so the bound on the column needs a *)
(* sharper one on pending rows and on the records taken from them.         *)
AttemptsLeft(n) == n + 1 <= MaxAttempts + requests

RowInv ==
    /\ row \in [Reports -> Rows]
    /\ \A r \in Reports :
          /\ row[r].attempts <= MaxAttempts + requests
          /\ row[r].enrich \in {"absent", "pending"} => AttemptsLeft(row[r].attempts)

CacheInv == cache \in [Texts -> Entries \cup {NoEntry}]

ProcInv ==
    /\ pc    \in [Pollers -> Steps]
    /\ batch \in [Pollers -> SUBSET Records]
    /\ cur   \in [Pollers -> Records \cup {NoRecord}]
    /\ ext   \in [Pollers -> Extractions \cup {NoExtraction}]
    /\ \A p \in Pollers :
          /\ pc[p] \notin {"idle", "next"} <=> cur[p] # NoRecord
          /\ pc[p] \in {"save", "write"} => ext[p] # NoExtraction
          /\ pc[p] = "save" => Storable(p)
          /\ \A rec \in Held(p) : AttemptsLeft(rec.attempts)

RestInv ==
    /\ edits     \subseteq Reports
    /\ failures  \in [Reports -> 0..MaxAttempts]
    /\ erred     \subseteq Reports
    /\ announced \in [Reports -> 0..2]
    /\ asked     \subseteq Reports
    /\ approved  \subseteq Texts
    /\ late      \subseteq Texts
    /\ kept      \subseteq Reports
    /\ faults    \in 0..MaxFaults
    /\ requests  \in 0..MaxRequests

TypeInv == RowInv /\ CacheInv /\ ProcInv /\ RestInv

LEMMA TypeInvOK == TypeInv => TypeOK
  BY DEF TypeInv, RowInv, CacheInv, ProcInv, RestInv, TypeOK

LEMMA TypeInit == Init => TypeInv
  BY EnrichmentAssumption
     DEF EnrichmentAssumption, Init, TypeInv, RowInv, CacheInv, ProcInv, RestInv, AttemptsLeft,
         Held, Rows, Statuses, Methods, Contents, Steps

(* What the statements that write a row or a cache entry make of it.       *)
LEMMA RowStored ==
    ASSUME row \in [Reports -> Rows], NEW r \in Reports, NEW new \in Rows,
           row' = [row EXCEPT ![r] = new]
    PROVE  /\ row' \in [Reports -> Rows]
           /\ row'[r] = new
           /\ \A s \in Reports : s # r => row'[s] = row[s]
  OBVIOUS

LEMMA RowWritten ==
    ASSUME RowInv, NEW r \in Reports, NEW new \in Rows, row' = [row EXCEPT ![r] = new],
           MaxAttempts \in Nat, requests \in Nat, requests' \in {requests, requests + 1},
           new.attempts <= MaxAttempts + requests',
           new.enrich \in {"absent", "pending"} => new.attempts + 1 <= MaxAttempts + requests'
    PROVE  RowInv'
<1>1. /\ row' \in [Reports -> Rows]
      /\ row'[r] = new
      /\ \A s \in Reports : s # r => row'[s] = row[s]
  BY RowStored DEF RowInv
<1>2. ASSUME NEW s \in Reports PROVE row[s].attempts \in Nat
  BY DEF RowInv, Rows
<1> QED
  BY <1>1, <1>2 DEF RowInv, AttemptsLeft

LEMMA InWork ==
    ASSUME ProcInv, NEW p \in Pollers, pc[p] \notin {"idle", "next"}
    PROVE  cur[p] \in Records /\ cur[p] \in Held(p) /\ cur[p].id \in Reports
  BY DEF ProcInv, Held, Records

LEMMA EnrichedStored ==
    ASSUME RowInv, ProcInv, NEW p \in Pollers, pc[p] = "write", Storable(p), StoreEnriched(p)
    PROVE  /\ row' \in [Reports -> Rows]
           /\ row'[cur[p].id].enrich   = "enriched"
           /\ row'[cur[p].id].shown    = TRUE
           /\ row'[cur[p].id].attempts = row[cur[p].id].attempts
           /\ \A s \in Reports : s # cur[p].id => row'[s] = row[s]
<1> DEFINE old == row[cur[p].id]
           m   == IF ext[p].source = "keyword" THEN old.method ELSE ext[p].source
           new == [old EXCEPT !.enrich = "enriched", !.content = ext[p].content,
                              !.method = m, !.shown = TRUE]
<1>1. cur[p].id \in Reports /\ ext[p] \in Extractions
  BY InWork DEF ProcInv
<1>2. old \in Rows
  BY <1>1 DEF RowInv
<1>3. ext[p].content \in Contents /\ m \in Methods
  <2>1. old.method \in Methods
    BY <1>2 DEF Rows
  <2> QED
    BY <2>1, <1>1 DEF Storable, Extractions, Sources, Methods
<1>4. row' = [row EXCEPT ![cur[p].id] = new]
  BY DEF StoreEnriched
<1>5. /\ new \in Rows
      /\ new.enrich = "enriched" /\ new.shown = TRUE /\ new.attempts = old.attempts
  <2> HIDE DEF old, m
  <2> QED
    BY <1>2, <1>3 DEF Rows, Statuses
<1> HIDE DEF new
<1>6. row \in [Reports -> Rows]
  BY DEF RowInv
<1> QED
  BY <1>1, <1>4, <1>5, <1>6, RowStored

LEMMA UpsertStored ==
    ASSUME CacheInv, NEW t \in Texts, NEW content \in Contents, NEW verified \in BOOLEAN,
           Upsert(t, content, verified)
    PROVE  /\ CacheInv'
           /\ cache'[t].verified => (verified \/ (cache[t] # NoEntry /\ cache[t].verified))
           /\ \A u \in Texts : u # t => cache'[u] = cache[u]
<1>1. [hits |-> 0, verified |-> verified, content |-> content] \in Entries
  BY DEF Entries
<1>2. ASSUME cache[t] # NoEntry
      PROVE  [cache[t] EXCEPT !.verified = cache[t].verified \/ verified,
                              !.content  = content] \in Entries
  <2>1. cache[t] \in Entries
    BY <1>2 DEF CacheInv
  <2>2. (cache[t].verified \/ verified) \in BOOLEAN
    OBVIOUS
  <2> QED
    BY <2>1, <2>2 DEF Entries
<1>3. CacheInv'
  BY <1>1, <1>2 DEF Upsert, CacheInv
<1>4. CASE cache[t] = NoEntry
  BY <1>3, <1>4 DEF Upsert, CacheInv
<1>5. CASE cache[t] # NoEntry
  <2>1. cache[t] \in Entries
    BY <1>5 DEF CacheInv
  <2> QED
    BY <1>3, <1>5, <2>1 DEF Upsert, CacheInv, Entries
<1> QED
  BY <1>4, <1>5

LEMMA HitCounted ==
    ASSUME CacheInv, ProcInv, NEW p \in Pollers, pc[p] = "lookup", CountHit(p)
    PROVE  /\ CacheInv'
           /\ \A t \in Texts :
                 /\ cache'[t] = NoEntry <=> cache[t] = NoEntry
                 /\ cache[t] # NoEntry => cache'[t].verified = cache[t].verified
<1>1. CurText(p) \in Texts \cup {NoText}
  BY InWork, EnrichmentAssumption DEF EnrichmentAssumption, CurText
<1>2. CASE cache' = cache
  BY <1>2 DEF CacheInv
<1>3. CASE CurText(p) # NoText /\ cache[CurText(p)] # NoEntry
  <2>1. cache[CurText(p)] \in Entries
    BY <1>1, <1>3 DEF CacheInv
  <2>2. Up(cache[CurText(p)].hits, 3) \in 0..3
    BY <2>1 DEF Up, Entries
  <2>3. [cache[CurText(p)] EXCEPT !.hits = Up(cache[CurText(p)].hits, 3)] \in Entries
    BY <2>1, <2>2 DEF Entries
  <2>4. cache' = [cache EXCEPT ![CurText(p)] =
                     [cache[CurText(p)] EXCEPT !.hits = Up(cache[CurText(p)].hits, 3)]]
    BY <1>3 DEF CountHit
  <2> QED
    BY <1>1, <1>3, <2>1, <2>3, <2>4, EnrichmentAssumption DEF EnrichmentAssumption, CacheInv, Entries
<1> QED
  BY <1>2, <1>3 DEF CountHit

LEMMA ExtractionSaved ==
    ASSUME CacheInv, ProcInv, RestInv, NEW p \in Pollers, pc[p] = "save",
           SaveExtraction(p)
    PROVE  CacheInv' /\ approved' \subseteq Texts
<1>1. CurText(p) \in Texts \cup {NoText}
  BY InWork, EnrichmentAssumption DEF EnrichmentAssumption, CurText
<1>2. CASE CurText(p) = NoText
  BY <1>2 DEF SaveExtraction, CacheInv, RestInv
<1>3. CASE CurText(p) # NoText
  <2>1. ext[p].content \in Contents
    BY DEF ProcInv, Storable, Extractions
  <2> QED
    BY <1>1, <1>3, <2>1, UpsertStored DEF SaveExtraction, RestInv
<1> QED
  BY <1>2, <1>3

LEMMA TypeStep == TypeInv /\ [Next]_vars => TypeInv'
<1> SUFFICES ASSUME RowInv, CacheInv, ProcInv, RestInv, [Next]_vars
             PROVE  RowInv' /\ CacheInv' /\ ProcInv' /\ RestInv'
  BY DEF TypeInv
<1>0. /\ MaxAttempts \in Nat /\ MaxFaults \in Nat /\ MaxRequests \in Nat
      /\ requests \in Nat /\ faults \in Nat
      /\ NoRecord \notin Records /\ NoExtraction \notin Extractions
  BY EnrichmentAssumption DEF EnrichmentAssumption, RestInv
<1> DEFINE Goal == RowInv' /\ CacheInv' /\ ProcInv' /\ RestInv'
<1>1. ASSUME NEW p \in Pollers, Poll(p) PROVE Goal
  <2>1. PICK B \in SUBSET {r \in Reports : Due(r)} :
           /\ batch' = [batch EXCEPT ![p] = {Selected(r) : r \in B}]
           /\ asked' = asked \ B
    BY <1>1 DEF Poll
  <2>2. ASSUME NEW r \in B
        PROVE  Selected(r) \in Records /\ AttemptsLeft(Selected(r).attempts)
    BY DEF RowInv, Due, Selected, Records, Rows
  <2>3. batch' \in [Pollers -> SUBSET Records]
    BY <2>1, <2>2 DEF ProcInv
  <2>4. \A q \in Pollers : \A rec \in Held(q)' : AttemptsLeft(rec.attempts)
    <3>1. \A q \in Pollers : \A rec \in batch'[q] : AttemptsLeft(rec.attempts)
      BY <2>1, <2>2 DEF ProcInv, Held
    <3> QED
      BY <1>1, <3>1 DEF Poll, ProcInv, Held
  <2>5. ProcInv'
    BY <1>1, <2>3, <2>4 DEF Poll, ProcInv, Steps, AttemptsLeft, Storable
  <2> QED
    BY <1>1, <2>1, <2>5 DEF Poll, RowInv, CacheInv, RestInv, AttemptsLeft
<1>2. ASSUME NEW p \in Pollers, Take(p) PROVE Goal
  BY <1>0, <1>2 DEF Take, RowInv, CacheInv, ProcInv, RestInv, Held, AttemptsLeft, Storable, Steps, histVars
<1>3. ASSUME NEW p \in Pollers, EndCycle(p) PROVE Goal
  BY <1>3 DEF EndCycle, RowInv, CacheInv, ProcInv, RestInv, Held, AttemptsLeft, Storable, Steps, histVars
<1>4. ASSUME NEW p \in Pollers, Lookup(p) PROVE Goal
  <2>1. CacheInv'
    BY <1>4, HitCounted DEF Lookup
  <2>2. CurText(p) \in Texts \cup {NoText}
    BY <1>4, InWork, EnrichmentAssumption DEF EnrichmentAssumption, Lookup, CurText
  <2>3. cur[p].content \in Contents
    BY <1>4, InWork DEF Lookup, Records
  <2>4. /\ ext' \in [Pollers -> Extractions \cup {NoExtraction}]
        /\ \A q \in Pollers :
              /\ pc'[q] \in {"save", "write"} => ext'[q] # NoExtraction
              /\ pc'[q] = "save" => Storable(q)'
    <3>1. CASE CurText(p) # NoText /\ PairResults
      BY <1>0, <1>4, <3>1 DEF Lookup, ProcInv, Storable, Extractions, Sources, Steps
    <3>2. CASE CurText(p) # NoText /\ ~PairResults /\ Served(CurText(p))
      <4>1. cache[CurText(p)].content \in Contents
        BY <2>2, <3>2 DEF Served, CacheInv, Entries
      <4> QED
        BY <1>0, <1>4, <3>2, <4>1 DEF Lookup, ProcInv, Storable, Extractions, Sources, Steps
    <3>3. CASE CurText(p) = NoText \/ (~PairResults /\ ~Served(CurText(p)))
      BY <1>0, <1>4, <2>3, <3>3 DEF Lookup, ProcInv, Storable, Extractions, Sources, Steps, Contents
    <3> QED
      BY <3>1, <3>2, <3>3
  <2>5. pc' \in [Pollers -> Steps] /\ \A q \in Pollers : pc'[q] \notin {"idle", "next"} <=> cur'[q] # NoRecord
    BY <1>4 DEF Lookup, ProcInv, Steps
  <2> QED
    BY <1>4, <2>1, <2>4, <2>5 DEF Lookup, RowInv, ProcInv, RestInv, Held, AttemptsLeft, histVars
<1>5. ASSUME NEW p \in Pollers, Extract(p) PROVE Goal
  BY <1>0, <1>5 DEF Extract, RowInv, CacheInv, ProcInv, RestInv, Held, AttemptsLeft, Storable, Steps,
              histVars, Extractions, Sources, Contents
<1>6. ASSUME NEW p \in Pollers, ExtractFails(p) PROVE Goal
  BY <1>0, <1>6, InWork DEF ExtractFails, Errs, Caught, Up, RowInv, CacheInv, ProcInv, RestInv, Held,
                      AttemptsLeft, Storable, Steps
<1>7. ASSUME NEW p \in Pollers, Save(p) PROVE Goal
  <2>1. CacheInv' /\ approved' \subseteq Texts
    BY <1>7, ExtractionSaved DEF Save
  <2> QED
    BY <1>7, <2>1 DEF Save, RowInv, ProcInv, RestInv, Held, AttemptsLeft, Storable, Steps
<1>8. ASSUME NEW p \in Pollers, Write(p) PROVE Goal
  <2>1. RowInv'
    <3>1. CASE Storable(p) /\ StoreEnriched(p)
      BY <1>8, <3>1, EnrichedStored DEF Write, RowInv, AttemptsLeft
    <3>2. CASE row' = row
      BY <1>8, <3>2 DEF Write, RowInv, AttemptsLeft
    <3> QED
      BY <1>8, <3>1, <3>2 DEF Write
  <2>2. failures' \in [Reports -> 0..MaxAttempts]
    BY <1>0, <1>8, InWork DEF Write, Caught, Up, RestInv
  <2>3. ProcInv'
    BY <1>8 DEF Write, Caught, ProcInv, Held, AttemptsLeft, Storable, Steps
  <2> QED
    BY <1>8, <2>1, <2>2, <2>3 DEF Write, CacheInv, RestInv
<1>9. ASSUME NEW p \in Pollers, Announce(p) PROVE Goal
  <2>1. announced' \in [Reports -> 0..2]
    BY <1>9, InWork DEF Announce, Up, RestInv
  <2>2. ProcInv'
    BY <1>9 DEF Announce, Done, ProcInv, Held, AttemptsLeft, Storable, Steps
  <2> QED
    BY <1>9, <2>1, <2>2 DEF Announce, RowInv, CacheInv, RestInv, AttemptsLeft
<1>10. ASSUME NEW p \in Pollers, Fail(p) PROVE Goal
  <2> DEFINE old == row[cur[p].id]
             new == [old EXCEPT !.enrich   = IF Exhausted(p) THEN "failed" ELSE "pending",
                                !.attempts = cur[p].attempts + 1,
                                !.due      = IF Exhausted(p) THEN "null" ELSE "future"]
  <2>1. /\ cur[p].id \in Reports
        /\ cur[p].attempts \in Nat
        /\ AttemptsLeft(cur[p].attempts)
    BY <1>10, InWork DEF Fail, ProcInv, Records
  <2>2. old \in Rows
    BY <2>1 DEF RowInv
  <2>3. row' = [row EXCEPT ![cur[p].id] = new]
    BY <1>10 DEF Fail
  <2>4. /\ new \in Rows
        /\ new.attempts = cur[p].attempts + 1
        /\ new.enrich \in {"absent", "pending"} => ~Exhausted(p)
    <3> HIDE DEF old
    <3>1. /\ (IF Exhausted(p) THEN "failed" ELSE "pending") \in Statuses
          /\ (IF Exhausted(p) THEN "null" ELSE "future") \in {"null", "future", "passed"}
      BY DEF Statuses
    <3>2. cur[p].attempts + 1 \in Nat
      BY <2>1
    <3>3. new \in Rows
      BY <2>2, <3>1, <3>2 DEF Rows
    <3> QED
      BY <2>2, <3>3 DEF Rows
  <2>5. RowInv'
    <3> HIDE DEF new
    <3>1. /\ cur[p].attempts + 1 <= MaxAttempts + requests
          /\ ~Exhausted(p) => cur[p].attempts + 1 + 1 <= MaxAttempts + requests
      BY <1>0, <2>1 DEF AttemptsLeft, Exhausted
    <3>2. requests' = requests
      BY <1>10 DEF Fail
    <3> QED
      BY <1>0, <2>1, <2>3, <2>4, <3>1, <3>2, RowWritten DEF AttemptsLeft
  <2>6. ProcInv'
    BY <1>10 DEF Fail, Done, ProcInv, Held, AttemptsLeft, Storable, Steps
  <2> QED
    BY <1>10, <2>5, <2>6 DEF Fail, CacheInv, RestInv, histVars
<1>11. ASSUME NEW p \in Pollers, StatementFails(p) PROVE Goal
  <2>1. pc[p] \notin {"idle", "next"} /\ cur[p].id \in Reports
    BY <1>11, InWork DEF StatementFails
  <2>2. RowInv'
    <3>1. CASE pc[p] = "write" /\ Storable(p) /\ StoreEnriched(p)
      BY <1>11, <3>1, EnrichedStored DEF StatementFails, RowInv, AttemptsLeft
    <3>2. CASE row' = row
      BY <1>11, <3>2 DEF StatementFails, RowInv, AttemptsLeft
    <3> QED
      BY <1>11, <3>1, <3>2 DEF StatementFails
  <2>3. CacheInv' /\ approved' \subseteq Texts
    <3>1. CASE pc[p] = "lookup" /\ CountHit(p) /\ approved' = approved
      BY <3>1, HitCounted DEF RestInv
    <3>2. CASE pc[p] = "save" /\ SaveExtraction(p)
      BY <3>2, ExtractionSaved
    <3>3. CASE cache' = cache /\ approved' = approved
      BY <3>3 DEF CacheInv, RestInv
    <3> QED
      BY <1>11, <3>1, <3>2, <3>3 DEF StatementFails
  <2>4. failures' \in [Reports -> 0..MaxAttempts]
    BY <1>0, <1>11, <2>1 DEF StatementFails, Errs, Caught, Up, RestInv
  <2>5. ProcInv'
    BY <1>11, <2>1 DEF StatementFails, Errs, Caught, ProcInv, Held, AttemptsLeft, Storable, Steps
  <2> QED
    BY <1>0, <1>11, <2>1, <2>2, <2>3, <2>4, <2>5 DEF StatementFails, Errs, Fault, RestInv
<1>12. ASSUME NEW p \in Pollers, Crash(p) PROVE Goal
  BY <1>0, <1>12 DEF Crash, Fault, RowInv, CacheInv, ProcInv, RestInv, Held, AttemptsLeft, Storable,
               Steps, histVars
<1>13. ASSUME NEW r \in Reports, Parse(r) PROVE Goal
  <2>1. ParsedAs[r].enrich \in Statuses /\ ParsedAs[r].method \in Methods
    BY EnrichmentAssumption DEF EnrichmentAssumption, ParseResults, Statuses, Methods
  <2>2. RowInv'
    BY <1>0, <1>13, <2>1 DEF Parse, Exists, RowInv, Rows, AttemptsLeft
  <2> QED
    BY <1>13, <2>2 DEF Parse, CacheInv, ProcInv, RestInv, Held, AttemptsLeft, Storable,
                       procVars, histVars
<1>14. ASSUME NEW r \in Reports, Submit(r) PROVE Goal
  <2> DEFINE old == row[r]
             new == [old EXCEPT !.enrich = "enriched", !.shown = TRUE]
  <2>2. old \in Rows /\ old.attempts <= MaxAttempts + requests
    BY DEF RowInv
  <2>3. row' = [row EXCEPT ![r] = new] /\ requests' = requests
    BY <1>14 DEF Submit
  <2>4. new \in Rows /\ new.attempts = old.attempts /\ new.enrich = "enriched"
    <3> HIDE DEF old
    <3> QED
      BY <2>2 DEF Rows, Statuses
  <2>1. RowInv'
    <3> HIDE DEF old, new
    <3> QED
      BY <1>0, <2>2, <2>3, <2>4, RowWritten
  <2> QED
    BY <1>14, <2>1 DEF Submit, CacheInv, ProcInv, RestInv, Held, AttemptsLeft, Storable,
                       procVars, histVars
<1>15. ASSUME NEW r \in Reports, RetryComesDue(r) PROVE Goal
  <2>1. RowInv'
    BY <1>15 DEF RetryComesDue, RowInv, Rows, AttemptsLeft
  <2> QED
    BY <1>15, <2>1 DEF RetryComesDue, CacheInv, ProcInv, RestInv, Held, AttemptsLeft, Storable,
                       procVars, histVars
<1>16. ASSUME NEW r \in Reports, Reparse(r) PROVE Goal
  <2>1. ParsedAs[r].enrich \in Statuses /\ ParsedAs[r].method \in Methods
    BY EnrichmentAssumption DEF EnrichmentAssumption, ParseResults, Statuses, Methods
  <2>2. requests' = requests + 1 /\ requests' \in 0..MaxRequests
    BY <1>0, <1>16 DEF Reparse, Request
  <2> DEFINE old == row[r]
             new == [old EXCEPT !.enrich  = ParsedAs[r].enrich,
                                !.method  = ParsedAs[r].method,
                                !.content = "message",
                                !.shown   = FALSE]
  <2>5. old \in Rows /\ old.attempts <= MaxAttempts + requests
    BY DEF RowInv
  <2>6. row' = [row EXCEPT ![r] = new]
    BY <1>16 DEF Reparse
  <2>7. new \in Rows /\ new.attempts = old.attempts /\ old.attempts \in Nat
    <3> HIDE DEF old
    <3> QED
      BY <2>1, <2>5 DEF Rows, Contents
  <2>3. RowInv'
    <3> HIDE DEF old, new
    <3>1. /\ old.attempts <= MaxAttempts + requests'
          /\ old.attempts + 1 <= MaxAttempts + requests'
      BY <1>0, <2>2, <2>5, <2>7
    <3> QED
      BY <1>0, <2>2, <2>6, <2>7, <3>1, RowWritten
  <2>4. ProcInv'
    BY <1>0, <1>16, <2>2 DEF Reparse, ProcInv, Held, Records, AttemptsLeft, Storable, procVars
  <2> QED
    BY <1>0, <1>16, <2>3, <2>4 DEF Reparse, Request, CacheInv, RestInv
<1>17. ASSUME NEW r \in Reports, AdminEdit(r) PROVE Goal
  <2>1. requests' = requests + 1 /\ requests' \in 0..MaxRequests
    BY <1>0, <1>17 DEF AdminEdit, Request
  <2> DEFINE old == row[r]
             new == [old EXCEPT !.content = "admin", !.edited = TRUE]
  <2>5. old \in Rows /\ old.attempts <= MaxAttempts + requests
    BY DEF RowInv
  <2>6. row' = [row EXCEPT ![r] = new]
    BY <1>17 DEF AdminEdit
  <2>7. new \in Rows /\ new.attempts = old.attempts /\ old.attempts \in Nat
    <3> HIDE DEF old
    <3> QED
      BY <2>5 DEF Rows, Contents
  <2>2. RowInv'
    <3> HIDE DEF old, new
    <3>1. /\ old.attempts <= MaxAttempts + requests'
          /\ old.attempts + 1 <= MaxAttempts + requests'
      BY <1>0, <2>1, <2>5, <2>7
    <3> QED
      BY <1>0, <2>1, <2>6, <2>7, <3>1, RowWritten
  <2>3. ProcInv'
    BY <1>0, <1>17, <2>1 DEF AdminEdit, ProcInv, Held, Records, AttemptsLeft, Storable, procVars
  <2> QED
    BY <1>0, <1>17, <2>2, <2>3 DEF AdminEdit, Request, CacheInv, RestInv, histVars
<1>18. ASSUME NEW r \in Reports, AdminVerify(r) PROVE Goal
  <2>1. CacheInv' /\ approved' \subseteq Texts /\ late' \subseteq Texts
    <3>1. CASE TextOf[r] = NoText
      BY <1>18, <3>1 DEF AdminVerify, CacheInv, RestInv
    <3>2. CASE TextOf[r] # NoText
      <4>1. TextOf[r] \in Texts /\ "admin" \in Contents /\ TRUE \in BOOLEAN
        BY <3>2, EnrichmentAssumption DEF EnrichmentAssumption, Contents
      <4>2. Upsert(TextOf[r], "admin", TRUE) /\ Approve(TextOf[r])
        BY <1>18, <3>2 DEF AdminVerify
      <4> QED
        BY <4>1, <4>2, UpsertStored DEF Approve, RestInv
    <3> QED
      BY <3>1, <3>2
  <2> QED
    BY <1>18, <2>1 DEF AdminVerify, RowInv, ProcInv, RestInv, Held, AttemptsLeft, Storable, procVars
<1>19. ASSUME NEW r \in Reports, AdminEditBreaks(r) PROVE Goal
  BY <1>0, <1>19 DEF AdminEditBreaks, Fault, RowInv, CacheInv, ProcInv, RestInv, Held, AttemptsLeft,
               Storable, procVars, histVars
<1>20. ASSUME NEW S \in SUBSET Reports, ReEnrich(S) PROVE Goal
  <2>1. requests' = requests + 1 /\ requests' \in 0..MaxRequests
    <3>1. Request
      BY <1>20 DEF ReEnrich
    <3> QED
      BY <1>0, <3>1 DEF Request
  <2> DEFINE Again(r) == [row[r] EXCEPT !.enrich = "pending", !.attempts = 0,
                                        !.due = "null", !.shown = FALSE]
  <2>2. row' = [r \in Reports |-> IF r \in S THEN Again(r) ELSE row[r]]
    BY <1>20 DEF ReEnrich
  <2>3. ASSUME NEW r \in Reports PROVE row[r] \in Rows /\ Again(r) \in Rows /\ Again(r).attempts = 0
    <3>1. row[r] \in Rows
      BY DEF RowInv
    <3>2. ASSUME NEW x \in Rows
          PROVE  LET y == [x EXCEPT !.enrich = "pending", !.attempts = 0,
                                    !.due = "null", !.shown = FALSE]
                 IN  y \in Rows /\ y.attempts = 0
      BY DEF Rows, Statuses
    <3> QED
      BY <3>1, <3>2
  <2>4. RowInv'
    <3> HIDE DEF Again
    <3>1. /\ row' \in [Reports -> Rows]
          /\ \A r \in Reports : row'[r] = row[r] \/ row'[r].attempts = 0
      BY <2>2, <2>3
    <3>2. \A r \in Reports : row[r].attempts \in Nat
      BY DEF RowInv, Rows
    <3>3. 0 + 1 <= MaxAttempts + requests + 1
      BY <1>0
    <3> QED
      BY <1>0, <2>1, <3>1, <3>2, <3>3 DEF RowInv, AttemptsLeft
  <2>5. ProcInv'
    <3>1. UNCHANGED procVars
      BY <1>20 DEF ReEnrich
    <3> QED
      BY <1>0, <2>1, <3>1 DEF ProcInv, Held, Records, AttemptsLeft, Storable, procVars
  <2>6. /\ announced' = [r \in Reports |-> IF r \in S THEN 0 ELSE announced[r]]
        /\ asked' = asked \cup {r \in S : row[r].enrich \in Settled}
        /\ kept' = kept \ S
        /\ UNCHANGED <<cache, edits, failures, erred, approved, late, faults>>
    BY <1>20 DEF ReEnrich
  <2> QED
    BY <2>1, <2>4, <2>5, <2>6 DEF CacheInv, RestInv
<1>21. ASSUME NEW t \in Texts, AdminCacheEdit(t) PROVE Goal
  <2>1. requests' = requests + 1 /\ requests' \in 0..MaxRequests
    BY <1>0, <1>21 DEF AdminCacheEdit, Request
  <2>2. CacheInv'
    <3>1. cache[t] \in Entries
      BY <1>21 DEF AdminCacheEdit, CacheInv
    <3>2. PICK content \in {cache[t].content, "admin"}, verified \in BOOLEAN :
             cache' = [cache EXCEPT ![t] =
                          [cache[t] EXCEPT !.content = content, !.verified = verified]]
      BY <1>21 DEF AdminCacheEdit
    <3>3. content \in Contents
      BY <3>1 DEF Entries, Contents
    <3>4. [cache[t] EXCEPT !.content = content, !.verified = verified] \in Entries
      BY <3>1, <3>3 DEF Entries
    <3> QED
      BY <3>2, <3>4 DEF CacheInv
  <2>3. ProcInv'
    BY <1>0, <1>21, <2>1 DEF AdminCacheEdit, ProcInv, Held, Records, AttemptsLeft, Storable, procVars
  <2> QED
    BY <1>0, <1>21, <2>1, <2>2, <2>3 DEF AdminCacheEdit, Request, Approve, RowInv, Rows, RestInv, AttemptsLeft
<1>22. ASSUME NEW t \in Texts, AdminCacheDelete(t) PROVE Goal
  <2>1. requests' = requests + 1 /\ requests' \in 0..MaxRequests
    BY <1>0, <1>22 DEF AdminCacheDelete, Request
  <2>2. ProcInv'
    BY <1>0, <1>22, <2>1 DEF AdminCacheDelete, ProcInv, Held, Records, AttemptsLeft, Storable, procVars
  <2> QED
    BY <1>0, <1>22, <2>1, <2>2 DEF AdminCacheDelete, Request, RowInv, Rows, CacheInv, RestInv,
                             AttemptsLeft, histVars
<1>23. ASSUME UNCHANGED vars PROVE Goal
  BY <1>23 DEF RowInv, CacheInv, ProcInv, RestInv, Held, AttemptsLeft, Storable, vars,
               procVars, histVars
<1> HIDE DEF Goal
<1>24. ASSUME \E p \in Pollers : Poll(p) \/ InCycle(p) \/ StatementFails(p) \/ Crash(p)
       PROVE  Goal
  BY <1>1, <1>2, <1>3, <1>4, <1>5, <1>6, <1>7, <1>8, <1>9, <1>10, <1>11, <1>12, <1>24
     DEF InCycle
<1>25. ASSUME \E r \in Reports :
                 \/ Parse(r) \/ Submit(r) \/ RetryComesDue(r) \/ Reparse(r)
                 \/ AdminEdit(r) \/ AdminVerify(r) \/ AdminEditBreaks(r)
       PROVE  Goal
  BY <1>13, <1>14, <1>15, <1>16, <1>17, <1>18, <1>19, <1>25
<1>26. Goal
  BY <1>20, <1>21, <1>22, <1>23, <1>24, <1>25 DEF Next
<1> QED
  BY <1>26 DEF Goal

(* TypeOK holds, the bound of enrich_attempts (selected attempts plus one)  *)
(* included.                                                               *)
THEOREM TypeCorrect == Spec => []TypeOK
  BY TypeInit, TypeStep, TypeInvOK, PTL DEF Spec

(***************************************************************************)
(* A verified cache row is what an admin approved.  What upholds it is     *)
(* that a verified row is served at its first hit: a poller that misses it *)
(* selected its text before the row was verified, and is then in           *)
(* extraction at the moment of the approval.                               *)
(***************************************************************************)
Verified(t) == cache[t] # NoEntry /\ cache[t].verified

ApprovalInv ==
    \A t \in Texts : Verified(t) /\ t \notin late => t \in approved /\ ~InExtraction(t)

LEMMA ApprovalKept ==
    ASSUME ApprovalInv,
           late' = late, approved \subseteq approved',
           \A t \in Texts : Verified(t)' => Verified(t),
           \A t \in Texts : InExtraction(t)' => Verified(t) \/ InExtraction(t),
           \A t \in Texts : InExtraction(t)' /\ Verified(t) => InExtraction(t)
    PROVE  ApprovalInv'
  BY DEF ApprovalInv

\* A step of one poller that does not start an extraction starts none at all.
LEMMA NoExtractionBegun ==
    ASSUME ProcInv, NEW p \in Pollers,
           \A q \in Pollers : q # p => pc'[q] = pc[q] /\ cur'[q] = cur[q],
           pc'[p] \in {"extract", "save"} =>
              pc[p] \in {"extract", "save"} /\ cur'[p] = cur[p]
    PROVE  \A t \in Texts : InExtraction(t)' => InExtraction(t)
  BY DEF InExtraction, CurText

LEMMA ApprovalInit == Init => ApprovalInv
  BY DEF Init, ApprovalInv, Verified

LEMMA ApprovalStep ==
    ASSUME TypeInv, ApprovalInv, [Next]_vars
    PROVE  ApprovalInv'
<1>0. RowInv /\ CacheInv /\ ProcInv /\ RestInv
  BY DEF TypeInv
<1>a. NoText \notin Texts /\ NoEntry \notin Entries
  BY EnrichmentAssumption DEF EnrichmentAssumption
<1>b. ASSUME UNCHANGED <<cache, pc, cur, approved, late>>
      PROVE  ApprovalInv'
  BY <1>b, ApprovalKept DEF Verified, InExtraction, CurText
<1>c. ASSUME NEW p \in Pollers, UNCHANGED <<cache, approved, late>>,
             \A q \in Pollers : q # p => pc'[q] = pc[q] /\ cur'[q] = cur[q],
             pc'[p] \in {"extract", "save"} =>
                pc[p] \in {"extract", "save"} /\ cur'[p] = cur[p]
      PROVE  ApprovalInv'
  <2>1. \A t \in Texts : InExtraction(t)' => InExtraction(t)
    BY <1>0, <1>c, NoExtractionBegun
  <2>2. \A t \in Texts : Verified(t)' <=> Verified(t)
    BY <1>c DEF Verified
  <2> QED
    BY <1>c, <2>1, <2>2, ApprovalKept
<1>1. ASSUME NEW p \in Pollers, Poll(p) \/ Take(p) \/ EndCycle(p) \/ Extract(p) \/ ExtractFails(p)
      PROVE  ApprovalInv'
  <2>1. /\ UNCHANGED <<cache, approved, late>>
        /\ \A q \in Pollers : q # p => pc'[q] = pc[q] /\ cur'[q] = cur[q]
    BY <1>0, <1>1 DEF Poll, Take, EndCycle, Extract, ExtractFails, Errs, Caught, ProcInv, histVars
  <2>2. pc'[p] \in {"extract", "save"} => pc[p] \in {"extract", "save"} /\ cur'[p] = cur[p]
    BY <1>0, <1>1 DEF Poll, Take, EndCycle, Extract, ExtractFails, Errs, Caught, ProcInv
  <2> QED
    BY <1>c, <2>1, <2>2
<1>2. ASSUME NEW p \in Pollers, Write(p) \/ Announce(p) \/ Fail(p) \/ Crash(p)
      PROVE  ApprovalInv'
  <2>1. /\ UNCHANGED <<cache, approved, late>>
        /\ \A q \in Pollers : q # p => pc'[q] = pc[q] /\ cur'[q] = cur[q]
    BY <1>0, <1>2 DEF Write, Caught, Announce, Fail, Crash, Done, ProcInv, histVars
  <2>2. pc'[p] \notin {"extract", "save"}
    BY <1>0, <1>2 DEF Write, Caught, Announce, Fail, Crash, Done, ProcInv
  <2> QED
    BY <1>c, <2>1, <2>2
<1>3. ASSUME NEW p \in Pollers, Lookup(p) PROVE ApprovalInv'
  <2>1. \A t \in Texts : Verified(t)' <=> Verified(t)
    BY <1>0, <1>3, HitCounted DEF Lookup, Verified
  <2>2. ASSUME NEW t \in Texts, InExtraction(t)', Verified(t) PROVE InExtraction(t)
    <3>1. PICK q \in Pollers : pc'[q] \in {"extract", "save"} /\ CurText(q)' = t
      BY <2>2 DEF InExtraction
    <3>2. cur' = cur
      BY <1>3 DEF Lookup
    <3>3. CASE q # p
      BY <1>0, <1>3, <3>1, <3>2, <3>3 DEF Lookup, ProcInv, InExtraction, CurText
    <3>4. CASE q = p
      <4>1. CurText(p) = t /\ t # NoText
        BY <1>a, <3>1, <3>2, <3>4 DEF CurText
      <4>2. ~Served(t)
        BY <1>0, <1>3, <3>1, <3>4, <4>1 DEF Lookup, ProcInv
      <4> QED
        BY <2>2, <4>2 DEF Served, Verified
    <3> QED
      BY <3>3, <3>4
  <2>3. late' = late /\ approved' = approved
    BY <1>3 DEF Lookup, histVars
  <2>4. ASSUME NEW t \in Texts, Verified(t)', t \notin late'
        PROVE  t \in approved' /\ ~InExtraction(t)'
    BY <2>1, <2>2, <2>3, <2>4 DEF ApprovalInv
  <2> QED
    BY <2>4 DEF ApprovalInv
<1>4. ASSUME NEW p \in Pollers, pc[p] = "save", SaveExtraction(p), late' = late, cur' = cur,
             \A q \in Pollers : q # p => pc'[q] = pc[q], pc'[p] \notin {"extract", "save"}
      PROVE  ApprovalInv'
  <2>1. CurText(p) \in Texts \cup {NoText}
    BY <1>0, <1>4, InWork, EnrichmentAssumption DEF EnrichmentAssumption, CurText
  <2>2. \A t \in Texts : InExtraction(t)' => InExtraction(t)
    BY <1>0, <1>4, NoExtractionBegun
  <2>3. CASE CurText(p) = NoText
    <3>1. cache' = cache /\ approved' = approved
      BY <1>4, <2>3 DEF SaveExtraction
    <3> QED
      BY <1>4, <2>2, <3>1, ApprovalKept DEF Verified
  <2>4. CASE CurText(p) # NoText
    <3> DEFINE t == CurText(p)
    <3>1. /\ Upsert(t, ext[p].content, FALSE)
          /\ approved' = approved \ {t}
          /\ t \in Texts
      BY <1>4, <2>1, <2>4 DEF SaveExtraction
    <3>2. ext[p].content \in Contents
      BY <1>0, <1>4 DEF ProcInv, Storable, Extractions
    <3>3. /\ cache'[t].verified => Verified(t)
          /\ \A u \in Texts : u # t => cache'[u] = cache[u]
      BY <1>0, <3>1, <3>2, UpsertStored DEF Verified
    <3>4. InExtraction(t)
      BY <1>4 DEF InExtraction
    <3>5. ASSUME NEW u \in Texts, Verified(u)', u \notin late'
          PROVE  u \in approved' /\ ~InExtraction(u)'
      <4>1. CASE u = t
        BY <1>4, <3>1, <3>3, <3>4, <3>5, <4>1 DEF ApprovalInv, Verified
      <4>2. CASE u # t
        BY <1>4, <2>2, <3>1, <3>3, <3>5, <4>2 DEF ApprovalInv, Verified
      <4> QED
        BY <4>1, <4>2
    <3> QED
      BY <3>5 DEF ApprovalInv
  <2> QED
    BY <2>3, <2>4
<1>5. ASSUME NEW p \in Pollers, Save(p) PROVE ApprovalInv'
  <2>1. /\ pc[p] = "save" /\ SaveExtraction(p) /\ late' = late /\ cur' = cur
        /\ \A q \in Pollers : q # p => pc'[q] = pc[q]
        /\ pc'[p] \notin {"extract", "save"}
    BY <1>0, <1>5 DEF Save, ProcInv
  <2> QED
    BY <1>4, <2>1
<1>6. ASSUME NEW p \in Pollers, StatementFails(p) PROVE ApprovalInv'
  <2>1. /\ late' = late /\ cur' = cur
        /\ \A q \in Pollers : q # p => pc'[q] = pc[q]
        /\ pc'[p] \notin {"extract", "save"}
    BY <1>0, <1>6 DEF StatementFails, Errs, Caught, ProcInv
  <2>2. CASE pc[p] = "save" /\ SaveExtraction(p)
    BY <1>4, <2>1, <2>2
  <2>3. CASE approved' = approved /\ \A t \in Texts : Verified(t)' => Verified(t)
    <3>1. \A t \in Texts : InExtraction(t)' => InExtraction(t)
      BY <1>0, <2>1, NoExtractionBegun
    <3> QED
      BY <2>1, <2>3, <3>1, ApprovalKept
  <2>4. CASE pc[p] = "lookup" /\ CountHit(p) /\ approved' = approved
    <3>1. \A t \in Texts : Verified(t)' => Verified(t)
      BY <1>0, <2>4, HitCounted DEF Verified
    <3> QED
      BY <2>3, <2>4, <3>1
  <2>5. CASE cache' = cache /\ approved' = approved
    BY <2>3, <2>5 DEF Verified
  <2> QED
    BY <1>6, <2>2, <2>4, <2>5 DEF StatementFails
<1>7. ASSUME NEW t \in Texts, Approve(t), UNCHANGED <<pc, cur>>,
             \A u \in Texts : u # t => cache'[u] = cache[u]
      PROVE  ApprovalInv'
  <2>1. \A u \in Texts : InExtraction(u)' <=> InExtraction(u)
    BY <1>7 DEF InExtraction, CurText
  <2>2. ASSUME NEW u \in Texts, u # t, Verified(u)' PROVE Verified(u)
    BY <1>7, <2>2 DEF Verified
  <2> QED
    BY <1>7, <2>1, <2>2 DEF Approve, ApprovalInv
<1>8. ASSUME NEW r \in Reports, AdminVerify(r) PROVE ApprovalInv'
  <2>1. CASE TextOf[r] = NoText
    BY <1>b, <1>8, <2>1 DEF AdminVerify, procVars
  <2>2. CASE TextOf[r] # NoText
    <3>1. TextOf[r] \in Texts /\ "admin" \in Contents
      BY <2>2, EnrichmentAssumption DEF EnrichmentAssumption, Contents
    <3>2. /\ Upsert(TextOf[r], "admin", TRUE)
          /\ Approve(TextOf[r])
          /\ UNCHANGED <<pc, cur>>
      BY <1>8, <2>2 DEF AdminVerify, procVars
    <3>3. \A u \in Texts : u # TextOf[r] => cache'[u] = cache[u]
      BY <1>0, <3>1, <3>2 DEF Upsert, CacheInv
    <3> QED
      BY <1>7, <3>1, <3>2, <3>3
  <2> QED
    BY <2>1, <2>2
<1>9. ASSUME NEW t \in Texts, AdminCacheEdit(t) PROVE ApprovalInv'
  <2>1. PICK content \in {cache[t].content, "admin"}, verified \in BOOLEAN :
           /\ cache' = [cache EXCEPT ![t] =
                           [cache[t] EXCEPT !.content = content, !.verified = verified]]
           /\ IF verified THEN Approve(t) ELSE UNCHANGED <<approved, late>>
    BY <1>9 DEF AdminCacheEdit
  <2>2. UNCHANGED <<pc, cur>> /\ cache[t] \in Entries
    BY <1>0, <1>9 DEF AdminCacheEdit, CacheInv, procVars
  <2>3. \A u \in Texts : u # t => cache'[u] = cache[u]
    BY <1>0, <2>1 DEF CacheInv
  <2>4. CASE verified
    BY <1>7, <2>1, <2>2, <2>3, <2>4
  <2>5. CASE ~verified
    <3>1. \A u \in Texts : Verified(u)' => Verified(u)
      BY <1>0, <2>1, <2>2, <2>3, <2>5 DEF Verified, CacheInv, Entries
    <3>2. \A u \in Texts : InExtraction(u)' => InExtraction(u)
      BY <2>2 DEF InExtraction, CurText
    <3> QED
      BY <2>1, <2>5, <3>1, <3>2, ApprovalKept
  <2> QED
    BY <2>4, <2>5
<1>10. ASSUME NEW t \in Texts, AdminCacheDelete(t) PROVE ApprovalInv'
  <2>1. /\ UNCHANGED <<pc, cur, approved, late>>
        /\ cache' = [cache EXCEPT ![t] = NoEntry]
    BY <1>10 DEF AdminCacheDelete, procVars, histVars
  <2>2. \A u \in Texts : Verified(u)' => Verified(u)
    BY <1>0, <2>1 DEF Verified, CacheInv
  <2>3. \A u \in Texts : InExtraction(u)' => InExtraction(u)
    BY <2>1 DEF InExtraction, CurText
  <2> QED
    BY <2>1, <2>2, <2>3, ApprovalKept
<1>11. ASSUME NEW r \in Reports,
              \/ Parse(r) \/ Submit(r) \/ RetryComesDue(r) \/ Reparse(r)
              \/ AdminEdit(r) \/ AdminEditBreaks(r)
       PROVE  ApprovalInv'
  BY <1>b, <1>11
     DEF Parse, Submit, RetryComesDue, Reparse, AdminEdit, AdminEditBreaks, procVars, histVars
<1>12. ASSUME NEW S \in SUBSET Reports, ReEnrich(S) PROVE ApprovalInv'
  BY <1>b, <1>12 DEF ReEnrich, procVars
<1>13. CASE UNCHANGED vars
  BY <1>b, <1>13 DEF vars, procVars, histVars
<1>14. ASSUME NEW p \in Pollers, Poll(p) \/ InCycle(p) \/ StatementFails(p) \/ Crash(p)
       PROVE  ApprovalInv'
  BY <1>1, <1>2, <1>3, <1>5, <1>6, <1>14 DEF InCycle
<1> QED
  BY <1>8, <1>9, <1>10, <1>11, <1>12, <1>13, <1>14 DEF Next

(* A verified cache row holds what an admin approved, except where the     *)
(* approval came while a poller was extracting the same text               *)
(* (findCached, upsert, updateEvent): for any number of pollers, faults    *)
(* and requests, and whatever the driver answers.                          *)
THEOREM VerifiedHolds == Spec => []VerifiedIsApproved
<1>1. Init => TypeInv /\ ApprovalInv
  BY TypeInit, ApprovalInit
<1>2. TypeInv /\ ApprovalInv /\ [Next]_vars => (TypeInv /\ ApprovalInv)'
  BY TypeStep, ApprovalStep
<1>3. ApprovalInv => VerifiedIsApproved
  BY DEF ApprovalInv, Verified, VerifiedIsApproved
<1> QED
  BY <1>1, <1>2, <1>3, PTL DEF Spec

(***************************************************************************)
(* A report is failed only after MaxAttempts failures.  A record carries   *)
(* the attempts of the moment it was selected, so the count written back   *)
(* may be stale, but never above the failures there were: the column and   *)
(* every copy of it are bounded by the history.                            *)
(***************************************************************************)
Spent(r, n) == n <= failures[r] \/ failures[r] = MaxAttempts

FailedRows ==
    \A r \in Reports :
       /\ Spent(r, row[r].attempts)
       /\ row[r].enrich = "failed" => failures[r] = MaxAttempts

FailingPollers ==
    \A p \in Pollers :
       /\ \A rec \in Held(p) : Spent(rec.id, rec.attempts)
       /\ pc[p] = "fail" => Spent(cur[p].id, cur[p].attempts + 1)

LEMMA FailureInit == Init => FailedRows /\ FailingPollers
  BY EnrichmentAssumption
     DEF EnrichmentAssumption, Init, FailedRows, FailingPollers, Spent, Held

\* Failures are only ever counted up.
FailuresGrow == \A r \in Reports : failures[r] <= failures'[r]

LEMMA OneFailureMore ==
    ASSUME TypeInv, NEW p \in Pollers, pc[p] \notin {"idle", "next"}, Caught(p)
    PROVE  /\ FailuresGrow
           /\ failures'[cur[p].id] = Up(failures[cur[p].id], MaxAttempts)
<1>1. cur[p].id \in Reports
  BY InWork DEF TypeInv
<1>2. failures \in [Reports -> 0..MaxAttempts] /\ MaxAttempts \in Nat
  BY EnrichmentAssumption DEF EnrichmentAssumption, TypeInv, RestInv
<1> QED
  BY <1>1, <1>2 DEF Caught, Up, FailuresGrow

LEMMA SpentKept ==
    ASSUME TypeInv, TypeInv', FailuresGrow, NEW r \in Reports, NEW n \in Nat, Spent(r, n)
    PROVE  n <= failures'[r] \/ failures'[r] = MaxAttempts
<1>1. MaxAttempts \in Nat
  BY EnrichmentAssumption DEF EnrichmentAssumption
<1>2. failures[r] \in 0..MaxAttempts /\ failures'[r] \in 0..MaxAttempts
  BY DEF TypeInv, RestInv
<1> QED
  BY <1>1, <1>2 DEF Spent, FailuresGrow

\* Rows a step leaves with the same attempts, or none, and does not fail.
LEMMA FailedRowsKept ==
    ASSUME TypeInv, TypeInv', FailedRows, FailuresGrow,
           \A r \in Reports :
              /\ row'[r].attempts \in {row[r].attempts, 0}
              /\ row'[r].enrich = "failed" => row[r].enrich = "failed"
    PROVE  FailedRows'
<1> SUFFICES ASSUME NEW r \in Reports
             PROVE  /\ row'[r].attempts <= failures'[r] \/ failures'[r] = MaxAttempts
                    /\ row'[r].enrich = "failed" => failures'[r] = MaxAttempts
  BY DEF FailedRows, Spent
<1>1. MaxAttempts \in Nat
  BY EnrichmentAssumption DEF EnrichmentAssumption
<1>2. failures[r] \in 0..MaxAttempts /\ failures'[r] \in 0..MaxAttempts
  BY DEF TypeInv, RestInv
<1>3. row[r].attempts \in Nat
  BY DEF TypeInv, RowInv, Rows
<1> QED
  BY <1>1, <1>2, <1>3, SpentKept DEF FailedRows, FailuresGrow

\* Pollers a step gives no record and no fresh failure.
LEMMA FailingPollersKept ==
    ASSUME TypeInv, TypeInv', FailingPollers, FailuresGrow,
           \A p \in Pollers :
              /\ Held(p)' \subseteq Held(p)
              /\ pc'[p] = "fail" => pc[p] = "fail" /\ cur'[p] = cur[p]
    PROVE  FailingPollers'
<1> SUFFICES ASSUME NEW p \in Pollers
             PROVE  /\ \A rec \in Held(p)' : Spent(rec.id, rec.attempts)'
                    /\ pc'[p] = "fail" => Spent(cur[p].id, cur[p].attempts + 1)'
  BY DEF FailingPollers
<1>1. ASSUME NEW rec \in Held(p) PROVE rec.id \in Reports /\ rec.attempts \in Nat
  BY DEF TypeInv, ProcInv, Held, Records
<1>2. \A rec \in Held(p)' : Spent(rec.id, rec.attempts)'
  BY <1>1, SpentKept DEF FailingPollers, Spent
<1>3. ASSUME pc'[p] = "fail" PROVE Spent(cur[p].id, cur[p].attempts + 1)'
  <2>1. cur[p] \in Held(p)
    BY <1>3, InWork DEF TypeInv
  <2> QED
    BY <1>1, <1>3, <2>1, SpentKept DEF FailingPollers, Spent
<1> QED
  BY <1>2, <1>3 DEF FailingPollers

LEMMA FailureStep ==
    ASSUME TypeInv, TypeInv', FailedRows, FailingPollers, [Next]_vars
    PROVE  FailedRows' /\ FailingPollers'
<1>0. RowInv /\ CacheInv /\ ProcInv /\ RestInv /\ ProcInv'
  BY DEF TypeInv
<1>a. MaxAttempts \in Nat /\ NoRecord \notin Records
  BY EnrichmentAssumption DEF EnrichmentAssumption
<1>b. ASSUME failures' = failures PROVE FailuresGrow
  BY <1>0, <1>a, <1>b DEF FailuresGrow, RestInv
\* A step outside the pollers.
<1>c. ASSUME UNCHANGED <<procVars, failures>> PROVE FailingPollers'
  <2>1. \A p \in Pollers : Held(p)' = Held(p) /\ pc'[p] = pc[p] /\ cur'[p] = cur[p]
    BY <1>c DEF procVars, Held
  <2> QED
    BY <1>b, <1>c, <2>1, FailingPollersKept
<1>d. ASSUME UNCHANGED <<row, failures>> PROVE FailedRows'
  BY <1>d, <1>b, FailedRowsKept
<1>1. ASSUME NEW p \in Pollers, Poll(p) PROVE FailedRows' /\ FailingPollers'
  <2>1. FailedRows'
    BY <1>1, <1>d DEF Poll
  <2>2. \A q \in Pollers : \A rec \in Held(q)' : Spent(rec.id, rec.attempts)
    <3>1. PICK B \in SUBSET {r \in Reports : Due(r)} :
             batch' = [batch EXCEPT ![p] = {Selected(r) : r \in B}]
      BY <1>1 DEF Poll
    <3>2. ASSUME NEW q \in Pollers, NEW rec \in Held(q)', rec \notin Held(q)
          PROVE  \E r \in B : rec = Selected(r)
      BY <1>0, <1>1, <3>1, <3>2 DEF Poll, Held, ProcInv
    <3> QED
      BY <3>2 DEF FailedRows, FailingPollers, Selected
  <2>3. \A q \in Pollers : pc'[q] = "fail" => pc[q] = "fail"
    BY <1>0, <1>1 DEF Poll, ProcInv
  <2> QED
    BY <1>1, <2>1, <2>2, <2>3 DEF Poll, FailingPollers, Spent
<1>2. ASSUME NEW p \in Pollers, Take(p) \/ EndCycle(p) PROVE FailedRows' /\ FailingPollers'
  <2>1. \A q \in Pollers :
           /\ Held(q)' \subseteq Held(q)
           /\ pc'[q] = "fail" => pc[q] = "fail" /\ cur'[q] = cur[q]
    BY <1>0, <1>2 DEF Take, EndCycle, ProcInv, Held
  <2>2. UNCHANGED <<row, failures>>
    BY <1>2 DEF Take, EndCycle, histVars
  <2> QED
    BY <1>b, <1>d, <2>1, <2>2, FailingPollersKept
<1>3. ASSUME NEW p \in Pollers, Lookup(p) \/ Extract(p) PROVE FailedRows' /\ FailingPollers'
  <2>1. UNCHANGED <<row, failures, batch, cur>>
    BY <1>3 DEF Lookup, Extract, histVars
  <2>2. \A q \in Pollers : pc'[q] = "fail" => pc[q] = "fail"
    BY <1>0, <1>3 DEF Lookup, Extract, ProcInv
  <2>3. \A q \in Pollers : Held(q)' = Held(q) /\ cur'[q] = cur[q]
    BY <2>1 DEF Held
  <2> QED
    BY <1>b, <1>d, <2>1, <2>2, <2>3, FailingPollersKept
\* The attempt ends in the catch: one failure more.
<1>4. ASSUME NEW p \in Pollers, pc[p] \notin {"idle", "next"}, Caught(p), UNCHANGED <<batch, cur>>
      PROVE  FailuresGrow /\ FailingPollers'
  <2>1. FailuresGrow /\ failures'[cur[p].id] = Up(failures[cur[p].id], MaxAttempts)
    BY <1>4, OneFailureMore
  <2>2. /\ cur[p] \in Held(p) /\ cur[p].id \in Reports /\ cur[p].attempts \in Nat
        /\ failures[cur[p].id] \in 0..MaxAttempts
    BY <1>0, <1>4, InWork DEF Records, RestInv
  <2>3. Spent(cur[p].id, cur[p].attempts + 1)'
    <3>1. Spent(cur[p].id, cur[p].attempts)
      BY <2>2 DEF FailingPollers
    <3> QED
      BY <1>a, <1>4, <2>1, <2>2, <3>1 DEF Spent, Up
  <2>4. ASSUME NEW q \in Pollers, NEW rec \in Held(q) PROVE Spent(rec.id, rec.attempts)'
    <3>1. rec.id \in Reports /\ rec.attempts \in Nat
      BY <1>0 DEF ProcInv, Held, Records
    <3> QED
      BY <2>1, <3>1, SpentKept DEF FailingPollers, Spent
  <2>5. ASSUME NEW q \in Pollers, q # p, pc'[q] = "fail"
        PROVE  Spent(cur[q].id, cur[q].attempts + 1)'
    <3>1. pc[q] = "fail"
      BY <1>0, <1>4, <2>5 DEF Caught, ProcInv
    <3>2. cur[q].id \in Reports /\ cur[q].attempts + 1 \in Nat
      BY <1>0, <3>1, InWork DEF Records
    <3>3. cur[q].attempts + 1 <= failures'[cur[q].id] \/ failures'[cur[q].id] = MaxAttempts
      BY <2>1, <3>1, <3>2, SpentKept DEF FailingPollers
    <3> QED
      BY <1>4, <3>3 DEF Spent
  <2>6. \A q \in Pollers : Held(q)' = Held(q)
    BY <1>4 DEF Held
  <2> QED
    BY <2>1, <2>3, <2>4, <2>5, <2>6 DEF FailingPollers
<1>5. ASSUME NEW p \in Pollers, ExtractFails(p) PROVE FailedRows' /\ FailingPollers'
  <2>1. /\ pc[p] \notin {"idle", "next"} /\ Caught(p)
        /\ UNCHANGED <<row, batch, cur>>
    BY <1>5 DEF ExtractFails, Errs
  <2> QED
    BY <1>4, <2>1, FailedRowsKept
\* The row written as enriched.
<1>6. ASSUME NEW p \in Pollers, FailuresGrow, pc[p] = "write", Storable(p), StoreEnriched(p)
      PROVE  FailedRows'
  <2>1. /\ row'[cur[p].id].enrich = "enriched"
        /\ row'[cur[p].id].attempts = row[cur[p].id].attempts
        /\ \A s \in Reports : s # cur[p].id => row'[s] = row[s]
    BY <1>0, <1>6, EnrichedStored
  <2> QED
    BY <1>6, <2>1, FailedRowsKept
<1>7. ASSUME NEW p \in Pollers, StatementFails(p) PROVE FailedRows' /\ FailingPollers'
  <2>1. /\ pc[p] \notin {"idle", "next"} /\ Caught(p)
        /\ UNCHANGED <<batch, cur>>
    BY <1>7 DEF StatementFails, Errs
  <2>2. FailuresGrow /\ FailingPollers'
    BY <1>4, <2>1
  <2>3. row' = row \/ (pc[p] = "write" /\ Storable(p) /\ StoreEnriched(p))
    BY <1>7 DEF StatementFails
  <2> QED
    BY <1>6, <2>2, <2>3, FailedRowsKept
<1>8. ASSUME NEW p \in Pollers, Save(p) \/ Write(p) PROVE FailedRows' /\ FailingPollers'
  <2>1. UNCHANGED <<batch, cur>>
    BY <1>8 DEF Save, Write
  <2>2. CASE Write(p) /\ ~Storable(p)
    <3>1. pc[p] \notin {"idle", "next"} /\ Caught(p) /\ row' = row
      BY <2>2 DEF Write
    <3> QED
      BY <1>4, <2>1, <3>1, FailedRowsKept
  <2>3. CASE Save(p) \/ (Write(p) /\ Storable(p))
    <3>1. /\ failures' = failures
          /\ row' = row \/ (pc[p] = "write" /\ Storable(p) /\ StoreEnriched(p))
      BY <2>3 DEF Save, Write
    <3>2. FailedRows'
      BY <1>b, <1>6, <3>1, FailedRowsKept
    <3>3. \A q \in Pollers : pc'[q] = "fail" => pc[q] = "fail"
      BY <1>0, <2>3 DEF Save, Write, ProcInv
    <3>4. \A q \in Pollers : Held(q)' = Held(q) /\ cur'[q] = cur[q]
      BY <2>1 DEF Held
    <3> QED
      BY <1>b, <3>1, <3>2, <3>3, <3>4, FailingPollersKept
  <2> QED
    BY <1>8, <2>2, <2>3
\* The poller lets go of its record.
<1>9. ASSUME NEW p \in Pollers, Announce(p) \/ Fail(p) \/ Crash(p) PROVE FailingPollers'
  <2>1. /\ failures' = failures
        /\ cur' = [cur EXCEPT ![p] = NoRecord]
        /\ batch' \in {batch, [batch EXCEPT ![p] = {}]}
        /\ pc' \in {[pc EXCEPT ![p] = "next"], [pc EXCEPT ![p] = "idle"]}
    BY <1>9 DEF Announce, Fail, Crash, Done, histVars
  <2>2. \A q \in Pollers :
           /\ Held(q)' \subseteq Held(q)
           /\ pc'[q] = "fail" => pc[q] = "fail" /\ cur'[q] = cur[q]
    BY <1>0, <2>1 DEF ProcInv, Held
  <2> QED
    BY <1>b, <2>1, <2>2, FailingPollersKept
<1>10. ASSUME NEW p \in Pollers, Announce(p) \/ Crash(p) PROVE FailedRows' /\ FailingPollers'
  BY <1>d, <1>9, <1>10 DEF Announce, Crash, histVars
<1>11. ASSUME NEW p \in Pollers, Fail(p) PROVE FailedRows' /\ FailingPollers'
  <2>1. /\ cur[p].id \in Reports /\ cur[p].attempts \in Nat
        /\ failures[cur[p].id] \in 0..MaxAttempts
        /\ failures' = failures
    BY <1>0, <1>11, InWork DEF Fail, Records, RestInv, histVars
  <2>2. /\ row'[cur[p].id].attempts = cur[p].attempts + 1
        /\ row'[cur[p].id].enrich = IF Exhausted(p) THEN "failed" ELSE "pending"
        /\ \A s \in Reports : s # cur[p].id => row'[s] = row[s]
    <3>1. row[cur[p].id] \in Rows /\ row \in [Reports -> Rows]
      BY <1>0, <2>1 DEF RowInv
    <3> QED
      BY <1>11, <2>1, <3>1 DEF Fail, Rows
  <2>3. Spent(cur[p].id, cur[p].attempts + 1)
    BY <1>11 DEF Fail, FailingPollers
  <2>4. Exhausted(p) => failures[cur[p].id] = MaxAttempts
    BY <1>a, <2>1, <2>3 DEF Exhausted, Spent
  <2>5. FailedRows'
    BY <2>1, <2>2, <2>3, <2>4 DEF FailedRows, Spent
  <2> QED
    BY <1>9, <1>11, <2>5
<1>12. ASSUME NEW r \in Reports,
              \/ Parse(r) \/ Submit(r) \/ RetryComesDue(r) \/ Reparse(r) \/ AdminEdit(r)
       PROVE  FailedRows' /\ FailingPollers'
  <2>1. UNCHANGED <<procVars, failures>>
    BY <1>12 DEF Parse, Submit, RetryComesDue, Reparse, AdminEdit, histVars
  <2>2. ParsedAs[r].enrich # "failed"
    BY EnrichmentAssumption DEF EnrichmentAssumption, ParseResults
  <2>3. row[r] \in Rows /\ row \in [Reports -> Rows]
    BY <1>0 DEF RowInv
  <2>4. /\ row'[r].attempts = row[r].attempts
        /\ row'[r].enrich = "failed" => row[r].enrich = "failed"
        /\ \A s \in Reports : s # r => row'[s] = row[s]
    <3>1. CASE Parse(r) \/ Submit(r)
      BY <2>2, <2>3, <3>1 DEF Parse, Submit, Rows
    <3>2. CASE RetryComesDue(r)
      BY <2>3, <3>2 DEF RetryComesDue, Rows
    <3>3. CASE Reparse(r)
      BY <2>2, <2>3, <3>3 DEF Reparse, Rows
    <3>4. CASE AdminEdit(r)
      BY <2>3, <3>4 DEF AdminEdit, Rows
    <3> QED
      BY <1>12, <3>1, <3>2, <3>3, <3>4
  <2> QED
    BY <1>b, <1>c, <2>1, <2>4, FailedRowsKept
<1>13. ASSUME NEW r \in Reports, AdminVerify(r) \/ AdminEditBreaks(r)
       PROVE  FailedRows' /\ FailingPollers'
  BY <1>c, <1>d, <1>13 DEF AdminVerify, AdminEditBreaks, histVars
<1>14. ASSUME NEW S \in SUBSET Reports, ReEnrich(S) PROVE FailedRows' /\ FailingPollers'
  <2>1. UNCHANGED <<procVars, failures>>
    BY <1>14 DEF ReEnrich
  <2>2. ASSUME NEW r \in Reports
        PROVE  \/ row'[r] = row[r]
               \/ row'[r].attempts = 0 /\ row'[r].enrich = "pending"
    <3>1. row[r] \in Rows
      BY <1>0 DEF RowInv
    <3>2. CASE r \in S
      BY <1>14, <3>1, <3>2 DEF ReEnrich, Rows
    <3>3. CASE r \notin S
      BY <1>14, <3>3 DEF ReEnrich
    <3> QED
      BY <3>2, <3>3
  <2> QED
    BY <1>b, <1>c, <2>1, <2>2, FailedRowsKept
<1>15. ASSUME NEW t \in Texts, AdminCacheEdit(t) \/ AdminCacheDelete(t)
       PROVE  FailedRows' /\ FailingPollers'
  BY <1>c, <1>d, <1>15 DEF AdminCacheEdit, AdminCacheDelete, histVars
<1>16. CASE UNCHANGED vars
  BY <1>c, <1>d, <1>16 DEF vars, histVars
<1>17. ASSUME NEW p \in Pollers, Poll(p) \/ InCycle(p) \/ StatementFails(p) \/ Crash(p)
       PROVE  FailedRows' /\ FailingPollers'
  BY <1>1, <1>2, <1>3, <1>5, <1>7, <1>8, <1>10, <1>11, <1>17 DEF InCycle
<1> QED
  BY <1>12, <1>13, <1>14, <1>15, <1>16, <1>17 DEF Next

(* A report is failed only after MaxAttempts attempts at it ended in       *)
(* enrichEvent's catch, for any number of pollers that work on stale       *)
(* records of the same row, and whatever the driver answers to an UPDATE.  *)
THEOREM FailedIsSpent == Spec => []FailedSpentAttempts
<1>1. Init => TypeInv /\ FailedRows /\ FailingPollers
  BY TypeInit, FailureInit
<1>2. TypeInv /\ FailedRows /\ FailingPollers /\ [Next]_vars
      => (TypeInv /\ FailedRows /\ FailingPollers)'
  BY TypeStep, FailureStep
<1>3. FailedRows => FailedSpentAttempts
  BY DEF FailedRows, FailedSpentAttempts
<1> QED
  BY <1>1, <1>2, <1>3, PTL DEF Spec

(***************************************************************************)
(* Which reports are failed.  An attempt reaches the catch because the     *)
(* model or a statement failed, or because findCached took the driver's    *)
(* pair for a list of rows, which is so for every message with a text.     *)
(***************************************************************************)
Misread(r) == PairResults /\ TextOf[r] # NoText
Explained(r) == r \in erred \/ Misread(r)

FailedIsExplained == \A r \in Reports : row[r].enrich = "failed" => Explained(r)

CaughtIsExplained ==
    \A p \in Pollers :
       /\ pc[p] = "fail" => Explained(cur[p].id)
       /\ ext[p] # NoExtraction =>
             /\ pc[p] \notin {"idle", "next"}
             /\ ~Storable(p) => Misread(cur[p].id)

LEMMA ExplainedInit == Init => FailedIsExplained /\ CaughtIsExplained
  BY DEF Init, FailedIsExplained, CaughtIsExplained

\* What does not touch the pollers explains what it explained before.
LEMMA ExplainedKept ==
    ASSUME FailedIsExplained, CaughtIsExplained, UNCHANGED procVars, erred' = erred,
           \A r \in Reports : row'[r].enrich = "failed" => row[r].enrich = "failed"
    PROVE  FailedIsExplained' /\ CaughtIsExplained'
  BY DEF FailedIsExplained, CaughtIsExplained, Explained, Misread, Storable, procVars

\* A step of one poller.
LEMMA PollerExplained ==
    ASSUME FailedIsExplained, CaughtIsExplained, NEW p \in Pollers, erred \subseteq erred',
           \A r \in Reports :
              row'[r].enrich = "failed" => row[r].enrich = "failed" \/ Explained(r)',
           \A q \in Pollers : q # p => pc'[q] = pc[q] /\ cur'[q] = cur[q] /\ ext'[q] = ext[q],
           pc'[p] = "fail" => Explained(cur[p].id)',
           ext'[p] # NoExtraction =>
              /\ pc'[p] \notin {"idle", "next"}
              /\ ~Storable(p)' => Misread(cur[p].id)'
    PROVE  FailedIsExplained' /\ CaughtIsExplained'
<1>1. FailedIsExplained'
  BY DEF FailedIsExplained, Explained, Misread
<1>2. CaughtIsExplained'
  BY DEF CaughtIsExplained, Explained, Misread, Storable
<1> QED
  BY <1>1, <1>2

LEMMA ExplainedStep ==
    ASSUME TypeInv, FailedIsExplained, CaughtIsExplained, [Next]_vars
    PROVE  FailedIsExplained' /\ CaughtIsExplained'
<1> DEFINE Goal == FailedIsExplained' /\ CaughtIsExplained'
<1>0. RowInv /\ CacheInv /\ ProcInv /\ RestInv
  BY DEF TypeInv
\* A step that leaves the extraction and the rows as they are and fails nothing.
<1>1. ASSUME NEW p \in Pollers, Poll(p) \/ Take(p) \/ EndCycle(p) PROVE Goal
  <2>1. UNCHANGED <<row, ext, erred>> /\ ext[p] = NoExtraction
    BY <1>1 DEF Poll, Take, EndCycle, histVars, CaughtIsExplained
  <2>2. /\ \A q \in Pollers : q # p => pc'[q] = pc[q] /\ cur'[q] = cur[q]
        /\ pc'[p] # "fail"
    BY <1>0, <1>1 DEF Poll, Take, EndCycle, ProcInv
  <2> QED
    BY <2>1, <2>2, PollerExplained
\* The choice of the extraction: only the driver's pair gives one that cannot be stored.
<1>2. ASSUME NEW p \in Pollers, Lookup(p) PROVE Goal
  <2>1. UNCHANGED <<row, cur, erred>> /\ cur[p].content # "undefined"
    BY <1>0, <1>2, InWork DEF Lookup, Records, Contents, histVars
  <2>2. CurText(p) \in Texts \cup {NoText}
    BY <1>0, <1>2, InWork, EnrichmentAssumption DEF EnrichmentAssumption, Lookup, CurText
  <2>3. CurText(p) # NoText /\ Served(CurText(p)) => cache[CurText(p)].content # "undefined"
    BY <1>0, <2>2 DEF Served, CacheInv, Entries, Contents
  <2>4. /\ \A q \in Pollers : q # p => pc'[q] = pc[q] /\ cur'[q] = cur[q] /\ ext'[q] = ext[q]
        /\ pc'[p] \notin {"idle", "next", "fail"}
    BY <1>0, <1>2, <2>1 DEF Lookup, ProcInv
  <2>5. ext'[p] # NoExtraction /\ ext'[p].content = "undefined" => Misread(cur[p].id)
    <3>1. CASE ext' = ext
      BY <3>1 DEF CaughtIsExplained, Storable
    <3>2. CASE ext' # ext
      BY <1>0, <1>2, <2>1, <2>3, <3>2 DEF Lookup, ProcInv, Misread, CurText
    <3> QED
      BY <3>1, <3>2
  <2> QED
    BY <2>1, <2>4, <2>5, PollerExplained DEF Storable, Misread
<1>3. ASSUME NEW p \in Pollers, Extract(p) PROVE Goal
  <2>1. /\ UNCHANGED <<row, cur, erred>>
        /\ \A q \in Pollers : q # p => pc'[q] = pc[q] /\ ext'[q] = ext[q]
        /\ pc'[p] = "save" /\ ext'[p].content = "ai"
    BY <1>0, <1>3 DEF Extract, ProcInv, histVars
  <2> QED
    BY <2>1, PollerExplained DEF Storable
\* The row written as enriched.
<1>4. ASSUME NEW p \in Pollers, pc[p] = "write", Storable(p), StoreEnriched(p)
      PROVE  \A r \in Reports : row'[r].enrich = "failed" => row[r].enrich = "failed"
  BY <1>0, <1>4, EnrichedStored
<1>5. ASSUME NEW p \in Pollers, ExtractFails(p) \/ StatementFails(p) PROVE Goal
  <2>1. /\ UNCHANGED <<cur, ext>>
        /\ erred' = erred \cup {cur[p].id}
        /\ \A q \in Pollers : q # p => pc'[q] = pc[q]
        /\ pc'[p] = "fail" /\ pc[p] \notin {"idle", "next"}
    BY <1>0, <1>5 DEF ExtractFails, StatementFails, Errs, Caught, ProcInv
  <2>2. \A r \in Reports : row'[r].enrich = "failed" => row[r].enrich = "failed"
    BY <1>4, <1>5 DEF ExtractFails, StatementFails
  <2>3. Explained(cur[p].id)'
    BY <2>1 DEF Explained
  <2>4. ext'[p] # NoExtraction /\ ~Storable(p)' => Misread(cur[p].id)'
    BY <2>1 DEF CaughtIsExplained, Storable, Misread
  <2> QED
    BY <2>1, <2>2, <2>3, <2>4, PollerExplained
<1>6. ASSUME NEW p \in Pollers, Save(p) \/ Write(p) PROVE Goal
  <2>1. /\ UNCHANGED <<cur, ext, erred>>
        /\ \A q \in Pollers : q # p => pc'[q] = pc[q]
        /\ pc'[p] \notin {"idle", "next"} /\ pc[p] \notin {"idle", "next"}
    BY <1>0, <1>6 DEF Save, Write, Caught, ProcInv
  <2>2. \A r \in Reports : row'[r].enrich = "failed" => row[r].enrich = "failed"
    BY <1>4, <1>6 DEF Save, Write
  <2>3. ext[p] # NoExtraction /\ ~Storable(p) => Misread(cur[p].id)
    BY DEF CaughtIsExplained
  <2>4. pc'[p] = "fail" => Misread(cur[p].id)
    <3>1. pc'[p] = "fail" => pc[p] = "write" /\ ~Storable(p)
      BY <1>0, <1>6 DEF Save, Write, ProcInv
    <3> QED
      BY <1>0, <2>3, <3>1 DEF ProcInv
  <2> QED
    BY <2>1, <2>2, <2>3, <2>4, PollerExplained DEF Explained, Misread, Storable
\* The poller lets go of its record.
<1>7. ASSUME NEW p \in Pollers, Announce(p) \/ Fail(p) \/ Crash(p) PROVE Goal
  <2>1. /\ erred' = erred /\ ext'[p] = NoExtraction /\ pc'[p] # "fail"
        /\ \A q \in Pollers : q # p => pc'[q] = pc[q] /\ cur'[q] = cur[q] /\ ext'[q] = ext[q]
    BY <1>0, <1>7 DEF Announce, Fail, Crash, Done, ProcInv, histVars
  <2>2. ASSUME NEW r \in Reports, row'[r].enrich = "failed"
        PROVE  row[r].enrich = "failed" \/ Explained(r)'
    <3>1. CASE Fail(p)
      <4>1. cur[p].id \in Reports /\ Explained(cur[p].id) /\ pc[p] = "fail"
        BY <1>0, <3>1, InWork DEF Fail, CaughtIsExplained
      <4>2. r # cur[p].id => row'[r] = row[r]
        BY <1>0, <3>1, <4>1 DEF Fail, RowInv
      <4> QED
        BY <2>1, <2>2, <4>1, <4>2 DEF Explained, Misread
    <3>2. CASE Announce(p) \/ Crash(p)
      BY <2>2, <3>2 DEF Announce, Crash
    <3> QED
      BY <1>7, <3>1, <3>2
  <2> QED
    BY <2>1, <2>2, PollerExplained
\* Everybody else: nobody but a poller fails a report.
<1>8. ASSUME NEW r \in Reports,
             \/ Parse(r) \/ Submit(r) \/ RetryComesDue(r) \/ Reparse(r)
             \/ AdminEdit(r) \/ AdminVerify(r) \/ AdminEditBreaks(r)
      PROVE  Goal
  <2>1. UNCHANGED procVars /\ erred' = erred
    BY <1>8 DEF Parse, Submit, RetryComesDue, Reparse, AdminEdit, AdminVerify, AdminEditBreaks,
                histVars
  <2>2. ParsedAs[r].enrich # "failed" /\ row[r] \in Rows /\ row \in [Reports -> Rows]
    BY <1>0, EnrichmentAssumption DEF EnrichmentAssumption, ParseResults, RowInv
  <2>3. /\ row'[r].enrich = "failed" => row[r].enrich = "failed"
        /\ \A s \in Reports : s # r => row'[s] = row[s]
    <3>1. CASE Parse(r) \/ Submit(r)
      BY <2>2, <3>1 DEF Parse, Submit, Rows
    <3>2. CASE RetryComesDue(r)
      BY <2>2, <3>2 DEF RetryComesDue, Rows
    <3>3. CASE Reparse(r)
      BY <2>2, <3>3 DEF Reparse, Rows
    <3>4. CASE AdminEdit(r)
      BY <2>2, <3>4 DEF AdminEdit, Rows
    <3>5. CASE AdminVerify(r) \/ AdminEditBreaks(r)
      BY <3>5 DEF AdminVerify, AdminEditBreaks
    <3> QED
      BY <1>8, <3>1, <3>2, <3>3, <3>4, <3>5
  <2> QED
    BY <2>1, <2>3, ExplainedKept
<1>9. ASSUME NEW S \in SUBSET Reports, ReEnrich(S) PROVE Goal
  <2>1. UNCHANGED procVars /\ erred' = erred
    BY <1>9 DEF ReEnrich
  <2>2. ASSUME NEW r \in Reports PROVE row'[r] = row[r] \/ row'[r].enrich = "pending"
    <3>1. row[r] \in Rows
      BY <1>0 DEF RowInv
    <3> QED
      BY <1>9, <3>1 DEF ReEnrich, Rows
  <2> QED
    BY <2>1, <2>2, ExplainedKept
<1>10. ASSUME NEW t \in Texts, AdminCacheEdit(t) \/ AdminCacheDelete(t) PROVE Goal
  BY <1>10, ExplainedKept DEF AdminCacheEdit, AdminCacheDelete, histVars
<1>11. ASSUME UNCHANGED vars PROVE Goal
  BY <1>11, ExplainedKept DEF vars, histVars
<1> HIDE DEF Goal
<1>12. ASSUME \E p \in Pollers : Poll(p) \/ InCycle(p) \/ StatementFails(p) \/ Crash(p)
       PROVE  Goal
  BY <1>1, <1>2, <1>3, <1>5, <1>6, <1>7, <1>12 DEF InCycle
<1>13. ASSUME \E r \in Reports :
                 \/ Parse(r) \/ Submit(r) \/ RetryComesDue(r) \/ Reparse(r)
                 \/ AdminEdit(r) \/ AdminVerify(r) \/ AdminEditBreaks(r)
       PROVE  Goal
  BY <1>8, <1>13
<1>14. Goal
  BY <1>9, <1>10, <1>11, <1>12, <1>13 DEF Next
<1> QED
  BY <1>14 DEF Goal

(* No report is failed unless the model or a statement failed at it, except *)
(* where findCached reads the driver's pair: those are the reports whose    *)
(* message has a text, and the run enrich_no_error shows one of them.       *)
THEOREM FailureIsExplained == Spec => []FailedIsExplained
<1>1. Init => TypeInv /\ FailedIsExplained /\ CaughtIsExplained
  BY TypeInit, ExplainedInit
<1>2. TypeInv /\ FailedIsExplained /\ CaughtIsExplained /\ [Next]_vars
      => (TypeInv /\ FailedIsExplained /\ CaughtIsExplained)'
  BY TypeStep, ExplainedStep
<1> QED
  BY <1>1, <1>2, PTL DEF Spec

(* Where the driver answers an UPDATE with the rows, as the casts of the    *)
(* code assume, no report at all is failed without such an error.           *)
THEOREM FailureNeedsError == ~PairResults => (Spec => []NoFailureWithoutError)
<1> SUFFICES ASSUME ~PairResults PROVE Spec => []NoFailureWithoutError
  OBVIOUS
<1>1. FailedIsExplained => NoFailureWithoutError
  BY DEF FailedIsExplained, Explained, Misread, NoFailureWithoutError
<1> QED
  BY <1>1, FailureIsExplained, PTL

(***************************************************************************)
(* An administrator's edit stays.  A report that was edited when no        *)
(* attempt was due or under way is not pending and in no poller's hands,   *)
(* and only what takes it out of kept makes it pending: the date of a      *)
(* retry may pass, but findPending asks for the status as well.            *)
(***************************************************************************)
KeptInv == \A r \in kept : row[r].content = "admin" /\ Exists(r) /\ ~Waits(r)

LEMMA KeptInit == Init => KeptInv
  BY DEF Init, KeptInv

\* What no poller takes up and no statement touches stays kept.
LEMMA KeptUntouched ==
    ASSUME KeptInv, kept' \subseteq kept,
           \A r \in kept' : /\ row'[r].content = row[r].content
                            /\ row'[r].enrich = row[r].enrich,
           \A p \in Pollers : \A rec \in Held(p)' : rec \in Held(p) \/ rec.id \notin kept'
    PROVE  KeptInv'
<1> SUFFICES ASSUME NEW r \in kept'
             PROVE  row'[r].content = "admin" /\ Exists(r)' /\ ~Waits(r)'
  BY DEF KeptInv
<1>1. row[r].content = "admin" /\ Exists(r) /\ ~Waits(r)
  BY DEF KeptInv
<1>2. ASSUME NEW p \in Pollers, NEW rec \in Held(p)' PROVE rec.id # r
  BY <1>1, <1>2 DEF Waits
<1> QED
  BY <1>1, <1>2 DEF Exists, Waits

\* A report in work is not kept.
LEMMA InWorkNotKept ==
    ASSUME TypeInv, KeptInv, NEW p \in Pollers, pc[p] \notin {"idle", "next"}
    PROVE  cur[p].id \notin kept
  BY InWork DEF TypeInv, KeptInv, Waits

LEMMA KeptStep ==
    ASSUME TypeInv, KeptInv, [Next]_vars
    PROVE  KeptInv'
<1>0. RowInv /\ ProcInv /\ RestInv /\ kept \subseteq Reports
  BY DEF TypeInv, RestInv
\* A step of a poller that writes no row and selects none.
<1>a. ASSUME NEW p \in Pollers, UNCHANGED <<row, kept>>,
             batch' \in {batch, [batch EXCEPT ![p] = {}]},
             cur' \in {cur, [cur EXCEPT ![p] = NoRecord]}
      PROVE  KeptInv'
  <2>1. \A q \in Pollers : Held(q)' \subseteq Held(q)
    BY <1>0, <1>a DEF Held, ProcInv
  <2> QED
    BY <1>a, <2>1, KeptUntouched
\* A step outside the pollers on other reports.
<1>b. ASSUME UNCHANGED procVars, kept' \subseteq kept,
             \A r \in kept' : /\ row'[r].content = row[r].content
                              /\ row'[r].enrich = row[r].enrich
      PROVE  KeptInv'
  <2>1. \A q \in Pollers : Held(q)' = Held(q)
    BY <1>b DEF Held, procVars
  <2> QED
    BY <1>b, <2>1, KeptUntouched
<1>1. ASSUME NEW p \in Pollers, Poll(p) PROVE KeptInv'
  <2>1. PICK B \in SUBSET {r \in Reports : Due(r)} :
           batch' = [batch EXCEPT ![p] = {Selected(r) : r \in B}]
    BY <1>1 DEF Poll
  <2>2. UNCHANGED <<row, cur, kept>>
    BY <1>1 DEF Poll
  <2>3. ASSUME NEW q \in Pollers, NEW rec \in Held(q)', rec \notin Held(q)
        PROVE  rec.id \notin kept
    <3>1. PICK r \in B : rec = Selected(r)
      BY <1>0, <2>1, <2>2, <2>3 DEF Held, ProcInv
    <3> QED
      BY <3>1 DEF Selected, Due, KeptInv, Waits
  <2> QED
    BY <2>2, <2>3, KeptUntouched
<1>2. ASSUME NEW p \in Pollers, Take(p) PROVE KeptInv'
  <2>1. \A q \in Pollers : Held(q)' \subseteq Held(q)
    BY <1>0, <1>2 DEF Take, Held, ProcInv
  <2>2. UNCHANGED <<row, kept>>
    BY <1>2 DEF Take, histVars
  <2> QED
    BY <2>1, <2>2, KeptUntouched
<1>3. ASSUME NEW p \in Pollers,
             \/ EndCycle(p) \/ Lookup(p) \/ Extract(p) \/ ExtractFails(p) \/ Save(p)
             \/ Announce(p) \/ Crash(p)
      PROVE  KeptInv'
  <2>1. /\ UNCHANGED <<row, kept>>
        /\ batch' \in {batch, [batch EXCEPT ![p] = {}]}
        /\ cur' \in {cur, [cur EXCEPT ![p] = NoRecord]}
    BY <1>3 DEF EndCycle, Lookup, Extract, ExtractFails, Save, Announce, Crash, Done, histVars
  <2> QED
    BY <1>a, <2>1
\* The statements that write the row in work.
<1>4. ASSUME NEW p \in Pollers, pc[p] \notin {"idle", "next"}, kept' = kept, batch' = batch,
             cur' \in {cur, [cur EXCEPT ![p] = NoRecord]},
             \A s \in Reports : s # cur[p].id => row'[s] = row[s]
      PROVE  KeptInv'
  <2>1. cur[p].id \notin kept
    BY <1>4, InWorkNotKept
  <2>2. \A q \in Pollers : Held(q)' \subseteq Held(q)
    BY <1>0, <1>4 DEF Held, ProcInv
  <2>3. \A r \in kept' : row'[r] = row[r]
    BY <1>0, <1>4, <2>1
  <2> QED
    BY <1>4, <2>2, <2>3, KeptUntouched
<1>5. ASSUME NEW p \in Pollers, Write(p) \/ StatementFails(p) PROVE KeptInv'
  <2>1. /\ pc[p] \notin {"idle", "next"} /\ UNCHANGED <<kept, batch, cur>>
        /\ row' = row \/ (pc[p] = "write" /\ Storable(p) /\ StoreEnriched(p))
    BY <1>5 DEF Write, StatementFails, histVars
  <2>2. \A s \in Reports : s # cur[p].id => row'[s] = row[s]
    BY <1>0, <2>1, EnrichedStored
  <2> QED
    BY <1>4, <2>1, <2>2
<1>6. ASSUME NEW p \in Pollers, Fail(p) PROVE KeptInv'
  <2>1. /\ pc[p] \notin {"idle", "next"} /\ UNCHANGED <<kept, batch>>
        /\ cur' = [cur EXCEPT ![p] = NoRecord]
    BY <1>6 DEF Fail, Done, histVars
  <2>2. \A s \in Reports : s # cur[p].id => row'[s] = row[s]
    BY <1>0, <1>6 DEF Fail, RowInv
  <2> QED
    BY <1>4, <2>1, <2>2
<1>7. ASSUME NEW r \in Reports, Parse(r) \/ Submit(r) PROVE KeptInv'
  <2>1. r \notin kept
    BY <1>7 DEF Parse, Submit, KeptInv
  <2>2. UNCHANGED procVars /\ kept' = kept
    BY <1>7 DEF Parse, Submit, histVars
  <2>3. \A s \in Reports : s # r => row'[s] = row[s]
    BY <1>0, <1>7 DEF Parse, Submit, RowInv
  <2> QED
    BY <1>0, <1>b, <2>1, <2>2, <2>3
<1>8. ASSUME NEW r \in Reports, Reparse(r) PROVE KeptInv'
  <2>1. UNCHANGED procVars /\ kept' = kept \ {r}
    BY <1>8 DEF Reparse
  <2>2. \A s \in Reports : s # r => row'[s] = row[s]
    BY <1>0, <1>8 DEF Reparse, RowInv
  <2> QED
    BY <1>0, <1>b, <2>1, <2>2
<1>9. ASSUME NEW S \in SUBSET Reports, ReEnrich(S) PROVE KeptInv'
  <2>1. UNCHANGED procVars /\ kept' = kept \ S
    BY <1>9 DEF ReEnrich
  <2>2. \A s \in Reports \ S : row'[s] = row[s]
    BY <1>9 DEF ReEnrich
  <2> QED
    BY <1>0, <1>b, <2>1, <2>2
<1>10. ASSUME NEW r \in Reports, RetryComesDue(r) PROVE KeptInv'
  <2>1. UNCHANGED procVars /\ kept' = kept
    BY <1>10 DEF RetryComesDue, histVars
  <2>2. \A s \in Reports : row'[s].content = row[s].content /\ row'[s].enrich = row[s].enrich
    BY <1>0, <1>10 DEF RetryComesDue, RowInv, Rows
  <2> QED
    BY <1>0, <1>b, <2>1, <2>2
<1>11. ASSUME NEW r \in Reports, AdminEdit(r) PROVE KeptInv'
  <2>1. /\ UNCHANGED procVars
        /\ kept' = IF Waits(r) THEN kept ELSE kept \cup {r}
        /\ row[r].enrich # "absent"
    BY <1>11 DEF AdminEdit, Exists
  <2>2. /\ row'[r].content = "admin" /\ row'[r].enrich = row[r].enrich
        /\ \A s \in Reports : s # r => row'[s] = row[s]
    BY <1>0, <1>11 DEF AdminEdit, RowInv, Rows
  <2>3. \A q \in Pollers : Held(q)' = Held(q)
    BY <2>1 DEF Held, procVars
  <2>4. ASSUME NEW s \in kept'
        PROVE  row'[s].content = "admin" /\ Exists(s)' /\ ~Waits(s)'
    <3>1. Waits(s)' <=> Waits(s)
      BY <1>0, <2>1, <2>2, <2>3, <2>4 DEF Waits
    <3>2. CASE s = r
      <4>1. ~Waits(r)
        BY <2>1, <2>4, <3>2 DEF KeptInv
      <4> QED
        BY <2>1, <2>2, <3>1, <3>2, <4>1 DEF Exists
    <3>3. CASE s # r
      BY <1>0, <2>1, <2>2, <2>4, <3>1, <3>3 DEF KeptInv, Exists
    <3> QED
      BY <3>2, <3>3
  <2> QED
    BY <2>4 DEF KeptInv
<1>12. ASSUME \/ \E r \in Reports : AdminVerify(r) \/ AdminEditBreaks(r)
              \/ \E t \in Texts : AdminCacheEdit(t) \/ AdminCacheDelete(t)
              \/ UNCHANGED vars
       PROVE  KeptInv'
  <2>1. UNCHANGED procVars /\ UNCHANGED <<row, kept>>
    BY <1>12 DEF AdminVerify, AdminEditBreaks, AdminCacheEdit, AdminCacheDelete, vars, histVars
  <2> QED
    BY <1>b, <2>1
<1>13. ASSUME NEW p \in Pollers, Poll(p) \/ InCycle(p) \/ StatementFails(p) \/ Crash(p)
       PROVE  KeptInv'
  BY <1>1, <1>2, <1>3, <1>5, <1>6, <1>13 DEF InCycle
<1> QED
  BY <1>7, <1>8, <1>9, <1>10, <1>11, <1>12, <1>13 DEF Next

(* An administrator's event type and location (updateEvent) stay, unless   *)
(* an attempt was due or under way when they were stored or somebody asked *)
(* for another one or a parse since: for any number of pollers, faults and *)
(* concurrent requests, and whatever the driver answers.                   *)
THEOREM EditsCorrect == Spec => []EditStays
<1>1. Init => TypeInv /\ KeptInv
  BY TypeInit, KeptInit
<1>2. TypeInv /\ KeptInv /\ [Next]_vars => (TypeInv /\ KeptInv)'
  BY TypeStep, KeptStep
<1>3. KeptInv => EditStays
  BY DEF KeptInv, EditStays
<1> QED
  BY <1>1, <1>2, <1>3, PTL DEF Spec
=============================================================================
