----------------------------- MODULE Enrichment -----------------------------
(***************************************************************************)
(* The enrichment pollers (src/src/enrichment/enrichment.service.ts) on    *)
(* parsed_events and enrichment_cache, next to the administrators who edit *)
(* and re-enrich reports and the worker and backfill that parse them       *)
(* again.  A poller selects pending rows without claiming them; what it    *)
(* knows of a row from then on is the record it selected.  Each SQL        *)
(* statement and the call to the language model is one action.             *)
(*                                                                         *)
(* The content of a report is its event type and location, told apart only *)
(* by who produced them.  The place on the map is another module's matter. *)
(***************************************************************************)
EXTENDS Naturals, FiniteSets

CONSTANTS
    Reports,        \* rows of parsed_events
    Texts,          \* the normalised texts messages may have
    TextOf,         \* normalizeText(raw_message) of each report
    ParsedAs,       \* what parseRawMessage makes of each message
    NoText,         \* "", what a message without letters and digits becomes
    Pollers,        \* processes that called startPolling
    BatchSize,      \* ENRICHMENT_BATCH_SIZE
    MaxAttempts,    \* ENRICHMENT_MAX_ATTEMPTS
    PairResults,    \* the driver answers an UPDATE with the pair [rows, count]
    MaxFaults,      \* bound: crashes and failed statements
    MaxRequests,    \* bound: requests of administrators and of backfill
    NoRecord, NoExtraction, NoEntry

VARIABLES
    row,            \* parsed_events
    cache,          \* enrichment_cache by normalized_text
    pc, batch,      \* a poller: next statement, the selected records not begun,
    cur, ext,       \*   the record in work, its extraction
    edits,          \* reports an admin has updated but not yet put in the cache
    failures,       \* history: attempts that ended in the catch, up to MaxAttempts
    erred,          \* history: reports at which the model or a statement failed
    announced,      \* history: new_report published, since it was last made pending
    asked,          \* history: re-enriched when settled, not selected since
    approved,       \* history: texts whose cached content an admin has approved
    late,           \* history: texts verified while a poller was extracting them
    kept,           \* history: edited when no attempt was due or under way, and
                    \*   neither sent to enrichment nor parsed since
    faults, requests

procVars == <<pc, batch, cur, ext>>
histVars == <<failures, erred, announced, asked, approved, late, kept>>
vars     == <<row, cache, procVars, edits, histVars, faults, requests>>

Statuses == {"absent", "none", "pending", "enriched", "failed"}
Settled  == {"enriched", "failed"}
Methods  == {"rule", "keyword", "ai", "cache"}
Contents == {"message", "ai", "admin"}
Sources  == {"cache", "keyword", "ai"}
Steps    == {"idle", "next", "lookup", "extract", "save", "write", "announce", "fail"}

Rows == [enrich: Statuses, attempts: Nat, due: {"null", "future", "passed"},
         method: Methods, content: Contents, shown: BOOLEAN, edited: BOOLEAN]
Entries == [hits: 0..3, verified: BOOLEAN, content: Contents]
Records == [id: Reports, attempts: Nat, method: Methods, content: Contents]
\* event_type undefined: the extraction made of a result that has no columns.
Extractions == [content: Contents \cup {"undefined"}, source: Sources]

\* What parseRawMessage may say: not readable, a keyword found, or neither.
ParseResults == [enrich: {"none"}, method: {"rule"}]
           \cup [enrich: {"pending"}, method: {"rule", "keyword"}]

ASSUME EnrichmentAssumption ==
    /\ NoText \notin Texts
    /\ TextOf \in [Reports -> Texts \cup {NoText}]
    /\ ParsedAs \in [Reports -> ParseResults]
    /\ BatchSize \in Nat \ {0}
    /\ MaxAttempts \in Nat \ {0}
    /\ PairResults \in BOOLEAN
    /\ MaxFaults \in Nat
    /\ MaxRequests \in Nat
    /\ NoRecord \notin Records
    /\ NoExtraction \notin Extractions
    /\ NoEntry \notin Entries

TypeOK ==
    /\ row       \in [Reports -> Rows]
    /\ \A r \in Reports : row[r].attempts <= MaxAttempts + requests
    /\ cache     \in [Texts -> Entries \cup {NoEntry}]
    /\ pc        \in [Pollers -> Steps]
    /\ batch     \in [Pollers -> SUBSET Records]
    /\ cur       \in [Pollers -> Records \cup {NoRecord}]
    /\ ext       \in [Pollers -> Extractions \cup {NoExtraction}]
    /\ \A p \in Pollers :
          /\ pc[p] \notin {"idle", "next"} <=> cur[p] # NoRecord
          /\ pc[p] \in {"save", "write"} => ext[p] # NoExtraction
    /\ edits     \subseteq Reports
    /\ failures  \in [Reports -> 0..MaxAttempts]
    /\ erred     \subseteq Reports
    /\ announced \in [Reports -> 0..2]
    /\ asked     \subseteq Reports
    /\ approved  \subseteq Texts
    /\ late      \subseteq Texts
    /\ kept      \subseteq Reports
    /\ faults    \in 0..MaxFaults
    /\ requests  \in 0..MaxRequests

Init ==
    /\ row = [r \in Reports |->
                 [enrich |-> "absent", attempts |-> 0, due |-> "null", method |-> "rule",
                  content |-> "message", shown |-> FALSE, edited |-> FALSE]]
    /\ cache     = [t \in Texts |-> NoEntry]
    /\ pc        = [p \in Pollers |-> "idle"]
    /\ batch     = [p \in Pollers |-> {}]
    /\ cur       = [p \in Pollers |-> NoRecord]
    /\ ext       = [p \in Pollers |-> NoExtraction]
    /\ edits     = {}
    /\ failures  = [r \in Reports |-> 0]
    /\ erred     = {}
    /\ announced = [r \in Reports |-> 0]
    /\ asked     = {}
    /\ approved  = {}
    /\ late      = {}
    /\ kept      = {}
    /\ faults    = 0
    /\ requests  = 0

Exists(r)  == row[r].enrich # "absent"
Fault      == faults < MaxFaults /\ faults' = faults + 1
Request    == requests < MaxRequests /\ requests' = requests + 1
Up(n, max) == IF n < max THEN n + 1 ELSE n

-----------------------------------------------------------------------------
(* Where rows come from: the worker parses a message, the map stores a     *)
(* report of the public as enriched.                                       *)

Parse(r) ==
    /\ ~Exists(r)
    /\ row' = [row EXCEPT ![r] =
                  [@ EXCEPT !.enrich = ParsedAs[r].enrich, !.method = ParsedAs[r].method]]
    /\ UNCHANGED <<cache, procVars, edits, histVars, faults, requests>>

Submit(r) ==
    /\ ~Exists(r)
    /\ row' = [row EXCEPT ![r] = [@ EXCEPT !.enrich = "enriched", !.shown = TRUE]]
    /\ UNCHANGED <<cache, procVars, edits, histVars, faults, requests>>

-----------------------------------------------------------------------------
(* A poller. *)

\* Mutated forms of Due: a row that waits for a retry is never selected again;
\* one that the first attempt left as failed still is.
DueOnce(r)   == row[r].enrich = "pending" /\ row[r].due = "null"
DueFailed(r) == row[r].enrich \in {"pending", "failed"} /\ row[r].due # "future"

\* WHERE of findPending.
Due(r) == row[r].enrich = "pending" /\ row[r].due # "future"

Selected(r) == [id |-> r, attempts |-> row[r].attempts,
                method |-> row[r].method, content |-> row[r].content]

\* findPending.  Which of the due rows are the oldest is left open.
Poll(p) ==
    LET due == {r \in Reports : Due(r)}
    IN  /\ pc[p] = "idle"
        /\ \E B \in SUBSET due :
              /\ B # {}
              /\ Cardinality(B) <= BatchSize
              /\ Cardinality(B) < BatchSize => B = due
              /\ batch' = [batch EXCEPT ![p] = {Selected(r) : r \in B}]
              /\ asked' = asked \ B
        /\ pc' = [pc EXCEPT ![p] = "next"]
        /\ UNCHANGED <<row, cache, cur, ext, edits, failures, erred, announced, approved, late,
                       kept, faults, requests>>

Take(p) ==
    /\ pc[p] = "next"
    /\ \E rec \in batch[p] :
          /\ cur'   = [cur EXCEPT ![p] = rec]
          /\ batch' = [batch EXCEPT ![p] = @ \ {rec}]
    /\ pc' = [pc EXCEPT ![p] = "lookup"]
    /\ UNCHANGED <<row, cache, ext, edits, histVars, faults, requests>>

EndCycle(p) ==
    /\ pc[p] = "next"
    /\ batch[p] = {}
    /\ pc' = [pc EXCEPT ![p] = "idle"]
    /\ UNCHANGED <<row, cache, batch, cur, ext, edits, histVars, faults, requests>>

CurText(p) == TextOf[cur[p].id]

\* UPDATE enrichment_cache SET hit_count = hit_count + 1.
CountHit(p) ==
    LET t == CurText(p)
    IN  IF t # NoText /\ cache[t] # NoEntry
        THEN cache' = [cache EXCEPT ![t].hits = Up(@, 3)]
        ELSE UNCHANGED cache

\* Mutated form of Served: a verified row waits for its third hit as well.
ServedByHits(t) == cache[t] # NoEntry /\ Up(cache[t].hits, 3) >= 3

\* The row findCached returns counts as a hit: the count is the new one.
Served(t) == cache[t] # NoEntry /\ (cache[t].verified \/ Up(cache[t].hits, 3) >= 3)

(* findCached and the choice of the extraction.  A pair is never of length *)
(* 0 and its first member has no columns.  A keyword stands for a type the *)
(* parser knows; an administrator may have stored "unknown" over it.       *)
Lookup(p) ==
    LET t == CurText(p)
    IN  /\ pc[p] = "lookup"
        /\ CountHit(p)
        /\ \/ /\ t # NoText /\ PairResults
              /\ ext' = [ext EXCEPT ![p] = [content |-> "undefined", source |-> "cache"]]
              /\ pc'  = [pc EXCEPT ![p] = "write"]
           \/ /\ t # NoText /\ ~PairResults /\ Served(t)
              /\ ext' = [ext EXCEPT ![p] = [content |-> cache[t].content, source |-> "cache"]]
              /\ pc'  = [pc EXCEPT ![p] = "write"]
           \/ /\ t = NoText \/ (~PairResults /\ ~Served(t))
              /\ \/ /\ cur[p].method = "keyword"
                    /\ ext' = [ext EXCEPT ![p] = [content |-> cur[p].content,
                                                  source  |-> "keyword"]]
                    /\ pc'  = [pc EXCEPT ![p] = "save"]
                 \/ /\ cur[p].method = "keyword" => cur[p].content = "admin"
                    /\ pc'  = [pc EXCEPT ![p] = "extract"]
                    /\ UNCHANGED ext
        /\ UNCHANGED <<row, batch, cur, edits, histVars, faults, requests>>

Extract(p) ==
    /\ pc[p] = "extract"
    /\ ext' = [ext EXCEPT ![p] = [content |-> "ai", source |-> "ai"]]
    /\ pc'  = [pc EXCEPT ![p] = "save"]
    /\ UNCHANGED <<row, cache, batch, cur, edits, histVars, faults, requests>>

\* The attempt goes on in the catch.
Caught(p) ==
    /\ pc'       = [pc EXCEPT ![p] = "fail"]
    /\ failures' = [failures EXCEPT ![cur[p].id] = Up(@, MaxAttempts)]

\* The model or a statement fails.
Errs(p) == Caught(p) /\ erred' = erred \cup {cur[p].id}

\* The model does not answer, or with what is not JSON.
ExtractFails(p) ==
    /\ pc[p] = "extract"
    /\ Errs(p)
    /\ UNCHANGED <<row, cache, batch, cur, ext, edits, announced, asked, approved, late, kept,
                   faults, requests>>

\* INSERT ... ON CONFLICT (normalized_text) DO UPDATE.
Upsert(t, content, verified) ==
    cache' = [cache EXCEPT ![t] =
                 IF cache[t] = NoEntry
                 THEN [hits |-> 0, verified |-> verified, content |-> content]
                 ELSE [@ EXCEPT !.verified = cache[t].verified \/ verified,
                                !.content  = content]]

\* upsertFromAI and upsertFromKeyword, skipped for a message without text.
SaveExtraction(p) ==
    LET t == CurText(p)
    IN  IF t = NoText
        THEN UNCHANGED <<cache, approved>>
        ELSE Upsert(t, ext[p].content, FALSE) /\ approved' = approved \ {t}

Save(p) ==
    /\ pc[p] = "save"
    /\ SaveExtraction(p)
    /\ pc' = [pc EXCEPT ![p] = "write"]
    /\ UNCHANGED <<row, batch, cur, ext, edits, failures, erred, announced, asked, late, kept,
                   faults, requests>>

\* event_type is NOT NULL.
Storable(p) == ext[p].content # "undefined"

\* Mutated form of StoreEnriched: enrich_status is not set.
StoreUnsettled(p) ==
    row' = [row EXCEPT ![cur[p].id] =
               [@ EXCEPT !.content = ext[p].content, !.shown = TRUE]]

\* The UPDATE to enriched: by id alone, whatever happened to the row meanwhile.
StoreEnriched(p) ==
    LET r == cur[p].id
    IN  row' = [row EXCEPT ![r] =
                   [@ EXCEPT !.enrich  = "enriched",
                             !.content = ext[p].content,
                             !.method  = IF ext[p].source = "keyword"
                                         THEN row[r].method ELSE ext[p].source,
                             !.shown   = TRUE]]

Write(p) ==
    /\ pc[p] = "write"
    /\ \/ /\ Storable(p)
          /\ StoreEnriched(p)
          /\ pc' = [pc EXCEPT ![p] = "announce"]
          /\ UNCHANGED failures
       \/ ~Storable(p) /\ Caught(p) /\ UNCHANGED row
    /\ UNCHANGED <<cache, batch, cur, ext, edits, erred, announced, asked, approved, late,
                   kept, faults, requests>>

Done(p) ==
    /\ pc'  = [pc EXCEPT ![p] = "next"]
    /\ cur' = [cur EXCEPT ![p] = NoRecord]
    /\ ext' = [ext EXCEPT ![p] = NoExtraction]

\* Mutated form of Announce: the status is set once more when all is done.
AnnounceSettles(p) ==
    /\ pc[p] = "announce"
    /\ row' = [row EXCEPT ![cur[p].id].enrich = "enriched"]
    /\ Done(p)
    /\ UNCHANGED <<cache, batch, edits, histVars, faults, requests>>

\* findVisibleReportById and publish.  A report with enriched_at may still be
\* unapproved, voted down or expired: then nothing is published.
Announce(p) ==
    /\ pc[p] = "announce"
    /\ \/ /\ row[cur[p].id].shown
          /\ announced' = [announced EXCEPT ![cur[p].id] = Up(@, 2)]
       \/ UNCHANGED announced
    /\ Done(p)
    /\ UNCHANGED <<row, cache, batch, edits, failures, erred, asked, approved, late, kept,
                   faults, requests>>

\* Mutated forms of Exhausted: one attempt too few, never.
ExhaustedEarly(p) == cur[p].attempts + 2 >= MaxAttempts
ExhaustedNever(p) == FALSE

Exhausted(p) == cur[p].attempts + 1 >= MaxAttempts

\* The catch: the attempts are those of the selected record plus one.
Fail(p) ==
    /\ pc[p] = "fail"
    /\ row' = [row EXCEPT ![cur[p].id] =
                  [@ EXCEPT !.enrich   = IF Exhausted(p) THEN "failed" ELSE "pending",
                            !.attempts = cur[p].attempts + 1,
                            !.due      = IF Exhausted(p) THEN "null" ELSE "future"]]
    /\ Done(p)
    /\ UNCHANGED <<cache, batch, edits, histVars, faults, requests>>

\* A statement of enrichEvent throws, or its reply is lost after it was applied.
StatementFails(p) ==
    /\ pc[p] \in {"lookup", "save", "write", "announce"}
    /\ \/ UNCHANGED <<row, cache, approved>>
       \/ pc[p] = "lookup" /\ CountHit(p) /\ UNCHANGED <<row, approved>>
       \/ pc[p] = "save"   /\ SaveExtraction(p) /\ UNCHANGED row
       \/ pc[p] = "write"  /\ Storable(p) /\ StoreEnriched(p) /\ UNCHANGED <<cache, approved>>
    /\ Errs(p)
    /\ Fault
    /\ UNCHANGED <<batch, cur, ext, edits, announced, asked, late, kept, requests>>

\* The process dies, or the statement of the catch throws out of the loop.
Crash(p) ==
    /\ pc[p] # "idle"
    /\ pc'    = [pc EXCEPT ![p] = "idle"]
    /\ batch' = [batch EXCEPT ![p] = {}]
    /\ cur'   = [cur EXCEPT ![p] = NoRecord]
    /\ ext'   = [ext EXCEPT ![p] = NoExtraction]
    /\ Fault
    /\ UNCHANGED <<row, cache, edits, histVars, requests>>

RetryComesDue(r) ==
    /\ row[r].due = "future"
    /\ row' = [row EXCEPT ![r].due = "passed"]
    /\ UNCHANGED <<cache, procVars, edits, histVars, faults, requests>>

-----------------------------------------------------------------------------
(* Administrators and backfill. *)

\* reEnrichEvent on one report, reEnrichBatch on many.
ReEnrich(S) ==
    /\ S # {}
    /\ \A r \in S : Exists(r)
    /\ row' = [r \in Reports |->
                  IF r \in S
                  THEN [row[r] EXCEPT !.enrich = "pending", !.attempts = 0,
                                      !.due = "null", !.shown = FALSE]
                  ELSE row[r]]
    /\ announced' = [r \in Reports |-> IF r \in S THEN 0 ELSE announced[r]]
    /\ asked' = asked \cup {r \in S : row[r].enrich \in Settled}
    /\ kept' = kept \ S
    /\ Request
    /\ UNCHANGED <<cache, procVars, edits, failures, erred, approved, late, faults>>

\* persistParsed of a backfill, or of a worker that lost its lease: the retry
\* columns and edit_source stay as they are.
Reparse(r) ==
    /\ Exists(r)
    /\ row' = [row EXCEPT ![r] =
                  [@ EXCEPT !.enrich  = ParsedAs[r].enrich,
                            !.method  = ParsedAs[r].method,
                            !.content = "message",
                            !.shown   = FALSE]]
    /\ announced' = [announced EXCEPT ![r] = 0]
    /\ asked' = asked \ {r}
    /\ kept' = kept \ {r}
    /\ Request
    /\ UNCHANGED <<cache, procVars, edits, failures, erred, approved, late, faults>>

\* What a poller knows of rows it has selected.
Held(p)  == batch[p] \cup ({cur[p]} \ {NoRecord})
Waits(r) == row[r].enrich = "pending" \/ \E p \in Pollers : \E rec \in Held(p) : rec.id = r

\* updateEvent, its UPDATE of event type, location or confidence.  Bound: one
\* such call on a report at a time.
AdminEdit(r) ==
    /\ Exists(r)
    /\ r \notin edits
    /\ row'   = [row EXCEPT ![r] = [@ EXCEPT !.content = "admin", !.edited = TRUE]]
    /\ edits' = edits \cup {r}
    /\ kept'  = IF Waits(r) THEN kept ELSE kept \cup {r}
    /\ Request
    /\ UNCHANGED <<cache, procVars, failures, erred, announced, asked, approved, late, faults>>

InExtraction(t) == \E p \in Pollers : pc[p] \in {"extract", "save"} /\ CurText(p) = t

\* An admin has decided what the text means.
Approve(t) ==
    /\ approved' = approved \cup {t}
    /\ late'     = IF InExtraction(t) THEN late \cup {t} ELSE late \ {t}

\* updateEvent, its upsertFromAdmin.
AdminVerify(r) ==
    /\ r \in edits
    /\ edits' = edits \ {r}
    /\ IF TextOf[r] = NoText
       THEN UNCHANGED <<cache, approved, late>>
       ELSE Upsert(TextOf[r], "admin", TRUE) /\ Approve(TextOf[r])
    /\ UNCHANGED <<row, procVars, failures, erred, announced, asked, kept, faults, requests>>

\* updateEvent ends between its two statements.
AdminEditBreaks(r) ==
    /\ r \in edits
    /\ edits' = edits \ {r}
    /\ Fault
    /\ UNCHANGED <<row, cache, procVars, histVars, requests>>

\* AdminEnrichmentCacheService.update: content, verified, or both.
AdminCacheEdit(t) ==
    /\ cache[t] # NoEntry
    /\ \E content \in {cache[t].content, "admin"}, verified \in BOOLEAN :
          /\ cache' = [cache EXCEPT ![t] =
                          [@ EXCEPT !.content = content, !.verified = verified]]
          /\ IF verified THEN Approve(t) ELSE UNCHANGED <<approved, late>>
    /\ Request
    /\ UNCHANGED <<row, procVars, edits, failures, erred, announced, asked, kept, faults>>

AdminCacheDelete(t) ==
    /\ cache[t] # NoEntry
    /\ cache' = [cache EXCEPT ![t] = NoEntry]
    /\ Request
    /\ UNCHANGED <<row, procVars, edits, histVars, faults>>

-----------------------------------------------------------------------------
InCycle(p) ==
    \/ Take(p) \/ EndCycle(p)
    \/ Lookup(p) \/ Extract(p) \/ ExtractFails(p) \/ Save(p)
    \/ Write(p) \/ Announce(p) \/ Fail(p)

Next ==
    \/ \E p \in Pollers : Poll(p) \/ InCycle(p) \/ StatementFails(p) \/ Crash(p)
    \/ \E r \in Reports :
          \/ Parse(r) \/ Submit(r) \/ RetryComesDue(r) \/ Reparse(r)
          \/ AdminEdit(r) \/ AdminVerify(r) \/ AdminEditBreaks(r)
    \/ \E S \in SUBSET Reports : ReEnrich(S)
    \/ \E t \in Texts : AdminCacheEdit(t) \/ AdminCacheDelete(t)

Spec == Init /\ [][Next]_vars

\* The poll timer fires for ever, a batch that has begun goes on, time passes.
\* The language model owes no answer: it may fail every time.
Fairness ==
    /\ \A p \in Pollers : WF_vars(Poll(p)) /\ WF_vars(InCycle(p))
    /\ \A r \in Reports : WF_vars(RetryComesDue(r))

FairSpec == Spec /\ Fairness
-----------------------------------------------------------------------------
(* Properties. *)

Alone == \A p, q \in Pollers : p = q
Quiet == faults = 0

(* A report is failed only after MaxAttempts attempts at it really ended   *)
(* in the catch, whatever stale records pollers wrote back, whoever made   *)
(* it pending again in between and whatever the driver answers.  It does   *)
(* not say why the attempts failed: see NoFailureWithoutError.             *)
FailedSpentAttempts ==
    \A r \in Reports : row[r].enrich = "failed" => failures[r] = MaxAttempts

(* With one poller and no failed statement, a report that an admin sent to *)
(* enrichment again after it had settled stays pending until it is         *)
(* selected: no earlier attempt answers for the new one.                   *)
RequestServed ==
    Quiet => \A r \in asked : row[r].enrich = "pending"

(* With one poller and no failed statement, the map shows (enriched_at) no *)
(* report that enrichment still works on or gave up.                       *)
ShownIsEnriched ==
    Quiet => \A r \in Reports : row[r].shown => row[r].enrich = "enriched"

(* With one poller and no failed statement, new_report goes out at most    *)
(* once for each time a report is made pending.                            *)
AnnouncedOnce ==
    Quiet => \A r \in Reports : announced[r] <= 1

(* A verified cache row holds what an admin approved, except where the     *)
(* approval came while a poller was extracting the same text: upsert       *)
(* overwrites the content of a verified row and leaves it verified.        *)
VerifiedIsApproved ==
    \A t \in Texts :
        cache[t] # NoEntry /\ cache[t].verified /\ t \notin late
        => t \in approved

(* With one poller and no failed statement, a poller never reopens or      *)
(* settles anew a report it or another one had settled.                    *)
PollerLeavesSettled ==
    [][\A p \in Pollers, r \in Reports :
          Quiet /\ pc'[p] # pc[p] /\ row'[r].enrich # row[r].enrich
          => row[r].enrich \notin Settled]_vars

(* No report stays pending: it is enriched or failed in the end (or parsed *)
(* again as unreadable), though the model may fail every time and          *)
(* processes crash.                                                        *)
EveryReportSettles ==
    \A r \in Reports : row[r].enrich = "pending" ~> row[r].enrich # "pending"

(* Without an error of the model or the database no report is failed: the  *)
(* failure path is the path of errors.                                     *)
NoFailureWithoutError ==
    \A r \in Reports : row[r].enrich = "failed" => r \in erred

(* An administrator's type and location stay once enrichment is through    *)
(* with a report: a poller overwrites an edit only in an attempt that was  *)
(* due or under way when the edit was made, or that somebody asked for     *)
(* since.                                                                  *)
EditStays ==
    \A r \in kept : row[r].content = "admin"
=============================================================================
