---------------------------- MODULE PublicReports ----------------------------
(***************************************************************************)
(* A report sent in from the map, from the captcha to the row that awaits  *)
(* review (src/src/map/map.controller.ts, src/src/map/                     *)
(* public-captcha.service.ts, createPublicReport of src/src/events/        *)
(* events.service.ts), next to a replay of the processed events            *)
(* (src/src/processing/backfill.service.ts), which reads them all,         *)
(* whatever their source.  Each statement is one action.                   *)
(***************************************************************************)
EXTENDS Naturals, FiniteSets

CONSTANTS
    Messages,       \* submissions: each stores a raw event of its own
    HasSecret       \* whether RECAPTCHA_SECRET_KEY is set

VARIABLES
    submission,     \* where the request is, or how it ended
    raw,            \* the raw_events stored by submissions, all of them processed
    report,         \* the parsed_events row of each
    replay,         \* the run of the backfill
    reviewed,       \* history: reports an administrator has approved
    adopted         \* history: reports that the backfill has inserted

reportVars == <<submission, raw, report, replay, reviewed, adopted>>

Steps  == {"new", "captcha", "store", "file", "told", "refused", "broken"}
InWork == {"captcha", "store", "file"}

Statuses == {"auto_approved", "pending_review", "approved", "rejected"}
\* shown: enriched_at is set.
Rows     == [status : Statuses, shown : BOOLEAN]
NoReport == [status |-> "none"]

Replays  == [left : SUBSET Messages, cur : SUBSET Messages, found : BOOLEAN]
NoReplay == [left |-> {}, cur |-> {}, found |-> FALSE]

ReportTypeOK ==
    /\ submission \in [Messages -> Steps]
    /\ raw        \subseteq Messages
    /\ report     \in [Messages -> Rows \cup {NoReport}]
    /\ replay     \in Replays
    /\ reviewed   \subseteq Messages
    /\ adopted    \subseteq Messages

ReportInit ==
    /\ submission = [m \in Messages |-> "new"]
    /\ raw        = {}
    /\ report     = [m \in Messages |-> NoReport]
    /\ replay     = NoReplay
    /\ reviewed   = {}
    /\ adopted    = {}

Exists(m) == report[m] # NoReport

-----------------------------------------------------------------------------
(* The request, once the rate limit has admitted it. *)

Goes(m, step) == submission' = [submission EXCEPT ![m] = step]

\* Without a secret nobody is asked.
BeginSubmission(m) ==
    /\ submission[m] = "new"
    /\ Goes(m, IF HasSecret THEN "captcha" ELSE "store")
    /\ UNCHANGED <<raw, report, replay, reviewed, adopted>>

\* assertHuman: no token, no answer, and a low score all refuse.
AssertHuman(m, human) ==
    /\ submission[m] = "captcha"
    /\ Goes(m, IF human THEN "store" ELSE "refused")
    /\ UNCHANGED <<raw, report, replay, reviewed, adopted>>

\* createPublicReport: its first INSERT.
StoreRaw(m) ==
    /\ submission[m] = "store"
    /\ raw' = raw \cup {m}
    /\ Goes(m, "file")
    /\ UNCHANGED <<report, replay, reviewed, adopted>>

\* Mutated form of FileReport: a row that is there is taken for the own one.
FileReportOnConflict(m) ==
    /\ submission[m] = "file"
    /\ report' = IF Exists(m) THEN report
                 ELSE [report EXCEPT ![m] = [status |-> "pending_review", shown |-> TRUE]]
    /\ Goes(m, "told")
    /\ UNCHANGED <<raw, replay, reviewed, adopted>>

\* Its second INSERT; raw_event_id is unique.  The answer says pending_review.
FileReport(m) ==
    /\ submission[m] = "file"
    /\ IF Exists(m)
       THEN Goes(m, "broken") /\ UNCHANGED report
       ELSE /\ report' = [report EXCEPT ![m] = [status |-> "pending_review", shown |-> TRUE]]
            /\ Goes(m, "told")
    /\ UNCHANGED <<raw, replay, reviewed, adopted>>

\* A statement throws, or it is executed and its reply is lost.
SubmissionFails(m) ==
    /\ submission[m] \in {"store", "file"}
    /\ Goes(m, "broken")
    /\ \/ UNCHANGED <<raw, report>>
       \/ /\ submission[m] = "store"
          /\ raw' = raw \cup {m}
          /\ UNCHANGED report
       \/ /\ submission[m] = "file"
          /\ ~Exists(m)
          /\ report' = [report EXCEPT ![m] = [status |-> "pending_review", shown |-> TRUE]]
          /\ UNCHANGED raw
    /\ UNCHANGED <<replay, reviewed, adopted>>

\* The api process dies.
SubmissionsLost ==
    /\ submission' = [m \in Messages |-> IF submission[m] \in InWork THEN "broken"
                                                                     ELSE submission[m]]
    /\ UNCHANGED <<raw, report, replay, reviewed, adopted>>

-----------------------------------------------------------------------------
(* backfillProcessedEvents, by the CLI or the development endpoint. *)

\* One query lists processed events, oldest first and up to a limit; events of
\* other origin take any part of the limit.
ListProcessed(S) ==
    /\ replay = NoReplay
    /\ S # {} /\ S \subseteq raw
    /\ replay' = [left |-> S, cur |-> {}, found |-> FALSE]
    /\ UNCHANGED <<submission, raw, report, reviewed, adopted>>

\* persistParsed: findOne, then an UPDATE that leaves moderation_status, or an
\* INSERT, where it defaults to auto_approved.
FindParsed(m) ==
    /\ replay.cur = {}
    /\ m \in replay.left
    /\ replay' = [left |-> replay.left \ {m}, cur |-> {m}, found |-> Exists(m)]
    /\ UNCHANGED <<submission, raw, report, reviewed, adopted>>

\* Either way the loop goes on: an INSERT that violates the key is counted as an error.
WriteParsed(m) ==
    /\ replay.cur = {m}
    /\ IF replay.found \/ ~Exists(m)
       THEN report' = [report EXCEPT ![m] =
                          [status |-> IF Exists(m) THEN report[m].status ELSE "auto_approved",
                           shown  |-> FALSE]]
       ELSE UNCHANGED report
    /\ adopted' = IF Exists(m) THEN adopted ELSE adopted \cup {m}
    /\ replay' = [left |-> replay.left, cur |-> {}, found |-> FALSE]
    /\ UNCHANGED <<submission, raw, reviewed>>

ReplayDies ==
    /\ replay # NoReplay
    /\ replay' = NoReplay
    /\ UNCHANGED <<submission, raw, report, reviewed, adopted>>

-----------------------------------------------------------------------------
(* What else happens to the row: see Enrichment and Moderation. *)

EnrichReparsed(m) ==
    /\ Exists(m)
    /\ ~report[m].shown
    /\ report' = [report EXCEPT ![m] = [status |-> report[m].status, shown |-> TRUE]]
    /\ UNCHANGED <<submission, raw, replay, reviewed, adopted>>

\* Approved, edited or confirmed; rejected; restored.
Moderate(m, status) ==
    /\ Exists(m)
    /\ status \in Statuses \ {"auto_approved"}
    /\ report' = [report EXCEPT ![m] = [status |-> status, shown |-> report[m].shown]]
    /\ reviewed' = IF status = "approved" THEN reviewed \cup {m} ELSE reviewed
    /\ UNCHANGED <<submission, raw, replay, adopted>>

RequestStep(m) ==
    \/ \E human \in BOOLEAN : AssertHuman(m, human)
    \/ StoreRaw(m)
    \/ FileReport(m)

ReplayStep(m) == FindParsed(m) \/ WriteParsed(m) \/ EnrichReparsed(m)

ReportNext ==
    \/ \E m \in Messages : \/ BeginSubmission(m) \/ RequestStep(m) \/ SubmissionFails(m)
                           \/ ReplayStep(m)
                           \/ \E status \in Statuses : Moderate(m, status)
    \/ \E S \in SUBSET Messages : ListProcessed(S)
    \/ ReplayDies
    \/ SubmissionsLost

ReportSpec == ReportInit /\ [][ReportNext]_reportVars
-----------------------------------------------------------------------------
(* Properties. *)

OnTheMap(m) == Exists(m) /\ report[m].shown /\ report[m].status \in {"auto_approved", "approved"}

(* Who was told that the report awaits review is told the truth: it is     *)
(* shown only once an administrator has approved it, whatever the replay   *)
(* does.  The one report that is shown without review is that of a request *)
(* which the backfill overtook (it inserted the row between the statements *)
(* of the request, or after they broke off), and that got an error.        *)
ReviewedFirst ==
    \A m \in Messages :
        OnTheMap(m) /\ m \notin reviewed => m \in adopted /\ submission[m] # "told"
=============================================================================
