----------------------------- MODULE Moderation -----------------------------
(***************************************************************************)
(* What takes a report to the map and off it: administrators               *)
(* (src/src/admin/admin.service.ts), the votes of the public and the       *)
(* public's own reports (src/src/events/events.service.ts).  With it go    *)
(* the events that the api process sends to connected map clients          *)
(* (src/src/realtime, src/src/main.ts) and the activity log.  A request is *)
(* one action per SQL statement on these tables and one per event it       *)
(* publishes.  What enrichment and parsing do to a report is one step each *)
(* here.                                                                   *)
(***************************************************************************)
EXTENDS Integers, FiniteSets, Sequences

CONSTANTS
    Reports,        \* rows of parsed_events
    Admins,         \* concurrent requests of administrators
    Calls,          \* concurrent requests of voters
    Voters,         \* client addresses
    CallerOf,       \* the address a call comes from
    PairResults,    \* the driver answers an UPDATE with the pair [rows, count]
    MaxRequests,    \* bound: requests of administrators, and reparses
    MaxFaults       \* bound: requests that end early

VARIABLES
    row,            \* parsed_events
    votes,          \* map_report_votes
    job, ballot,    \* requests of administrators and of voters in flight
    unlogged,       \* changes that are to be logged less entries in admin_activity_log
    owed,           \* history: taken off the map, report_removed not yet published
    banned,         \* history: rejected, neither restored nor approved since
    requests, faults

vars == <<row, votes, job, ballot, unlogged, owed, banned, requests, faults>>

Statuses == {"auto_approved", "pending_review", "approved", "rejected"}
Approved == {"auto_approved", "approved"}
Ways     == {"up", "down"}
Acts     == {"approve", "reject", "restore", "re_enrich", "update", "confirm_location"}
Todos    == {<<"write", "publish", "log">>, <<"publish", "log">>, <<"log", "publish">>,
             <<"publish">>, <<"log">>}

Rows == [exists: BOOLEAN, status: Statuses, hidden: BOOLEAN, shown: BOOLEAN,
         expired: BOOLEAN, up: Nat, down: Nat]
Votes == [id: Reports, voter: Voters, way: Ways]

\* A request and what it still has to do.
Idle == [todo |-> <<>>]
Jobs == [act: Acts, id: Reports, todo: Todos]
Ballots == [step: {"insert", "count"}, id: Reports, way: Ways]
      \cup [step: {"publish"}, id: Reports, up: Nat, down: Nat]
NoBallot == [step |-> "none"]

ASSUME ModerationAssumption ==
    /\ CallerOf \in [Calls -> Voters]
    /\ PairResults \in BOOLEAN
    /\ MaxRequests \in Nat
    /\ MaxFaults \in Nat
    /\ IsFiniteSet(Admins)
    /\ IsFiniteSet(Calls)
    /\ IsFiniteSet(Voters)

TypeOK ==
    /\ row         \in [Reports -> Rows]
    /\ votes       \subseteq Votes
    /\ job         \in [Admins -> Jobs \cup {Idle}]
    /\ ballot      \in [Calls -> Ballots \cup {NoBallot}]
    /\ \A r \in Reports : row[r].up + row[r].down <= Cardinality(Voters)
    /\ unlogged    \in [Reports -> Int]
    /\ owed        \subseteq Reports
    /\ banned      \subseteq Reports
    /\ requests    \in 0..MaxRequests
    /\ faults      \in 0..MaxFaults

Init ==
    /\ row = [r \in Reports |->
                 [exists |-> FALSE, status |-> "auto_approved", hidden |-> FALSE,
                  shown |-> FALSE, expired |-> FALSE, up |-> 0, down |-> 0]]
    /\ votes       = {}
    /\ job         = [a \in Admins |-> Idle]
    /\ ballot      = [c \in Calls |-> NoBallot]
    /\ unlogged    = [r \in Reports |-> 0]
    /\ owed        = {}
    /\ banned      = {}
    /\ requests    = 0
    /\ faults      = 0

Request == requests < MaxRequests /\ requests' = requests + 1
Fault   == faults < MaxFaults /\ faults' = faults + 1

-----------------------------------------------------------------------------
(* What a query of the map asks of a row. *)

Outvoted(rec) == rec.down > 2 * rec.up

Active(rec) == rec.exists /\ rec.shown /\ ~rec.expired /\ rec.status \in Approved

\* Mutated form of Visible: without hidden_at.
VisibleUnhidden(rec) == Active(rec) /\ ~Outvoted(rec)

\* queryMapEvents, getPublicReportById, getPublicStats.
Visible(rec) == Active(rec) /\ ~rec.hidden /\ ~Outvoted(rec)

\* A statement that changes one row; one that is to take it off the map owes
\* the clients of the map a removal.
Store(r, new) == row' = [row EXCEPT ![r] = new]
TakeOff(r, new) ==
    /\ Store(r, new)
    /\ owed' = IF Visible(row[r]) /\ ~Visible(new) THEN owed \cup {r} ELSE owed

\* publish in the api process.
Publish(r, type) == owed' = IF type = "report_removed" THEN owed \ {r} ELSE owed

-----------------------------------------------------------------------------
(* Reports, enrichment and time. *)

\* persistParsed for the worker; createPublicReport for the map.
ParseNew(r) ==
    /\ ~row[r].exists
    /\ Store(r, [row[r] EXCEPT !.exists = TRUE])
    /\ UNCHANGED <<votes, job, ballot, unlogged, owed, banned, requests, faults>>

Submit(r) ==
    /\ ~row[r].exists
    /\ Store(r, [row[r] EXCEPT !.exists = TRUE, !.shown = TRUE, !.status = "pending_review"])
    /\ UNCHANGED <<votes, job, ballot, unlogged, owed, banned, requests, faults>>

\* persistParsed on a row that is there: moderation and votes stay.
Reparse(r) ==
    /\ row[r].exists
    /\ Store(r, [row[r] EXCEPT !.shown = FALSE])
    /\ Request
    /\ UNCHANGED <<votes, job, ballot, unlogged, owed, banned, faults>>

\* enrichEvent: its UPDATE.  Attempts at a report that is enriched already are
\* the matter of Enrichment, and so is the announcement, which is published in
\* another process.
Enrich(r) ==
    /\ row[r].exists
    /\ ~row[r].shown
    /\ Store(r, [row[r] EXCEPT !.shown = TRUE])
    /\ UNCHANGED <<votes, job, ballot, unlogged, owed, banned, requests, faults>>

Expire(r) ==
    /\ row[r].exists
    /\ ~row[r].expired
    /\ Store(r, [row[r] EXCEPT !.expired = TRUE])
    /\ UNCHANGED <<votes, job, ballot, unlogged, owed, banned, requests, faults>>

-----------------------------------------------------------------------------
(* Administrators. *)

Free(a) == job[a] = Idle

Begin(a, act, r, todo) == job' = [job EXCEPT ![a] = [act |-> act, id |-> r, todo |-> todo]]

Changed(r) == unlogged' = [unlogged EXCEPT ![r] = @ + 1]

\* approveEvent: hidden_at stays as it is.
Approve(a, r) ==
    /\ Free(a) /\ row[r].exists
    /\ Store(r, [row[r] EXCEPT !.status = "approved"])
    /\ Begin(a, "approve", r, <<"publish", "log">>)
    /\ banned' = banned \ {r}
    /\ Changed(r)
    /\ Request
    /\ UNCHANGED <<votes, ballot, owed, faults>>

\* rejectEvent.
Reject(a, r) ==
    /\ Free(a) /\ row[r].exists
    /\ TakeOff(r, [row[r] EXCEPT !.status = "rejected", !.hidden = TRUE])
    /\ Begin(a, "reject", r, <<"publish", "log">>)
    /\ banned' = banned \cup {r}
    /\ Changed(r)
    /\ Request
    /\ UNCHANGED <<votes, ballot, faults>>

\* Mutated form of Restore: logged before it is known whether a row was found.
RestoreLogsFirst(a, r) ==
    /\ Free(a) /\ row[r].exists
    /\ IF row[r].status = "rejected"
       THEN /\ Store(r, [row[r] EXCEPT !.status = "pending_review", !.hidden = FALSE])
            /\ banned' = banned \ {r}
            /\ Changed(r)
       ELSE UNCHANGED <<row, banned, unlogged>>
    /\ Begin(a, "restore", r, <<"log", "publish">>)
    /\ Request
    /\ UNCHANGED <<votes, ballot, owed, faults>>

\* restoreEvent: the one that writes its log entry before it publishes.
Restore(a, r) ==
    /\ Free(a) /\ row[r].exists
    /\ row[r].status = "rejected"
    /\ Store(r, [row[r] EXCEPT !.status = "pending_review", !.hidden = FALSE])
    /\ Begin(a, "restore", r, <<"log", "publish">>)
    /\ banned' = banned \ {r}
    /\ Changed(r)
    /\ Request
    /\ UNCHANGED <<votes, ballot, owed, faults>>

\* reEnrichEvent.
ReEnrich(a, r) ==
    /\ Free(a) /\ row[r].exists
    /\ TakeOff(r, [row[r] EXCEPT !.shown = FALSE])
    /\ Begin(a, "re_enrich", r, <<"publish", "log">>)
    /\ Changed(r)
    /\ Request
    /\ UNCHANGED <<votes, ballot, banned, faults>>

\* reEnrichBatch: its one event names no report, and it is not logged.
ReEnrichBatch(S) ==
    /\ S # {}
    /\ \A r \in S : row[r].exists
    /\ row' = [r \in Reports |-> IF r \in S THEN [row[r] EXCEPT !.shown = FALSE] ELSE row[r]]
    /\ Request
    /\ UNCHANGED <<votes, job, ballot, unlogged, owed, banned, faults>>

\* The first statement of updateEvent and of confirmLocation.  A request that is
\* then refused as invalid changes nothing.
ReadFirst(a, r, act) ==
    /\ act \in {"update", "confirm_location"}
    /\ Free(a) /\ row[r].exists
    /\ Begin(a, act, r, <<"write", "publish", "log">>)
    /\ Request
    /\ UNCHANGED <<row, votes, ballot, unlogged, owed, banned, faults>>

Due(a, effect) == ~Free(a) /\ Head(job[a].todo) = effect

\* The UPDATE of updateEvent, of any columns: expires_at may be moved either
\* way, and coordinates approve the report.
WriteUpdate(a) ==
    LET r == job[a].id
    IN  /\ Due(a, "write")
        /\ job[a].act = "update"
        /\ \E located, expired \in BOOLEAN :
              Store(r, [row[r] EXCEPT !.expired = expired,
                                      !.status  = IF located THEN "approved" ELSE row[r].status])
        /\ Begin(a, job[a].act, r, Tail(job[a].todo))
        /\ Changed(r)
        /\ UNCHANGED <<votes, ballot, owed, banned, requests, faults>>

\* The UPDATE of confirmLocation.
WriteConfirmed(a) ==
    LET r == job[a].id
    IN  /\ Due(a, "write")
        /\ job[a].act = "confirm_location"
        /\ Store(r, [row[r] EXCEPT !.status = "approved"])
        /\ Begin(a, job[a].act, r, Tail(job[a].todo))
        /\ Changed(r)
        /\ UNCHANGED <<votes, ballot, owed, banned, requests, faults>>

\* Mutated form of EventOf: a re-enriched report is announced as updated.
EventOfUpdate(act) == IF act = "reject" THEN "report_removed" ELSE "report_updated"

EventOf(act) == IF act \in {"reject", "re_enrich"} THEN "report_removed" ELSE "report_updated"

Advance(a) == IF Len(job[a].todo) = 1
              THEN job' = [job EXCEPT ![a] = Idle]
              ELSE Begin(a, job[a].act, job[a].id, Tail(job[a].todo))

PublishChange(a) ==
    /\ Due(a, "publish")
    /\ Publish(job[a].id, EventOf(job[a].act))
    /\ Advance(a)
    /\ UNCHANGED <<row, votes, ballot, unlogged, banned, requests, faults>>

LogChange(a) ==
    /\ Due(a, "log")
    /\ unlogged' = [unlogged EXCEPT ![job[a].id] = @ - 1]
    /\ Advance(a)
    /\ UNCHANGED <<row, votes, ballot, owed, banned, requests, faults>>

\* A statement throws, a reply is lost, or the process dies.
RequestBreaks(a) ==
    /\ ~Free(a)
    /\ job' = [job EXCEPT ![a] = Idle]
    /\ Fault
    /\ UNCHANGED <<row, votes, ballot, unlogged, owed, banned, requests>>

-----------------------------------------------------------------------------
(* voteForReport. *)

\* hidden_at and the votes there are do not matter here.
CheckReport(c, r, way) ==
    /\ ballot[c] = NoBallot
    /\ Active(row[r])
    /\ ballot' = [ballot EXCEPT ![c] = [step |-> "insert", id |-> r, way |-> way]]
    /\ UNCHANGED <<row, votes, job, unlogged, owed, banned, requests, faults>>

VotedBefore(c) == \E x \in votes : x.id = ballot[c].id /\ x.voter = CallerOf[c]

\* Mutated form of StoreVote: counted also when nothing was inserted.
StoreVoteAnyway(c) ==
    /\ ballot[c].step = "insert"
    /\ votes' = IF VotedBefore(c) THEN votes
                ELSE votes \cup {[id |-> ballot[c].id, voter |-> CallerOf[c], way |-> ballot[c].way]}
    /\ ballot' = [ballot EXCEPT ![c].step = "count"]
    /\ UNCHANGED <<row, job, unlogged, owed, banned, requests, faults>>

\* INSERT ... ON CONFLICT (parsed_event_id, voter_hash) DO NOTHING.
StoreVote(c) ==
    /\ ballot[c].step = "insert"
    /\ IF VotedBefore(c)
       THEN /\ ballot' = [ballot EXCEPT ![c] = NoBallot]
            /\ UNCHANGED votes
       ELSE /\ votes' = votes \cup {[id    |-> ballot[c].id, voter |-> CallerOf[c],
                                     way   |-> ballot[c].way]}
            /\ ballot' = [ballot EXCEPT ![c].step = "count"]
    /\ UNCHANGED <<row, job, unlogged, owed, banned, requests, faults>>

CountVote(c) ==
    LET r   == ballot[c].id
        new == IF ballot[c].way = "up" THEN [row[r] EXCEPT !.up   = row[r].up + 1]
                                       ELSE [row[r] EXCEPT !.down = row[r].down + 1]
    IN  /\ ballot[c].step = "count"
        /\ TakeOff(r, new)
        /\ ballot' = [ballot EXCEPT ![c] = [step |-> "publish", id |-> r,
                                            up |-> new.up, down |-> new.down]]
        /\ UNCHANGED <<votes, job, unlogged, banned, requests, faults>>

\* Mutated form of PublishVote: clients get the counters whatever they are.
PublishVoteCounters(c) ==
    /\ ballot[c].step = "publish"
    /\ Publish(ballot[c].id, "report_updated")
    /\ ballot' = [ballot EXCEPT ![c] = NoBallot]
    /\ UNCHANGED <<row, votes, job, unlogged, banned, requests, faults>>

\* By the counters the UPDATE returned.  Of a pair the first member is the list
\* of rows, which has neither counters nor id: the event names no report.
PublishVote(c) ==
    /\ ballot[c].step = "publish"
    /\ IF PairResults
       THEN UNCHANGED owed
       ELSE Publish(ballot[c].id,
                    IF Outvoted(ballot[c]) THEN "report_removed" ELSE "report_updated")
    /\ ballot' = [ballot EXCEPT ![c] = NoBallot]
    /\ UNCHANGED <<row, votes, job, unlogged, banned, requests, faults>>

CallBreaks(c) ==
    /\ ballot[c] # NoBallot
    /\ ballot' = [ballot EXCEPT ![c] = NoBallot]
    /\ Fault
    /\ UNCHANGED <<row, votes, job, unlogged, owed, banned, requests>>

-----------------------------------------------------------------------------
Next ==
    \/ \E r \in Reports :
          \/ ParseNew(r) \/ Submit(r) \/ Reparse(r) \/ Enrich(r) \/ Expire(r)
    \/ \E a \in Admins, r \in Reports :
          \/ Approve(a, r) \/ Reject(a, r) \/ Restore(a, r) \/ ReEnrich(a, r)
          \/ \E act \in Acts : ReadFirst(a, r, act)
    \/ \E S \in SUBSET Reports : ReEnrichBatch(S)
    \/ \E a \in Admins :
          \/ WriteUpdate(a) \/ WriteConfirmed(a) \/ PublishChange(a) \/ LogChange(a)
          \/ RequestBreaks(a)
    \/ \E c \in Calls :
          \/ \E r \in Reports, way \in Ways : CheckReport(c, r, way)
          \/ StoreVote(c) \/ CountVote(c) \/ PublishVote(c) \/ CallBreaks(c)

Spec == Init /\ [][Next]_vars
-----------------------------------------------------------------------------
(* Properties. *)

Quiet == faults = 0

InFlight(r) == \/ \E a \in Admins : ~Free(a) /\ job[a].id = r
               \/ \E c \in Calls : ballot[c] # NoBallot /\ ballot[c].id = r

Stored(r, way)   == {x \in votes : x.id = r /\ x.way = way}
Counting(r, way) == {c \in Calls : /\ ballot[c].step = "count"
                                   /\ ballot[c].id = r /\ ballot[c].way = way}
Counted(r, way)  == IF way = "up" THEN row[r].up ELSE row[r].down

(* The counters of a report are the votes stored for it less those that    *)
(* are being counted; with requests that broke off in between, less those  *)
(* too: no vote counts twice, however often and fast a client calls.       *)
VotesCounted ==
    \A r \in Reports, way \in Ways :
        /\ Counted(r, way) + Cardinality(Counting(r, way)) <= Cardinality(Stored(r, way))
        /\ Quiet => Counted(r, way) + Cardinality(Counting(r, way)) = Cardinality(Stored(r, way))

(* A rejected report is not on the map until an administrator restores or  *)
(* approves it, though an edit of its coordinates or a confirmation of its *)
(* location, begun before or after, sets its status to approved.           *)
RejectedStaysOff ==
    \A r \in banned : ~Visible(row[r])

(* A report that a rejection, a re-enrichment (of it alone) or a vote has  *)
(* taken off the map is taken off in the map clients: report_removed has   *)
(* been published, or a request for the report is still under way.         *)
RemovalIsTold ==
    Quiet => \A r \in owed : InFlight(r)

ToLog(r) == {a \in Admins : /\ ~Free(a)
                            /\ job[a].id = r
                            /\ job[a].todo \in {<<"publish", "log">>, <<"log", "publish">>, <<"log">>}}

(* The activity log tells what happened: every entry, written or still to  *)
(* be written, is of a change that has been made, whatever requests run at *)
(* once or break off; and until one breaks off no change goes without one. *)
(* A batch re-enrichment writes none and is left out of the count.         *)
LogTellsTruth ==
    \A r \in Reports :
        /\ unlogged[r] >= Cardinality(ToLog(r))
        /\ Quiet => unlogged[r] = Cardinality(ToLog(r))

(* An approved report is on the map, if it is enriched, not expired and    *)
(* not voted down.                                                         *)
ApprovedIsShown ==
    \A r \in Reports :
        row[r].status = "approved" /\ Active(row[r]) /\ ~Outvoted(row[r]) => Visible(row[r])

(* A vote that takes a report off the map takes it off in the map clients. *)
OutvotedIsTold ==
    \A r \in Reports : Quiet /\ r \in owed /\ Outvoted(row[r]) => InFlight(r)

=============================================================================
