------------------------------- MODULE MapApi --------------------------------
(***************************************************************************)
(* The requests of the public to the api process                           *)
(* (src/src/map/map.controller.ts, src/src/referrals/                      *)
(* referrals.controller.ts, src/src/mobile-users/                          *)
(* mobile-users.controller.ts): the guard of the endpoint first, then its  *)
(* handler, many of them at once.  When the process dies, the tables of    *)
(* the guards and the requests in hand are gone; rows stay.                *)
(***************************************************************************)
EXTENDS RateLimit, PublicReports, Referrals

CONSTANTS
    MaxRequests,    \* bound: requests admitted, replays, moderations
    MaxFaults       \* bound: statements that fail, processes that die

VARIABLES
    requests, faults

vars == <<limitVars, reportVars, referralVars, requests, faults>>

\* The guards of the map endpoints and of submissions.
ASSUME ApiAssumption ==
    /\ {"map", "submission"} \subseteq Guards
    /\ MaxRequests \in Nat
    /\ MaxFaults \in Nat

TypeOK ==
    /\ LimitTypeOK
    /\ ReportTypeOK
    /\ ReferralTypeOK
    /\ requests \in 0..MaxRequests
    /\ faults   \in 0..MaxFaults

Init ==
    /\ LimitInit
    /\ ReportInit
    /\ ReferralInit
    /\ requests = 0
    /\ faults   = 0

Request == requests < MaxRequests /\ requests' = requests + 1
Fault   == faults < MaxFaults /\ faults' = faults + 1

-----------------------------------------------------------------------------
(* Requests arrive. *)

\* POST /api/map/reports.
CreatePublicReport(c, m) ==
    /\ Admit("submission", c)
    /\ BeginSubmission(m)
    /\ Request
    /\ UNCHANGED <<referralVars, faults>>

\* POST /api/map/mobile/register-device; the token is the matter of Notifications.
RegisterMobileDevice(c, k, d, offered) ==
    /\ Admit("map", c)
    /\ Register(k, d, offered)
    /\ Request
    /\ UNCHANGED <<reportVars, faults>>

\* The map endpoints that read, vote or subscribe: see Moderation, Notifications.
OtherMapRequest(c) ==
    /\ Admit("map", c)
    /\ Request
    /\ UNCHANGED <<reportVars, referralVars, faults>>

\* 429.
TooMany(g, c) ==
    /\ Refuse(g, c)
    /\ UNCHANGED <<reportVars, referralVars, requests, faults>>

\* POST /api/mobile-users/register, POST /api/referrals/attach and GET
\* /api/referrals/me have no guard.
MobileRequest(k) ==
    /\ Requests(k)
    /\ Request
    /\ UNCHANGED <<limitVars, reportVars, faults>>

-----------------------------------------------------------------------------
(* Their handlers; the backfill, the administrators, time and failure. *)

Replay ==
    /\ \E S \in SUBSET Messages : ListProcessed(S)
    /\ Request
    /\ UNCHANGED <<limitVars, referralVars, faults>>

Review(m, status) ==
    /\ Moderate(m, status)
    /\ Request
    /\ UNCHANGED <<limitVars, referralVars, faults>>

ReportStep(m) ==
    /\ RequestStep(m) \/ ReplayStep(m)
    /\ UNCHANGED <<limitVars, referralVars, requests, faults>>

MobileStep(k) ==
    /\ JobStep(k)
    /\ UNCHANGED <<limitVars, reportVars, requests, faults>>

Time == Tick /\ UNCHANGED <<reportVars, referralVars, requests, faults>>

ReportFails ==
    /\ ReplayDies \/ \E m \in Messages : SubmissionFails(m)
    /\ Fault
    /\ UNCHANGED <<limitVars, referralVars, requests>>

MobileFails(k) ==
    /\ CallFails(k)
    /\ Fault
    /\ UNCHANGED <<limitVars, reportVars, requests>>

\* The api process dies and is started again.
Crash ==
    /\ Restart
    /\ SubmissionsLost
    /\ CallsLost
    /\ Fault
    /\ UNCHANGED requests

Next ==
    \/ \E c \in Clients :
          \/ \E m \in Messages : CreatePublicReport(c, m)
          \/ \E k \in Calls, d \in Devices, offered \in Codes \cup {NoCode} :
                RegisterMobileDevice(c, k, d, offered)
          \/ OtherMapRequest(c)
          \/ \E g \in Guards : TooMany(g, c)
    \/ \E m \in Messages : \/ ReportStep(m)
                           \/ \E status \in Statuses : Review(m, status)
    \/ Replay
    \/ \E k \in Calls : MobileRequest(k) \/ MobileStep(k) \/ MobileFails(k)
    \/ Time
    \/ ReportFails
    \/ Crash

Spec == Init /\ [][Next]_vars
=============================================================================
