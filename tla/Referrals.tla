------------------------------ MODULE Referrals ------------------------------
(***************************************************************************)
(* Registered devices, their invitation codes and who invited whom         *)
(* (src/src/mobile-users, src/src/referrals, and registerMobileDevice of   *)
(* src/src/map/map.controller.ts).  No request is atomic: every query is   *)
(* an action, and only unique indexes keep concurrent requests apart.      *)
(* Nothing calls qualifyReferral or addPoints, so a referral stays as it   *)
(* was stored.                                                             *)
(***************************************************************************)
EXTENDS Naturals, FiniteSets

CONSTANTS
    Devices,        \* device_uuid, and the user registered with it
    Known,          \* those registered in earlier days
    Codes,          \* what generateCode draws from
    NoCode,
    Calls,          \* requests the api can have in hand at a time
    MaxDraws        \* attempts of getOrCreateCode

VARIABLES
    users,          \* mobile_users
    code,           \* referral_codes, by user
    referral,       \* referrals, by invitee
    call,           \* requests in hand
    told,           \* history: codes given to users
    attached        \* history: invitations that were accepted

referralVars == <<users, code, referral, call, told, attached>>

Referred   == [by : Devices, status : {"pending", "rejected_fraud"}]
NoReferral == [status |-> "none"]

JobSteps == {"find_device", "save_device", "check", "save_referral",
             "find_own", "draw", "save_code"}
\* code: the one entered, or drawn; seen: the device was found; by: the inviter;
\* allowed: what the checks say.
Jobs  == [step : JobSteps, device : Devices, code : Codes \cup {NoCode}, seen : BOOLEAN,
          by : Devices, allowed : BOOLEAN, draws : 0..MaxDraws]
NoJob == [step |-> "none"]

ASSUME ReferralAssumption ==
    /\ Known \subseteq Devices
    /\ NoCode \notin Codes
    /\ MaxDraws \in Nat

ReferralTypeOK ==
    /\ users    \subseteq Devices
    /\ code     \in [Devices -> Codes \cup {NoCode}]
    /\ referral \in [Devices -> Referred \cup {NoReferral}]
    /\ call     \in [Calls -> Jobs \cup {NoJob}]
    /\ told     \subseteq Devices \X Codes
    /\ attached \subseteq Devices \X Devices

Owners(c) == {d \in Devices : code[d] = c}

ReferralInit ==
    /\ users    = Known
    /\ code     = [d \in Devices |-> NoCode]
    /\ referral = [d \in Devices |-> NoReferral]
    /\ call     = [k \in Calls |-> NoJob]
    /\ told     = {}
    /\ attached = {}

-----------------------------------------------------------------------------

At(k, step) == call[k].step = step

\* A request that ends: answered, refused or with an error.
Ends(k) == call' = [call EXCEPT ![k] = NoJob]

Job(step, d, c) == [step |-> step, device |-> d, code |-> c, seen |-> FALSE,
                    by |-> d, allowed |-> FALSE, draws |-> 0]

Asks == UNCHANGED <<users, code, referral, told, attached>>

Begin(k, job) ==
    /\ call[k] = NoJob
    /\ call' = [call EXCEPT ![k] = job]
    /\ Asks

\* register of either controller, with or without a code.
Register(k, d, c) == Begin(k, Job("find_device", d, c))

Requests(k) ==
    \E d \in Devices : \/ \E c \in Codes \cup {NoCode} : Register(k, d, c)
                       \/ \E c \in Codes : Begin(k, Job("check", d, c))
                       \/ Begin(k, Job("find_own", d, NoCode))

(* upsertDevice, and attach as best effort when a code came with it. *)

FindDevice(k) ==
    /\ At(k, "find_device")
    /\ call' = [call EXCEPT ![k].step = "save_device",
                            ![k].seen = call[k].device \in users]
    /\ Asks

\* device_uuid is unique: of two first registrations one fails.
SaveDevice(k) ==
    LET job == call[k]
    IN  /\ At(k, "save_device")
        /\ users' = users \cup {job.device}
        /\ IF job.code = NoCode \/ (~job.seen /\ job.device \in users)
           THEN Ends(k)
           ELSE call' = [call EXCEPT ![k] = Job("check", job.device, job.code)]
        /\ UNCHANGED <<code, referral, told, attached>>

(* attach.  Its queries come before its one INSERT and no row they look for *)
(* is ever changed or deleted, so they can be taken as made at the last.    *)

\* FraudCheckService.check, of a user and a code that exist: the own code, and
\* an invitee who has a referral (by whomever: the third query adds nothing).
Check(k) ==
    LET d == call[k].device
    IN  /\ At(k, "check")
        /\ \/ \E inviter \in Owners(call[k].code) :
                 /\ d \in users
                 /\ call' = [call EXCEPT ![k] =
                       [Job("save_referral", d, NoCode) EXCEPT
                           !.by = inviter,
                           !.allowed = inviter # d /\ referral[d] = NoReferral]]
           \/ /\ d \notin users \/ Owners(call[k].code) = {}
              /\ Ends(k)
        /\ Asks

Stored(job) == [by |-> job.by, status |-> IF job.allowed THEN "pending" ELSE "rejected_fraud"]

Accept(job) == attached' = IF job.allowed THEN attached \cup {<<job.device, job.by>>} ELSE attached

\* Mutated form of SaveReferral: the second referral of an invitee replaces the first.
SaveReferralOver(k) ==
    /\ At(k, "save_referral")
    /\ referral' = [referral EXCEPT ![call[k].device] = Stored(call[k])]
    /\ Accept(call[k])
    /\ Ends(k)
    /\ UNCHANGED <<users, code, told>>

\* What is not allowed is stored too; invitee_user_id is unique.
SaveReferral(k) ==
    /\ At(k, "save_referral")
    /\ IF referral[call[k].device] = NoReferral
       THEN /\ referral' = [referral EXCEPT ![call[k].device] = Stored(call[k])]
            /\ Accept(call[k])
       ELSE UNCHANGED <<referral, attached>>
    /\ Ends(k)
    /\ UNCHANGED <<users, code, told>>

(* getProfile and getOrCreateCode. *)

Tell(d, c) == told' = told \cup {<<d, c>>}

FindOwn(k) ==
    LET d == call[k].device
    IN  /\ At(k, "find_own")
        /\ \/ d \notin users /\ Ends(k) /\ UNCHANGED told
           \/ code[d] # NoCode /\ Ends(k) /\ Tell(d, code[d])
           \/ /\ d \in users /\ code[d] = NoCode
              /\ call' = [call EXCEPT ![k].step = "draw"]
              /\ UNCHANGED told
        /\ UNCHANGED <<users, code, referral, attached>>

\* Mutated form of Draw: one attempt more.
DrawOnceMore(k, c) ==
    LET job == call[k]
    IN  /\ At(k, "draw")
        /\ job.draws <= MaxDraws
        /\ call' = [call EXCEPT ![k] =
              IF Owners(c) = {} THEN Job("save_code", job.device, c)
                                ELSE [job EXCEPT !.draws = job.draws + 1]]
        /\ Asks

\* A code that is taken is drawn again, up to the last attempt.
Draw(k, c) ==
    LET job == call[k]
    IN  /\ At(k, "draw")
        /\ job.draws < MaxDraws
        /\ call' = [call EXCEPT ![k] =
              IF Owners(c) = {} THEN Job("save_code", job.device, c)
                                ELSE [job EXCEPT !.draws = job.draws + 1]]
        /\ Asks

GiveUpDrawing(k) ==
    /\ At(k, "draw")
    /\ call[k].draws = MaxDraws
    /\ Ends(k)
    /\ Asks

\* Mutated form of Accepts: only codes are unique.
AcceptsSecond(d, c) == Owners(c) = {}

\* user_id and code are unique.
Accepts(d, c) == Owners(c) = {} /\ code[d] = NoCode

SaveCode(k) ==
    LET d == call[k].device
        c == call[k].code
    IN  /\ At(k, "save_code")
        /\ IF Accepts(d, c)
           THEN code' = [code EXCEPT ![d] = c] /\ Tell(d, c)
           ELSE UNCHANGED <<code, told>>
        /\ Ends(k)
        /\ UNCHANGED <<users, referral, attached>>

JobStep(k) ==
    \/ FindDevice(k) \/ SaveDevice(k)
    \/ Check(k) \/ SaveReferral(k)
    \/ FindOwn(k) \/ GiveUpDrawing(k) \/ SaveCode(k)
    \/ \E c \in Codes : Draw(k, c)

\* A query throws, or it is executed and its reply is lost: nobody is told.
CallFails(k) ==
    LET job == call[k]
    IN  /\ call[k] # NoJob
        /\ Ends(k)
        /\ users' = IF At(k, "save_device") THEN users \cup {job.device} ELSE users
        /\ \/ UNCHANGED <<code, referral>>
           \/ /\ At(k, "save_code") /\ Accepts(job.device, job.code)
              /\ code' = [code EXCEPT ![job.device] = job.code]
              /\ UNCHANGED referral
           \/ /\ At(k, "save_referral") /\ referral[job.device] = NoReferral
              /\ referral' = [referral EXCEPT ![job.device] = Stored(job)]
              /\ UNCHANGED code
        /\ UNCHANGED <<told, attached>>

\* The api process dies.
CallsLost == call' = [k \in Calls |-> NoJob] /\ Asks

ReferralNext ==
    \/ \E k \in Calls : JobStep(k) \/ CallFails(k) \/ Requests(k)
    \/ CallsLost

ReferralSpec == ReferralInit /\ [][ReferralNext]_referralVars
-----------------------------------------------------------------------------
(* Properties. *)

(* A code that a user was given is his for good: whoever enters it is his  *)
(* invitee, though codes are drawn and stored by concurrent requests.      *)
ToldCodesWork ==
    \A x \in told : Owners(x[2]) = {x[1]}

(* An invitation that was accepted stands, as it was accepted, and nobody  *)
(* has invited himself.  What is stored as rejected are exactly the users  *)
(* who entered their own code: the checks that fail for another reason     *)
(* fail because a referral is there, and then nothing is stored.           *)
InvitationsStand ==
    /\ \A x \in attached : referral[x[1]] = [by |-> x[2], status |-> "pending"]
    /\ \A d \in Devices : referral[d] # NoReferral =>
          (referral[d].status = "rejected_fraud" <=> referral[d].by = d)
=============================================================================
