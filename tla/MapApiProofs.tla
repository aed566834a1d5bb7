---------------------------- MODULE MapApiProofs ----------------------------
(***************************************************************************)
(* What submissions, invitations and rate limits keep, for any number of   *)
(* requests at once.  Each part is proved of its own specification, which  *)
(* the composition implements.                                             *)
(***************************************************************************)
EXTENDS MapApi, RateLimitProofs

-----------------------------------------------------------------------------
(* Submissions. *)

\* What was told is in a row that the request itself has inserted, and of every
\* status it is known who gave it.
Filed ==
    \A m \in Messages :
        /\ m \in adopted => Exists(m) /\ submission[m] # "told"
        /\ submission[m] = "told" => Exists(m)
        /\ Exists(m) /\ report[m].status = "auto_approved" => m \in adopted
        /\ Exists(m) /\ report[m].status = "approved" => m \in reviewed

ReportInv == ReportTypeOK /\ Filed

LEMMA ReportInitInv == ReportInit => ReportInv
  BY DEF ReportInit, ReportInv, ReportTypeOK, Filed, Exists, Steps, Replays, NoReplay

\* The row of one message is stored, by a request or by the replay.
LEMMA RowStored ==
    ASSUME ReportInv, NEW m \in Messages, NEW row \in Rows,
           report' = [report EXCEPT ![m] = row]
    PROVE  /\ report' \in [Messages -> Rows \cup {NoReport}]
           /\ report'[m] = row /\ Exists(m)'
           /\ \A n \in Messages \ {m} : report'[n] = report[n] /\ (Exists(n)' <=> Exists(n))
  <1>1. row # NoReport
    BY DEF Rows, Statuses, NoReport
  <1>2. report \in [Messages -> Rows \cup {NoReport}]
    BY DEF ReportInv, ReportTypeOK
  <1>3. QED
    BY <1>1, <1>2 DEF Exists

\* A new row, the own one of its request, awaits review.
LEMMA FiledNew ==
    ASSUME ReportInv, NEW m \in Messages, NEW step \in {"told", "broken"}, ~Exists(m),
           report' = [report EXCEPT ![m] = [status |-> "pending_review", shown |-> TRUE]],
           Goes(m, step),
           UNCHANGED <<raw, replay, reviewed, adopted>>
    PROVE  ReportInv'
  <1> DEFINE row == [status |-> "pending_review", shown |-> TRUE]
  <1>1. row \in Rows /\ row.status = "pending_review"
    BY DEF Rows, Statuses
  <1> HIDE DEF row
  <1>2. report' = [report EXCEPT ![m] = row]
    BY DEF row
  <1>3. /\ report' \in [Messages -> Rows \cup {NoReport}]
        /\ report'[m] = row /\ Exists(m)'
        /\ \A n \in Messages \ {m} : report'[n] = report[n] /\ (Exists(n)' <=> Exists(n))
    BY <1>1, <1>2, RowStored
  <1>4. /\ submission' \in [Messages -> Steps]
        /\ \A n \in Messages \ {m} : submission'[n] = submission[n]
    BY DEF Goes, ReportInv, ReportTypeOK, Steps
  <1>5. m \notin adopted
    BY DEF ReportInv, Filed
  <1>6. Filed'
    BY <1>1, <1>3, <1>4, <1>5 DEF ReportInv, Filed
  <1>7. ReportTypeOK'
    BY <1>3, <1>4 DEF ReportInv, ReportTypeOK
  <1>8. QED
    BY <1>6, <1>7 DEF ReportInv

LEMMA RequestInv ==
    ASSUME ReportInv, NEW m \in Messages,
           BeginSubmission(m) \/ RequestStep(m) \/ SubmissionFails(m)
    PROVE  ReportInv'
  <1>1. CASE BeginSubmission(m)
    BY <1>1 DEF ReportInv, ReportTypeOK, Filed, Exists, BeginSubmission, Goes, Steps
  <1>2. ASSUME NEW human \in BOOLEAN, AssertHuman(m, human) PROVE ReportInv'
    BY <1>2 DEF ReportInv, ReportTypeOK, Filed, Exists, AssertHuman, Goes, Steps
  <1>3. CASE StoreRaw(m)
    BY <1>3 DEF ReportInv, ReportTypeOK, Filed, Exists, StoreRaw, Goes, Steps
  <1>4. CASE FileReport(m)
    <2>1. CASE Exists(m)
      <3>1. Goes(m, "broken") /\ UNCHANGED <<raw, report, replay, reviewed, adopted>>
        BY <1>4, <2>1 DEF FileReport
      <3>2. QED
        BY <3>1 DEF ReportInv, ReportTypeOK, Filed, Exists, Goes, Steps
    <2>2. CASE ~Exists(m)
      BY <1>4, <2>2, FiledNew DEF FileReport
    <2>3. QED
      BY <2>1, <2>2
  <1>5. CASE SubmissionFails(m)
    <2>1. Goes(m, "broken") /\ UNCHANGED <<replay, reviewed, adopted>>
      BY <1>5 DEF SubmissionFails
    <2>2. CASE UNCHANGED report /\ raw' \subseteq Messages
      BY <2>1, <2>2 DEF ReportInv, ReportTypeOK, Filed, Exists, Goes, Steps
    <2>3. CASE /\ ~Exists(m) /\ UNCHANGED raw
               /\ report' = [report EXCEPT ![m] = [status |-> "pending_review", shown |-> TRUE]]
      BY <2>1, <2>3, FiledNew
    <2>4. QED
      BY <1>5, <2>2, <2>3 DEF SubmissionFails, ReportInv, ReportTypeOK
  <1>6. QED
    BY <1>1, <1>2, <1>3, <1>4, <1>5 DEF RequestStep

LEMMA ReplayInv ==
    ASSUME ReportInv, NEW m \in Messages, ReplayStep(m)
    PROVE  ReportInv'
  <1>1. CASE FindParsed(m)
    BY <1>1 DEF ReportInv, ReportTypeOK, Filed, Exists, FindParsed, Replays
  <1>2. CASE WriteParsed(m)
    <2> DEFINE row == [status |-> IF Exists(m) THEN report[m].status ELSE "auto_approved",
                       shown  |-> FALSE]
    <2>1. row \in Rows
      BY DEF ReportInv, ReportTypeOK, Exists, Rows, Statuses
    <2>2. /\ replay' \in Replays
          /\ UNCHANGED <<submission, raw, reviewed>>
          /\ adopted' = IF Exists(m) THEN adopted ELSE adopted \cup {m}
      BY <1>2 DEF WriteParsed, ReportInv, ReportTypeOK, Replays
    <2>3. row.status = IF Exists(m) THEN report[m].status ELSE "auto_approved"
      OBVIOUS
    <2>4. CASE report' = [report EXCEPT ![m] = row]
      <3> HIDE DEF row
      <3>1. /\ report' \in [Messages -> Rows \cup {NoReport}]
            /\ report'[m] = row /\ Exists(m)'
            /\ \A n \in Messages \ {m} : report'[n] = report[n] /\ (Exists(n)' <=> Exists(n))
        BY <2>1, <2>4, RowStored
      <3>2. Filed'
        BY <2>2, <2>3, <3>1 DEF ReportInv, Filed
      <3>3. ReportTypeOK'
        BY <2>2, <3>1 DEF ReportInv, ReportTypeOK
      <3>4. QED
        BY <3>2, <3>3 DEF ReportInv
    <2>5. CASE UNCHANGED report /\ Exists(m)
      BY <2>2, <2>5 DEF ReportInv, ReportTypeOK, Filed, Exists
    <2>6. QED
      BY <1>2, <2>4, <2>5 DEF WriteParsed
  <1>3. CASE EnrichReparsed(m)
    BY <1>3 DEF ReportInv, ReportTypeOK, Filed, Exists, EnrichReparsed, Rows, Statuses, NoReport
  <1>4. QED
    BY <1>1, <1>2, <1>3 DEF ReplayStep

LEMMA ModerateInv ==
    ASSUME ReportInv, NEW m \in Messages, NEW status \in Statuses, Moderate(m, status)
    PROVE  ReportInv'
  BY DEF ReportInv, ReportTypeOK, Filed, Exists, Moderate, Rows, Statuses, NoReport

LEMMA ReportStepInv == ReportInv /\ [ReportNext]_reportVars => ReportInv'
  <1> SUFFICES ASSUME ReportInv, [ReportNext]_reportVars PROVE ReportInv'
    OBVIOUS
  <1>1. ASSUME NEW S \in SUBSET Messages, ListProcessed(S) PROVE ReportInv'
    BY <1>1 DEF ReportInv, ReportTypeOK, Filed, Exists, ListProcessed, Replays
  <1>2. CASE ReplayDies
    BY <1>2 DEF ReportInv, ReportTypeOK, Filed, Exists, ReplayDies, Replays, NoReplay
  <1>3. CASE SubmissionsLost
    BY <1>3 DEF ReportInv, ReportTypeOK, Filed, Exists, SubmissionsLost, Steps, InWork
  <1>4. CASE UNCHANGED reportVars
    BY <1>4 DEF ReportInv, ReportTypeOK, Filed, Exists, reportVars
  <1>5. QED
    BY <1>1, <1>2, <1>3, <1>4, RequestInv, ReplayInv, ModerateInv DEF ReportNext

(* No request that was told of a review is shown without it, whatever the  *)
(* backfill does meanwhile.                                                *)
THEOREM ReviewedCorrect == ReportSpec => []ReviewedFirst
  <1>1. ReportInv => ReviewedFirst
    BY DEF ReportInv, Filed, ReviewedFirst, OnTheMap, Exists
  <1>2. QED
    BY <1>1, ReportInitInv, ReportStepInv, PTL DEF ReportSpec

-----------------------------------------------------------------------------
(* Invitations. *)

\* Codes are unique, and who was told one has it.
CodesUnique ==
    /\ \A d, e \in Devices : code[d] = code[e] /\ code[d] # NoCode => d = e
    /\ \A x \in told : code[x[1]] = x[2]

Standing ==
    /\ \A d \in Devices : referral[d] # NoReferral =>
          (referral[d].status = "rejected_fraud" <=> referral[d].by = d)
    /\ \A x \in attached : referral[x[1]] = [by |-> x[2], status |-> "pending"]

\* A request about to store a referral has checked it: what it refuses is
\* somebody's own code, or will meet the referral that is there.
Checked ==
    \A k \in Calls : At(k, "save_referral") =>
        LET job == call[k]
        IN  /\ job.allowed => job.by # job.device
            /\ ~job.allowed /\ job.by # job.device => referral[job.device] # NoReferral

\* Only a request that is storing a device or a referral has no code in hand.
HasCode ==
    \A k \in Calls : call[k] # NoJob /\ call[k].step \in {"check", "save_code"}
                     => call[k].code \in Codes

ReferralInv == ReferralTypeOK /\ CodesUnique /\ Standing /\ Checked /\ HasCode

LEMMA ReferralInitInv == ReferralInit => ReferralInv
  BY ReferralAssumption
  DEF ReferralInit, ReferralInv, ReferralTypeOK, CodesUnique, Standing, Checked, HasCode, At, NoJob

\* The requests: one moves on, or ends, and the others stay.
LEMMA JobType ==
    ASSUME NEW step \in JobSteps, NEW d \in Devices, NEW c \in Codes \cup {NoCode}
    PROVE  /\ Job(step, d, c) \in Jobs
           /\ Job(step, d, c).step = step
           /\ Job(step, d, c).code = c
  BY ReferralAssumption DEF Job, Jobs

\* A request that changes no row keeps the invariant if its next job is sound.
SoundJob(job) ==
    /\ job \in Jobs
    /\ job.step \in {"check", "save_code"} => job.code \in Codes
    /\ job.step = "save_referral" =>
          /\ job.allowed => job.by # job.device
          /\ ~job.allowed /\ job.by # job.device => referral[job.device] # NoReferral

LEMMA CallsInv ==
    ASSUME ReferralInv, NEW k \in Calls, NEW job, SoundJob(job) \/ job = NoJob,
           call' = [call EXCEPT ![k] = job],
           \A d \in Devices : referral[d] # NoReferral => referral'[d] = referral[d]
    PROVE  call' \in [Calls -> Jobs \cup {NoJob}] /\ Checked' /\ HasCode'
  <1>1. call \in [Calls -> Jobs \cup {NoJob}]
    BY DEF ReferralInv, ReferralTypeOK
  <1>2. ASSUME NEW j \in Calls
        PROVE  call'[j] = IF j = k THEN job ELSE call[j]
    BY <1>1
  <1>3. ASSUME NEW j \in Calls, call'[j].step = "save_referral"
        PROVE  /\ call'[j].device \in Devices
               /\ call'[j].allowed => call'[j].by # call'[j].device
               /\ ~call'[j].allowed /\ call'[j].by # call'[j].device
                     => referral[call'[j].device] # NoReferral
    BY <1>1, <1>2, <1>3 DEF ReferralInv, Checked, SoundJob, At, NoJob, Jobs
  <1>4. Checked'
    BY <1>3 DEF Checked, At
  <1>5. HasCode'
    BY <1>2 DEF ReferralInv, HasCode, SoundJob, NoJob
  <1>6. QED
    BY <1>1, <1>4, <1>5 DEF SoundJob

LEMMA AskInv ==
    ASSUME ReferralInv, Asks, NEW k \in Calls, NEW job, SoundJob(job) \/ job = NoJob,
           call' = [call EXCEPT ![k] = job]
    PROVE  ReferralInv'
  <1>1. call' \in [Calls -> Jobs \cup {NoJob}] /\ Checked' /\ HasCode'
    <2>1. \A d \in Devices : referral[d] # NoReferral => referral'[d] = referral[d]
      BY DEF Asks
    <2>2. QED
      BY <2>1, CallsInv
  <1>2. QED
    BY <1>1 DEF ReferralInv, ReferralTypeOK, CodesUnique, Standing, Asks

LEMMA EndsInv ==
    ASSUME ReferralInv, NEW k \in Calls, Ends(k),
           \A d \in Devices : referral[d] # NoReferral => referral'[d] = referral[d]
    PROVE  call' \in [Calls -> Jobs \cup {NoJob}] /\ Checked' /\ HasCode'
  BY CallsInv DEF Ends

\* A job in hand, by its type.
LEMMA InHand ==
    ASSUME ReferralInv, NEW k \in Calls, NEW step, At(k, step), step # "none"
    PROVE  /\ call[k] \in Jobs /\ call[k] # NoJob
           /\ call[k].device \in Devices /\ call[k].by \in Devices
           /\ call[k].draws \in 0..MaxDraws /\ call[k].step = step
  BY DEF ReferralInv, ReferralTypeOK, At, Jobs, NoJob

(* Registration. *)

LEMMA BeginInv ==
    ASSUME ReferralInv, NEW k \in Calls, NEW d \in Devices, NEW c \in Codes \cup {NoCode},
           NEW step \in {"find_device", "check", "find_own"}, step = "check" => c \in Codes,
           Begin(k, Job(step, d, c))
    PROVE  ReferralInv'
  <1>1. SoundJob(Job(step, d, c))
    BY JobType DEF SoundJob, JobSteps
  <1>2. QED
    BY <1>1, AskInv DEF Begin

LEMMA RequestsInv ==
    ASSUME ReferralInv, NEW k \in Calls, Requests(k)
    PROVE  ReferralInv'
  BY BeginInv DEF Requests, Register

LEMMA FindDeviceInv ==
    ASSUME ReferralInv, NEW k \in Calls, FindDevice(k)
    PROVE  ReferralInv'
  <1> DEFINE seen == call[k].device \in users
             job  == [call[k] EXCEPT !.step = "save_device", !.seen = seen]
  <1>1. call[k] \in Jobs /\ call[k].step = "find_device"
    BY InHand DEF FindDevice
  <1>2. call' = [call EXCEPT ![k] = job]
    BY <1>1 DEF FindDevice, ReferralInv, ReferralTypeOK
  <1>3. SoundJob(job)
    <2>1. seen \in BOOLEAN
      OBVIOUS
    <2> HIDE DEF seen
    <2>2. job \in Jobs /\ job.step = "save_device"
      BY <1>1, <2>1 DEF Jobs, JobSteps
    <2>3. QED
      BY <2>2 DEF SoundJob
  <1>4. Asks
    BY DEF FindDevice
  <1> HIDE DEF job
  <1>5. QED
    BY <1>2, <1>3, <1>4, AskInv

\* Users, codes told and referrals stay: only the request moves on.
LEMMA SaveDeviceInv ==
    ASSUME ReferralInv, NEW k \in Calls, SaveDevice(k)
    PROVE  ReferralInv'
  <1> DEFINE job == IF call[k].code = NoCode \/ (~call[k].seen /\ call[k].device \in users)
                    THEN NoJob ELSE Job("check", call[k].device, call[k].code)
  <1>1. call[k] \in Jobs /\ call[k].device \in Devices
    BY InHand DEF SaveDevice
  <1>2. SoundJob(job) \/ job = NoJob
    <2>1. ASSUME call[k].code # NoCode
          PROVE  SoundJob(Job("check", call[k].device, call[k].code))
      <3>1. call[k].code \in Codes
        BY <1>1, <2>1 DEF Jobs
      <3>2. QED
        BY <1>1, <3>1, JobType DEF SoundJob, JobSteps
    <2>2. QED
      BY <2>1
  <1>3. call' = [call EXCEPT ![k] = job]
    BY DEF SaveDevice, Ends
  <1>4. /\ users' = users \cup {call[k].device}
        /\ UNCHANGED <<code, referral, told, attached>>
    BY DEF SaveDevice
  <1> HIDE DEF job
  <1>5. call' \in [Calls -> Jobs \cup {NoJob}] /\ Checked' /\ HasCode'
    BY <1>2, <1>3, <1>4, CallsInv
  <1>6. QED
    BY <1>1, <1>4, <1>5 DEF ReferralInv, ReferralTypeOK, CodesUnique, Standing

(* Invitations. *)

LEMMA CheckInv ==
    ASSUME ReferralInv, NEW k \in Calls, Check(k)
    PROVE  ReferralInv'
  <1>1. call[k].device \in Devices
    BY InHand DEF Check
  <1>2. ASSUME NEW inviter \in Owners(call[k].code)
        PROVE  SoundJob([Job("save_referral", call[k].device, NoCode) EXCEPT
                            !.by = inviter,
                            !.allowed = /\ inviter # call[k].device
                                        /\ referral[call[k].device] = NoReferral])
    <2> DEFINE base == Job("save_referral", call[k].device, NoCode)
               job  == [base EXCEPT !.by = inviter,
                                    !.allowed = /\ inviter # call[k].device
                                                /\ referral[call[k].device] = NoReferral]
    <2>1. base \in Jobs /\ base.step = "save_referral" /\ base.device = call[k].device
      BY <1>1, JobType DEF JobSteps, Job
    <2> HIDE DEF base
    <2>2. inviter \in Devices
      BY DEF Owners
    <2>3. /\ job \in Jobs /\ job.step = "save_referral"
          /\ job.device = call[k].device /\ job.by = inviter
          /\ job.allowed = (/\ inviter # call[k].device
                            /\ referral[call[k].device] = NoReferral)
      BY <2>1, <2>2 DEF Jobs
    <2> HIDE DEF job
    <2>4. SoundJob(job)
      BY <2>3 DEF SoundJob
    <2>5. QED
      BY <2>4 DEF job, base
  <1>3. QED
    BY <1>2, AskInv DEF Check, Ends

\* One referral is stored where there was none.
LEMMA ReferralStored ==
    ASSUME ReferralInv, NEW k \in Calls, At(k, "save_referral"), Ends(k),
           NEW d \in Devices, d = call[k].device, referral[d] = NoReferral,
           referral' = [referral EXCEPT ![d] = Stored(call[k])],
           attached' = attached \/ Accept(call[k]),
           UNCHANGED <<users, code, told>>
    PROVE  ReferralInv'
  <1> DEFINE row == Stored(call[k])
  <1>1. /\ call[k] \in Jobs /\ call[k].by \in Devices /\ call[k].allowed \in BOOLEAN
        /\ call[k].allowed => call[k].by # d
        /\ ~call[k].allowed => call[k].by = d
    BY InHand DEF ReferralInv, Checked, Jobs
  <1>2. /\ row \in Referred /\ row # NoReferral /\ row.by = call[k].by
        /\ row.status = "rejected_fraud" <=> row.by = d
        /\ call[k].allowed => row = [by |-> call[k].by, status |-> "pending"]
    BY <1>1 DEF Stored, Referred, NoReferral
  <1>3. referral' = [referral EXCEPT ![d] = row]
    OBVIOUS
  <1> HIDE DEF row
  <1>4. /\ referral' \in [Devices -> Referred \cup {NoReferral}]
        /\ referral'[d] = row
        /\ \A e \in Devices \ {d} : referral'[e] = referral[e]
    BY <1>2, <1>3 DEF ReferralInv, ReferralTypeOK
  <1>5. call' \in [Calls -> Jobs \cup {NoJob}] /\ Checked' /\ HasCode'
    BY <1>4, EndsInv
  <1>6. /\ attached' \subseteq Devices \X Devices
        /\ \A x \in attached' : \/ x \in attached /\ x[1] \in Devices \ {d}
                                \/ x[1] = d /\ row = [by |-> x[2], status |-> "pending"]
    <2>1. \A x \in attached : x[1] \in Devices \ {d}
      <3>1. NoReferral.status # "pending"
        BY DEF NoReferral
      <3>2. TAKE x \in attached
      <3>3. x[1] \in Devices
        BY DEF ReferralInv, ReferralTypeOK
      <3>4. referral[x[1]].status = "pending"
        <4>1. referral[x[1]] = [by |-> x[2], status |-> "pending"]
          BY DEF ReferralInv, Standing
        <4>2. QED
          BY <4>1
      <3>5. QED
        BY <3>1, <3>3, <3>4
    <2>2. attached' \subseteq attached \cup (IF call[k].allowed THEN {<<d, call[k].by>>} ELSE {})
      BY DEF Accept
    <2>3. QED
      BY <1>1, <1>2, <2>1, <2>2 DEF ReferralInv, ReferralTypeOK
  <1>7. Standing'
    BY <1>2, <1>4, <1>6 DEF ReferralInv, Standing
  <1>8. QED
    BY <1>4, <1>5, <1>6, <1>7 DEF ReferralInv, ReferralTypeOK, CodesUnique

LEMMA SaveReferralInv ==
    ASSUME ReferralInv, NEW k \in Calls, SaveReferral(k)
    PROVE  ReferralInv'
  <1>1. /\ At(k, "save_referral") /\ Ends(k) /\ call[k].device \in Devices
        /\ UNCHANGED <<users, code, told>>
    BY InHand DEF SaveReferral
  <1>2. CASE referral[call[k].device] = NoReferral
    BY <1>1, <1>2, ReferralStored DEF SaveReferral
  <1>3. CASE referral[call[k].device] # NoReferral
    <2>1. UNCHANGED <<referral, attached>>
      BY <1>3 DEF SaveReferral
    <2>2. call' \in [Calls -> Jobs \cup {NoJob}] /\ Checked' /\ HasCode'
      BY <1>1, <2>1, EndsInv
    <2>3. QED
      BY <1>1, <2>1, <2>2 DEF ReferralInv, ReferralTypeOK, CodesUnique, Standing
  <1>4. QED
    BY <1>2, <1>3

(* Codes. *)

LEMMA FindOwnInv ==
    ASSUME ReferralInv, NEW k \in Calls, FindOwn(k)
    PROVE  ReferralInv'
  <1>1. /\ call[k] \in Jobs /\ call[k].device \in Devices
        /\ UNCHANGED <<users, code, referral, attached>>
    BY InHand DEF FindOwn
  <1>2. CASE UNCHANGED told /\ Ends(k)
    BY <1>1, <1>2, AskInv DEF Asks, Ends
  <1>3. CASE code[call[k].device] # NoCode /\ Ends(k) /\ Tell(call[k].device, code[call[k].device])
    <2>1. call' \in [Calls -> Jobs \cup {NoJob}] /\ Checked' /\ HasCode'
      BY <1>1, <1>3, EndsInv
    <2>2. /\ code[call[k].device] \in Codes
          /\ told' = told \cup {<<call[k].device, code[call[k].device]>>}
      BY <1>1, <1>3 DEF Tell, ReferralInv, ReferralTypeOK
    <2>3. CodesUnique'
      BY <1>1, <2>2 DEF ReferralInv, CodesUnique
    <2>4. QED
      BY <1>1, <2>1, <2>2, <2>3 DEF ReferralInv, ReferralTypeOK, Standing
  <1>4. CASE UNCHANGED told /\ call' = [call EXCEPT ![k].step = "draw"]
    <2> DEFINE job == [call[k] EXCEPT !.step = "draw"]
    <2>1. job \in Jobs /\ job.step = "draw"
      BY <1>1 DEF Jobs, JobSteps
    <2>2. call' = [call EXCEPT ![k] = job]
      BY <1>4 DEF ReferralInv, ReferralTypeOK
    <2> HIDE DEF job
    <2>3. QED
      BY <1>1, <1>4, <2>1, <2>2, AskInv DEF Asks, SoundJob
  <1>5. QED
    BY <1>2, <1>3, <1>4 DEF FindOwn

LEMMA DrawInv ==
    ASSUME ReferralInv, NEW k \in Calls, NEW c \in Codes, Draw(k, c)
    PROVE  ReferralInv'
  <1>1. /\ call[k] \in Jobs /\ call[k].device \in Devices /\ call[k].step = "draw"
        /\ call[k].draws \in 0..MaxDraws /\ call[k].draws < MaxDraws
    BY InHand DEF Draw
  <1>2. SoundJob(Job("save_code", call[k].device, c))
    BY <1>1, JobType DEF SoundJob, JobSteps
  <1>3. SoundJob([call[k] EXCEPT !.draws = call[k].draws + 1])
    <2> DEFINE job == [call[k] EXCEPT !.draws = call[k].draws + 1]
    <2>1. call[k].draws + 1 \in 0..MaxDraws
      BY <1>1, ReferralAssumption
    <2>2. job \in Jobs /\ job.step = "draw"
      BY <1>1, <2>1 DEF Jobs
    <2>3. QED
      BY <2>2 DEF SoundJob
  <1>4. QED
    BY <1>2, <1>3, AskInv DEF Draw

\* The code of nobody becomes that of a user who has none.
LEMMA CodeStored ==
    ASSUME ReferralInv, NEW d \in Devices, NEW c \in Codes, Accepts(d, c),
           code' = [code EXCEPT ![d] = c],
           told' = told \/ Tell(d, c)
    PROVE  /\ code' \in [Devices -> Codes \cup {NoCode}]
           /\ told' \subseteq Devices \X Codes
           /\ CodesUnique'
  <1>1. /\ code' \in [Devices -> Codes \cup {NoCode}]
        /\ code'[d] = c
        /\ \A e \in Devices \ {d} : code'[e] = code[e] /\ code[e] # c
    BY DEF ReferralInv, ReferralTypeOK, Accepts, Owners
  <1>2. /\ told \subseteq Devices \X Codes
        /\ \A x \in told : x[1] \in Devices \ {d} /\ code[x[1]] = x[2]
    BY ReferralAssumption DEF ReferralInv, ReferralTypeOK, CodesUnique, Accepts
  <1>3. told' \subseteq told \cup {<<d, c>>}
    BY DEF Tell
  <1>4. \A x \in told' : code'[x[1]] = x[2]
    BY <1>1, <1>2, <1>3
  <1>5. \A e, f \in Devices : code'[e] = code'[f] /\ code'[e] # NoCode => e = f
    BY <1>1 DEF ReferralInv, CodesUnique
  <1>6. QED
    BY <1>1, <1>2, <1>3, <1>4, <1>5 DEF CodesUnique

LEMMA SaveCodeInv ==
    ASSUME ReferralInv, NEW k \in Calls, SaveCode(k)
    PROVE  ReferralInv'
  <1>1. /\ Ends(k) /\ call[k].device \in Devices /\ call[k].code \in Codes
        /\ UNCHANGED <<users, referral, attached>>
    BY InHand DEF SaveCode, ReferralInv, HasCode, At
  <1>2. call' \in [Calls -> Jobs \cup {NoJob}] /\ Checked' /\ HasCode'
    BY <1>1, EndsInv
  <1>3. /\ code' \in [Devices -> Codes \cup {NoCode}]
        /\ told' \subseteq Devices \X Codes
        /\ CodesUnique'
    <2>1. CASE Accepts(call[k].device, call[k].code)
      BY <1>1, <2>1, CodeStored DEF SaveCode
    <2>2. CASE ~Accepts(call[k].device, call[k].code)
      BY <2>2 DEF SaveCode, ReferralInv, ReferralTypeOK, CodesUnique
    <2>3. QED
      BY <2>1, <2>2
  <1>4. QED
    BY <1>1, <1>2, <1>3 DEF ReferralInv, ReferralTypeOK, Standing

(* Failures, and the whole. *)

LEMMA CallFailsInv ==
    ASSUME ReferralInv, NEW k \in Calls, CallFails(k)
    PROVE  ReferralInv'
  <1>1. /\ Ends(k) /\ call[k] \in Jobs /\ call[k].device \in Devices
        /\ users' = (IF At(k, "save_device") THEN users \cup {call[k].device} ELSE users)
        /\ UNCHANGED <<told, attached>>
    BY DEF CallFails, ReferralInv, ReferralTypeOK, Jobs
  <1>2. users' \subseteq Devices
    BY <1>1 DEF ReferralInv, ReferralTypeOK
  <1>3. ASSUME UNCHANGED referral
        PROVE  call' \in [Calls -> Jobs \cup {NoJob}] /\ Checked' /\ HasCode'
    BY <1>1, <1>3, EndsInv
  <1>4. CASE UNCHANGED <<code, referral>>
    BY <1>1, <1>2, <1>3, <1>4 DEF ReferralInv, ReferralTypeOK, CodesUnique, Standing
  <1>5. CASE /\ At(k, "save_code") /\ Accepts(call[k].device, call[k].code)
             /\ code' = [code EXCEPT ![call[k].device] = call[k].code]
             /\ UNCHANGED referral
    <2>1. call[k].code \in Codes
      BY <1>5, InHand DEF ReferralInv, HasCode, At
    <2>2. /\ code' \in [Devices -> Codes \cup {NoCode}]
          /\ told' \subseteq Devices \X Codes
          /\ CodesUnique'
      BY <1>1, <1>5, <2>1, CodeStored
    <2>3. QED
      BY <1>1, <1>2, <1>3, <1>5, <2>2 DEF ReferralInv, ReferralTypeOK, Standing
  <1>6. CASE /\ At(k, "save_referral") /\ referral[call[k].device] = NoReferral
             /\ referral' = [referral EXCEPT ![call[k].device] = Stored(call[k])]
             /\ UNCHANGED code
    <2>1. UNCHANGED users
      BY <1>1, <1>6 DEF At
    <2>2. QED
      BY <1>1, <1>6, <2>1, ReferralStored
  <1>7. QED
    BY <1>4, <1>5, <1>6 DEF CallFails

LEMMA ReferralStepInv == ReferralInv /\ [ReferralNext]_referralVars => ReferralInv'
  <1> SUFFICES ASSUME ReferralInv, [ReferralNext]_referralVars PROVE ReferralInv'
    OBVIOUS
  <1>1. ASSUME NEW k \in Calls, GiveUpDrawing(k) PROVE ReferralInv'
    BY <1>1, AskInv DEF GiveUpDrawing, Ends
  <1>2. ASSUME NEW k \in Calls, JobStep(k) PROVE ReferralInv'
    BY <1>1, <1>2, FindDeviceInv, SaveDeviceInv, CheckInv, SaveReferralInv, FindOwnInv,
       DrawInv, SaveCodeInv DEF JobStep
  <1>3. CASE CallsLost
    BY <1>3 DEF CallsLost, Asks, ReferralInv, ReferralTypeOK, CodesUnique, Standing, Checked,
                HasCode, At, NoJob
  <1>4. CASE UNCHANGED referralVars
    BY <1>4 DEF referralVars, ReferralInv, ReferralTypeOK, CodesUnique, Standing, Checked,
                HasCode, At
  <1>5. QED
    BY <1>2, <1>3, <1>4, CallFailsInv, RequestsInv DEF ReferralNext

LEMMA ReferralInvariant == ReferralSpec => []ReferralInv
  BY ReferralInitInv, ReferralStepInv, PTL DEF ReferralSpec

(* Whoever enters a code that a user was given is invited by that user.    *)
THEOREM ToldCorrect == ReferralSpec => []ToldCodesWork
  <1>1. ReferralInv => ToldCodesWork
    BY ReferralAssumption
    DEF ReferralInv, ReferralTypeOK, CodesUnique, ToldCodesWork, Owners
  <1>2. QED
    BY <1>1, ReferralInvariant, PTL

(* An accepted invitation stands, and nobody invites himself.              *)
THEOREM InvitationsCorrect == ReferralSpec => []InvitationsStand
  <1>1. ReferralInv => InvitationsStand
    BY DEF ReferralInv, Standing, InvitationsStand
  <1>2. QED
    BY <1>1, ReferralInvariant, PTL

-----------------------------------------------------------------------------
(* The composition: what it does is, for each part, a step of that part or *)
(* none, so what is proved of the parts holds of the api.                  *)

LEMMA LimitPart == Spec => LimitSpec
  <1>1. Init => LimitInit
    BY DEF Init
  <1>2. [Next]_vars => [LimitNext]_limitVars
    <2> SUFFICES ASSUME [Next]_vars PROVE [LimitNext]_limitVars
      OBVIOUS
    <2>1. "map" \in Guards /\ "submission" \in Guards
      BY ApiAssumption
    <2>2. ASSUME NEW c \in Clients, NEW g \in Guards, Admit(g, c) \/ Refuse(g, c)
          PROVE  LimitNext
      BY <2>2 DEF LimitNext
    <2>3. ASSUME Tick \/ Restart PROVE LimitNext
      BY <2>3 DEF LimitNext
    <2>4. CASE UNCHANGED limitVars
      BY <2>4
    <2>5. QED
      BY <2>1, <2>2, <2>3, <2>4
      DEF Next, vars, CreatePublicReport, RegisterMobileDevice, OtherMapRequest, TooMany,
          MobileRequest, Replay, Review, ReportStep, MobileStep, Time, ReportFails,
          MobileFails, Crash
  <1>3. QED
    BY <1>1, <1>2, PTL DEF Spec, LimitSpec

LEMMA ReportPart == Spec => ReportSpec
  <1>1. Init => ReportInit
    BY DEF Init
  <1>2. [Next]_vars => [ReportNext]_reportVars
    BY DEF Next, vars, ReportNext, CreatePublicReport, RegisterMobileDevice, OtherMapRequest,
           TooMany, MobileRequest, Replay, Review, ReportStep, MobileStep, Time, ReportFails,
           MobileFails, Crash
  <1>3. QED
    BY <1>1, <1>2, PTL DEF Spec, ReportSpec

LEMMA ReferralPart == Spec => ReferralSpec
  <1>1. Init => ReferralInit
    BY DEF Init
  <1>2. [Next]_vars => [ReferralNext]_referralVars
    BY DEF Next, vars, ReferralNext, Requests, CreatePublicReport, RegisterMobileDevice,
           OtherMapRequest, TooMany, MobileRequest, Replay, Review, ReportStep, MobileStep,
           Time, ReportFails, MobileFails, Crash
  <1>3. QED
    BY <1>1, <1>2, PTL DEF Spec, ReferralSpec

(* The types of all parts, and the bounds of the composition.              *)
THEOREM TypeCorrect == Spec => []TypeOK
  <1> DEFINE Bounds == requests \in 0..MaxRequests /\ faults \in 0..MaxFaults
  <1>1. Init => Bounds
    BY ApiAssumption DEF Init
  <1>2. Bounds /\ [Next]_vars => Bounds'
    BY ApiAssumption
    DEF Next, vars, Request, Fault, CreatePublicReport, RegisterMobileDevice, OtherMapRequest,
        TooMany, MobileRequest, Replay, Review, ReportStep, MobileStep, Time, ReportFails,
        MobileFails, Crash
  <1>3. LimitTypeOK /\ ReportInv /\ ReferralInv /\ Bounds => TypeOK
    BY DEF ReportInv, ReferralInv, TypeOK
  <1>4. ReportSpec => []ReportInv
    BY ReportInitInv, ReportStepInv, PTL DEF ReportSpec
  <1> HIDE DEF Bounds
  <1>5. QED
    BY <1>1, <1>2, <1>3, <1>4, LimitPart, ReportPart, ReferralPart, LimitTypeCorrect,
       ReferralInvariant, PTL DEF Spec

(* All that the parts keep, the api keeps.                                 *)
THEOREM ApiCorrect ==
    Spec => /\ [](WindowKept /\ TableBounded) /\ PromiseKept
            /\ [](ReviewedFirst /\ ToldCodesWork /\ InvitationsStand)
  BY LimitPart, ReportPart, ReferralPart, WindowCorrect, TableCorrect, ImplementsPromise,
     ReviewedCorrect, ToldCorrect, InvitationsCorrect, PTL
=============================================================================
