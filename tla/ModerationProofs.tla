-------------------------- MODULE ModerationProofs --------------------------
(***************************************************************************)
(* Theorems about Moderation for any set of reports, of concurrent         *)
(* requests and of voters, and any number of requests and of faults.       *)
(***************************************************************************)
EXTENDS Moderation, FiniteSetTheorems, TLAPS

(* Types.  The bound of TypeOK on the votes of a report is not one of them:*)
(* it rests on VotesCounted.                                               *)
TypeInv ==
    /\ row    \in [Reports -> Rows]
    /\ votes  \subseteq Votes
    /\ job    \in [Admins -> Jobs \cup {Idle}]
    /\ ballot \in [Calls -> Ballots \cup {NoBallot}]
    /\ banned \subseteq Reports
    /\ unlogged \in [Reports -> Int]
    /\ owed   \subseteq Reports
    /\ requests \in 0..MaxRequests
    /\ faults \in 0..MaxFaults

\* What keeps a rejected report off the map: its hidden_at.
BannedHidden == \A r \in banned : row[r].hidden

LEMMA InitInv == Init => TypeInv /\ BannedHidden
  BY ModerationAssumption DEF ModerationAssumption, Init, TypeInv, BannedHidden, Rows, Statuses

LEMMA Stored1 ==
    ASSUME TypeInv, NEW r \in Reports, NEW new \in Rows, Store(r, new)
    PROVE  /\ row' \in [Reports -> Rows]
           /\ row'[r] = new
           /\ \A s \in Reports \ {r} : row'[s] = row[s]
  BY DEF TypeInv, Store

\* A request that has something to do is of a report, for a known reason.
LEMMA JobOf ==
    ASSUME TypeInv, NEW a \in Admins, ~Free(a)
    PROVE  job[a] \in Jobs /\ job[a].id \in Reports /\ job[a].act \in Acts
  BY DEF TypeInv, Free, Jobs, Acts

LEMMA BallotOf ==
    ASSUME TypeInv, NEW c \in Calls, ballot[c].step \in {"insert", "count", "publish"}
    PROVE  /\ ballot[c] \in Ballots /\ ballot[c].id \in Reports
           /\ ballot[c].step # "publish" => ballot[c].way \in Ways
  BY DEF TypeInv, Ballots, NoBallot

\* What a statement leaves alone: the counters, and mostly hidden_at.
SameCounters(r, new)  == new \in Rows /\ new.up = row[r].up /\ new.down = row[r].down
SameMark(r, new) == SameCounters(r, new) /\ new.hidden = row[r].hidden
NobodyCounts ==
    \A r \in Reports : row'[r].up = row[r].up /\ row'[r].down = row[r].down

\* A row that keeps hidden_at, or one of a report that is not banned.
LEMMA KeepsHidden ==
    ASSUME TypeInv, BannedHidden, NEW r \in Reports, NEW new \in Rows, Store(r, new),
           banned' \subseteq banned \cup {r},
           r \in banned' => new.hidden
    PROVE  row' \in [Reports -> Rows] /\ BannedHidden'
<1>1. /\ row' \in [Reports -> Rows]
      /\ row'[r] = new
      /\ \A s \in Reports \ {r} : row'[s] = row[s]
  BY Stored1
<1>2. BannedHidden'
  BY <1>1 DEF BannedHidden, TypeInv
<1> QED BY <1>1, <1>2

LEMMA RowStep ==
    ASSUME TypeInv, BannedHidden, [Next]_vars
    PROVE  /\ row' \in [Reports -> Rows] /\ banned' \subseteq Reports /\ BannedHidden'
           /\ NobodyCounts \/ \E c \in Calls : CountVote(c)
<1> DEFINE Goal == /\ row' \in [Reports -> Rows] /\ banned' \subseteq Reports /\ BannedHidden'
                   /\ NobodyCounts \/ \E c \in Calls : CountVote(c)
<1>k. ASSUME NEW r \in Reports, NEW new, SameCounters(r, new), Store(r, new),
             banned' \subseteq banned \cup {r}, r \in banned' => new.hidden
      PROVE  Goal
  <2>1. row' \in [Reports -> Rows] /\ BannedHidden'
    BY <1>k, KeepsHidden DEF SameCounters
  <2>2. NobodyCounts
    BY <1>k, Stored1 DEF SameCounters, NobodyCounts
  <2> QED BY <2>1, <2>2, <1>k DEF TypeInv
<1>u. ASSUME row' = row, banned' = banned PROVE Goal
  BY <1>u DEF TypeInv, BannedHidden, NobodyCounts
<1>h. ASSUME NEW r \in Reports, NEW new, SameMark(r, new)
      PROVE  SameCounters(r, new) /\ (r \in banned => new.hidden)
  BY <1>h DEF SameMark, BannedHidden
<1>r. \A r \in Reports : row[r] \in Rows
  BY DEF TypeInv
<1> HIDE DEF Goal
<1>1. ASSUME NEW r \in Reports, ParseNew(r) PROVE Goal
  <2> DEFINE new == [row[r] EXCEPT !.exists = TRUE]
  <2>1. SameMark(r, new) BY <1>r DEF Rows, SameMark, SameCounters
  <2>2. Store(r, new) /\ banned' = banned BY <1>1 DEF ParseNew
  <2> HIDE DEF new
  <2> QED BY <2>1, <2>2, <1>k, <1>h
<1>2. ASSUME NEW r \in Reports, Submit(r) PROVE Goal
  <2> DEFINE new == [row[r] EXCEPT !.exists = TRUE, !.shown = TRUE, !.status = "pending_review"]
  <2>1. SameMark(r, new) BY <1>r DEF Rows, SameMark, SameCounters, Statuses
  <2>2. Store(r, new) /\ banned' = banned BY <1>2 DEF Submit
  <2> HIDE DEF new
  <2> QED BY <2>1, <2>2, <1>k, <1>h
<1>3. ASSUME NEW r \in Reports, Reparse(r) PROVE Goal
  <2> DEFINE new == [row[r] EXCEPT !.shown = FALSE]
  <2>1. SameMark(r, new) BY <1>r DEF Rows, SameMark, SameCounters
  <2>2. Store(r, new) /\ banned' = banned BY <1>3 DEF Reparse
  <2> HIDE DEF new
  <2> QED BY <2>1, <2>2, <1>k, <1>h
<1>4. ASSUME NEW r \in Reports, Enrich(r) PROVE Goal
  <2> DEFINE new == [row[r] EXCEPT !.shown = TRUE]
  <2>1. SameMark(r, new) BY <1>r DEF Rows, SameMark, SameCounters
  <2>2. Store(r, new) /\ banned' = banned BY <1>4 DEF Enrich
  <2> HIDE DEF new
  <2> QED BY <2>1, <2>2, <1>k, <1>h
<1>5. ASSUME NEW r \in Reports, Expire(r) PROVE Goal
  <2> DEFINE new == [row[r] EXCEPT !.expired = TRUE]
  <2>1. SameMark(r, new) BY <1>r DEF Rows, SameMark, SameCounters
  <2>2. Store(r, new) /\ banned' = banned BY <1>5 DEF Expire
  <2> HIDE DEF new
  <2> QED BY <2>1, <2>2, <1>k, <1>h
<1>6. ASSUME NEW a \in Admins, NEW r \in Reports, Approve(a, r) PROVE Goal
  <2> DEFINE new == [row[r] EXCEPT !.status = "approved"]
  <2>1. SameCounters(r, new) BY <1>r DEF Rows, SameCounters, Statuses
  <2>2. Store(r, new) /\ banned' = banned \ {r} BY <1>6 DEF Approve
  <2> HIDE DEF new
  <2> QED BY <2>1, <2>2, <1>k
<1>7. ASSUME NEW a \in Admins, NEW r \in Reports, Reject(a, r) PROVE Goal
  <2> DEFINE new == [row[r] EXCEPT !.status = "rejected", !.hidden = TRUE]
  <2>1. SameCounters(r, new) /\ new.hidden BY <1>r DEF Rows, SameCounters, Statuses
  <2>2. Store(r, new) /\ banned' = banned \cup {r} BY <1>7 DEF Reject, TakeOff
  <2> HIDE DEF new
  <2> QED BY <2>1, <2>2, <1>k
<1>8. ASSUME NEW a \in Admins, NEW r \in Reports, Restore(a, r) PROVE Goal
  <2> DEFINE new == [row[r] EXCEPT !.status = "pending_review", !.hidden = FALSE]
  <2>1. SameCounters(r, new) BY <1>r DEF Rows, SameCounters, Statuses
  <2>2. Store(r, new) /\ banned' = banned \ {r} BY <1>8 DEF Restore
  <2> HIDE DEF new
  <2> QED BY <2>1, <2>2, <1>k
<1>9. ASSUME NEW a \in Admins, NEW r \in Reports, ReEnrich(a, r) PROVE Goal
  <2> DEFINE new == [row[r] EXCEPT !.shown = FALSE]
  <2>1. SameMark(r, new) BY <1>r DEF Rows, SameMark, SameCounters
  <2>2. Store(r, new) /\ banned' = banned BY <1>9 DEF ReEnrich, TakeOff
  <2> HIDE DEF new
  <2> QED BY <2>1, <2>2, <1>k, <1>h
<1>10. ASSUME NEW S \in SUBSET Reports, ReEnrichBatch(S) PROVE Goal
  <2> DEFINE new(r) == [row[r] EXCEPT !.shown = FALSE]
  <2>1. \A r \in Reports : SameMark(r, new(r))
    BY <1>r DEF Rows, SameMark, SameCounters
  <2>2. row' = [r \in Reports |-> IF r \in S THEN new(r) ELSE row[r]] /\ banned' = banned
    BY <1>10 DEF ReEnrichBatch
  <2> HIDE DEF new
  <2>3. /\ row' \in [Reports -> Rows]
        /\ \A r \in Reports : row'[r].hidden = row[r].hidden
        /\ NobodyCounts
    BY <2>1, <2>2 DEF TypeInv, SameMark, SameCounters, NobodyCounts
  <2> QED BY <2>2, <2>3 DEF Goal, BannedHidden, TypeInv
<1>11. ASSUME NEW a \in Admins, WriteUpdate(a) PROVE Goal
  <2> DEFINE r == job[a].id
  <2>1. r \in Reports BY <1>11, JobOf DEF WriteUpdate, Due
  <2>2. PICK located \in BOOLEAN, expired \in BOOLEAN :
           Store(r, [row[r] EXCEPT !.expired = expired,
                                   !.status  = IF located THEN "approved" ELSE row[r].status])
    BY <1>11 DEF WriteUpdate
  <2> DEFINE status == IF located THEN "approved" ELSE row[r].status
             new    == [row[r] EXCEPT !.expired = expired, !.status = status]
  <2>3. status \in Statuses BY <2>1 DEF TypeInv, Rows, Statuses
  <2>4. Store(r, new) /\ banned' = banned BY <1>11, <2>2 DEF WriteUpdate
  <2> HIDE DEF status, r
  <2>5. row[r] \in Rows BY <1>r, <2>1
  <2>6. SameMark(r, new) BY <2>3, <2>5 DEF Rows, SameMark, SameCounters
  <2> HIDE DEF new
  <2> QED BY <2>1, <2>4, <2>6, <1>k, <1>h
<1>12. ASSUME NEW a \in Admins, WriteConfirmed(a) PROVE Goal
  <2> DEFINE r == job[a].id
  <2>1. r \in Reports BY <1>12, JobOf DEF WriteConfirmed, Due
  <2> DEFINE new == [row[r] EXCEPT !.status = "approved"]
  <2>2. SameMark(r, new) BY <1>r, <2>1 DEF Rows, SameMark, SameCounters, Statuses
  <2>3. Store(r, new) /\ banned' = banned BY <1>12 DEF WriteConfirmed
  <2> HIDE DEF new, r
  <2> QED BY <2>1, <2>2, <2>3, <1>k, <1>h
<1>13. ASSUME NEW c \in Calls, CountVote(c) PROVE Goal
  <2> DEFINE r   == ballot[c].id
             new == IF ballot[c].way = "up" THEN [row[r] EXCEPT !.up   = row[r].up + 1]
                                            ELSE [row[r] EXCEPT !.down = row[r].down + 1]
  <2>1. r \in Reports BY <1>13, BallotOf DEF CountVote
  <2>2. new \in Rows /\ new.hidden = row[r].hidden BY <1>r, <2>1 DEF Rows
  <2>3. Store(r, new) /\ banned' = banned BY <1>13 DEF CountVote, TakeOff
  <2> HIDE DEF new, r
  <2>4. row' \in [Reports -> Rows] /\ BannedHidden'
    BY <2>1, <2>2, <2>3, KeepsHidden DEF BannedHidden
  <2> QED BY <2>3, <2>4, <1>13 DEF Goal, TypeInv
<1>14. ASSUME UNCHANGED <<row, banned>> PROVE Goal
  BY <1>14, <1>u
<1>16. ASSUME NEW a \in Admins, NEW r \in Reports, NEW act \in Acts, ReadFirst(a, r, act)
       PROVE  Goal
  BY <1>16, <1>14 DEF ReadFirst
<1>17. ASSUME NEW a \in Admins, PublishChange(a) \/ LogChange(a) \/ RequestBreaks(a)
       PROVE  Goal
  BY <1>17, <1>14 DEF PublishChange, LogChange, RequestBreaks
<1>18. ASSUME NEW c \in Calls, StoreVote(c) \/ PublishVote(c) \/ CallBreaks(c)
       PROVE  Goal
  BY <1>18, <1>14 DEF StoreVote, PublishVote, CallBreaks
<1>19. ASSUME NEW c \in Calls, NEW r \in Reports, NEW way \in Ways, CheckReport(c, r, way)
       PROVE  Goal
  BY <1>19, <1>14 DEF CheckReport
<1>20. ASSUME UNCHANGED vars PROVE Goal
  BY <1>20, <1>14 DEF vars
<1>21. Goal
  BY <1>1, <1>2, <1>3, <1>4, <1>5, <1>6, <1>7, <1>8, <1>9, <1>10, <1>11, <1>12, <1>13, <1>14,
      <1>16, <1>17, <1>18, <1>19, <1>20 DEF Next
<1> QED BY <1>21 DEF Goal

(* The activity log.                                                       *)
LEMMA LogCardinality ==
    ASSUME NEW r \in Reports
    PROVE  IsFiniteSet(ToLog(r)) /\ Cardinality(ToLog(r)) \in Nat
<1>1. ToLog(r) \subseteq Admins BY DEF ToLog
<1>2. IsFiniteSet(Admins) BY ModerationAssumption DEF ModerationAssumption
<1> QED BY <1>1, <1>2, FS_Subset, FS_CardinalityType

Logging(j) == j # Idle /\ j.todo \in {<<"publish", "log">>, <<"log", "publish">>, <<"log">>}

LEMMA ToLogStep ==
    ASSUME TypeInv, NEW a \in Admins, NEW j \in Jobs \cup {Idle}, job' = [job EXCEPT ![a] = j],
           NEW r \in Reports
    PROVE  /\ job' \in [Admins -> Jobs \cup {Idle}]
           /\ ToLog(r)' = IF Logging(j) /\ j.id = r THEN ToLog(r) \cup {a} ELSE ToLog(r) \ {a}
           /\ a \in ToLog(r) <=> Logging(job[a]) /\ job[a].id = r
  BY DEF TypeInv, ToLog, Logging, Free

\* A request that has changed a report and is going to log it.
LEMMA LogsLater ==
    ASSUME TypeInv, LogTellsTruth, NEW a \in Admins, NEW j \in Jobs, job' = [job EXCEPT ![a] = j],
           ~Logging(job[a]), Logging(j), Changed(j.id), faults' = faults
    PROVE  job' \in [Admins -> Jobs \cup {Idle}] /\ unlogged' \in [Reports -> Int] /\ LogTellsTruth'
<1>1. j.id \in Reports BY DEF Jobs
<1>2. /\ unlogged' \in [Reports -> Int]
      /\ \A r \in Reports : unlogged'[r] = IF r = j.id THEN unlogged[r] + 1 ELSE unlogged[r]
  BY <1>1 DEF TypeInv, Changed
<1>3. ASSUME NEW r \in Reports
      PROVE  Cardinality(ToLog(r)') = IF r = j.id THEN Cardinality(ToLog(r)) + 1
                                                  ELSE Cardinality(ToLog(r))
  <2>1. a \notin ToLog(r) /\ ToLog(r)' = IF r = j.id THEN ToLog(r) \cup {a} ELSE ToLog(r) \ {a}
    <3>1. j \in Jobs \cup {Idle} OBVIOUS
    <3>2. /\ ToLog(r)' = IF Logging(j) /\ j.id = r THEN ToLog(r) \cup {a} ELSE ToLog(r) \ {a}
          /\ a \in ToLog(r) <=> Logging(job[a]) /\ job[a].id = r
      BY <3>1, ToLogStep
    <3> QED BY <3>2
  <2>2. IsFiniteSet(ToLog(r)) BY LogCardinality
  <2>3. ToLog(r) \ {a} = ToLog(r) BY <2>1
  <2> QED BY <2>1, <2>2, <2>3, FS_AddElement
<1>4. LogTellsTruth'
  <2> SUFFICES ASSUME NEW r \in Reports
               PROVE  /\ unlogged'[r] >= Cardinality(ToLog(r)')
                      /\ Quiet' => unlogged'[r] = Cardinality(ToLog(r)')
    BY DEF LogTellsTruth
  <2>1. Cardinality(ToLog(r)) \in Nat /\ unlogged[r] \in Int BY LogCardinality DEF TypeInv
  <2>2. unlogged[r] >= Cardinality(ToLog(r)) /\ (Quiet' => unlogged[r] = Cardinality(ToLog(r)))
    BY DEF LogTellsTruth, Quiet
  <2> QED BY <1>2, <1>3, <2>1, <2>2
<1> QED BY <1>2, <1>4, ToLogStep, <1>1

\* A request that has just logged.
LEMMA LogsNow ==
    ASSUME TypeInv, LogTellsTruth, NEW a \in Admins, NEW j \in Jobs \cup {Idle},
           job' = [job EXCEPT ![a] = j],
           Logging(job[a]), ~Logging(j), faults' = faults,
           unlogged' = [unlogged EXCEPT ![job[a].id] = @ - 1]
    PROVE  job' \in [Admins -> Jobs \cup {Idle}] /\ unlogged' \in [Reports -> Int] /\ LogTellsTruth'
<1>1. job[a].id \in Reports BY JobOf DEF Logging, Free
<1>2. /\ unlogged' \in [Reports -> Int]
      /\ \A r \in Reports : unlogged'[r] = IF r = job[a].id THEN unlogged[r] - 1 ELSE unlogged[r]
  BY <1>1 DEF TypeInv
<1>3. ASSUME NEW r \in Reports
      PROVE  Cardinality(ToLog(r)') = IF r = job[a].id THEN Cardinality(ToLog(r)) - 1
                                                       ELSE Cardinality(ToLog(r))
  <2>1. (a \in ToLog(r) <=> r = job[a].id) /\ ToLog(r)' = ToLog(r) \ {a}
    BY ToLogStep
  <2>2. IsFiniteSet(ToLog(r)) BY LogCardinality
  <2> QED BY <2>1, <2>2, FS_RemoveElement
<1>4. LogTellsTruth'
  <2> SUFFICES ASSUME NEW r \in Reports
               PROVE  /\ unlogged'[r] >= Cardinality(ToLog(r)')
                      /\ Quiet' => unlogged'[r] = Cardinality(ToLog(r)')
    BY DEF LogTellsTruth
  <2>1. Cardinality(ToLog(r)) \in Nat /\ unlogged[r] \in Int BY LogCardinality DEF TypeInv
  <2>2. unlogged[r] >= Cardinality(ToLog(r)) /\ (Quiet' => unlogged[r] = Cardinality(ToLog(r)))
    BY DEF LogTellsTruth, Quiet
  <2> QED BY <1>2, <1>3, <2>1, <2>2
<1> QED BY <1>2, <1>4, ToLogStep, <1>1

\* A request that logs as much as before, or breaks off.
LEMMA LogsAsBefore ==
    ASSUME TypeInv, LogTellsTruth, NEW a \in Admins, NEW j \in Jobs \cup {Idle},
           job' = [job EXCEPT ![a] = j], unlogged' = unlogged,
           \/ /\ faults' = faults
              /\ Logging(j) <=> Logging(job[a])
              /\ Logging(j) => j.id = job[a].id
           \/ ~Quiet' /\ j = Idle
    PROVE  job' \in [Admins -> Jobs \cup {Idle}] /\ unlogged' \in [Reports -> Int] /\ LogTellsTruth'
<1>1. ASSUME NEW r \in Reports
      PROVE  /\ unlogged'[r] >= Cardinality(ToLog(r)')
             /\ Quiet' => unlogged'[r] = Cardinality(ToLog(r)')
  <2>1. IsFiniteSet(ToLog(r)) /\ Cardinality(ToLog(r)) \in Nat /\ unlogged[r] \in Int
    BY LogCardinality DEF TypeInv
  <2>2. unlogged[r] >= Cardinality(ToLog(r)) /\ (Quiet => unlogged[r] = Cardinality(ToLog(r)))
    BY DEF LogTellsTruth
  <2>3. CASE faults' = faults /\ (Logging(j) <=> Logging(job[a])) /\ (Logging(j) => j.id = job[a].id)
    <3>0. a \in ToLog(r) <=> Logging(j) /\ j.id = r
      BY <2>3, ToLogStep
    <3>1. ToLog(r)' = IF a \in ToLog(r) THEN ToLog(r) \cup {a} ELSE ToLog(r) \ {a}
      BY <3>0, ToLogStep
    <3>2. ToLog(r)' = ToLog(r) BY <3>1
    <3> QED BY <2>2, <2>3, <3>2 DEF Quiet
  <2>4. CASE ~Quiet' /\ j = Idle
    <3>1. ToLog(r)' = ToLog(r) \ {a} BY <2>4, ToLogStep DEF Logging
    <3>2. Cardinality(ToLog(r)') <= Cardinality(ToLog(r)) /\ Cardinality(ToLog(r)') \in Int
      <4>1. Cardinality(ToLog(r) \ {a}) =
                IF a \in ToLog(r) THEN Cardinality(ToLog(r)) - 1 ELSE Cardinality(ToLog(r))
        BY <2>1, FS_RemoveElement
      <4> QED BY <2>1, <3>1, <4>1
    <3> QED BY <2>1, <2>2, <2>4, <3>2
  <2> QED BY <2>3, <2>4
<1>2. job' \in [Admins -> Jobs \cup {Idle}] /\ unlogged' \in [Reports -> Int]
  BY DEF TypeInv
<1> QED BY <1>1, <1>2 DEF LogTellsTruth

LEMMA JobStep ==
    ASSUME TypeInv, LogTellsTruth, [Next]_vars
    PROVE  job' \in [Admins -> Jobs \cup {Idle}] /\ unlogged' \in [Reports -> Int] /\ LogTellsTruth'
<1> DEFINE Goal == job' \in [Admins -> Jobs \cup {Idle}] /\ unlogged' \in [Reports -> Int] /\ LogTellsTruth'
<1>u. ASSUME UNCHANGED <<job, unlogged, faults>> PROVE Goal
  BY <1>u DEF TypeInv, LogTellsTruth, ToLog, Free, Quiet
<1>l. ASSUME NEW a \in Admins, NEW j \in Jobs, job' = [job EXCEPT ![a] = j],
             ~Logging(job[a]), Logging(j), Changed(j.id), faults' = faults
      PROVE  Goal
  BY <1>l, LogsLater
<1>n. ASSUME NEW a \in Admins, NEW j \in Jobs \cup {Idle}, job' = [job EXCEPT ![a] = j],
             Logging(job[a]), ~Logging(j), faults' = faults,
             unlogged' = [unlogged EXCEPT ![job[a].id] = @ - 1]
      PROVE  Goal
  BY <1>n, LogsNow
<1>s. ASSUME NEW a \in Admins, NEW j \in Jobs \cup {Idle}, job' = [job EXCEPT ![a] = j],
             unlogged' = unlogged,
             \/ /\ faults' = faults
                /\ Logging(j) <=> Logging(job[a])
                /\ Logging(j) => j.id = job[a].id
             \/ ~Quiet' /\ j = Idle
      PROVE  Goal
  BY <1>s, LogsAsBefore
<1> HIDE DEF Goal
<1>b. ASSUME NEW a \in Admins, NEW r \in Reports, NEW act \in Acts, NEW todo \in Todos,
             Begin(a, act, r, todo)
      PROVE  \E j \in Jobs : job' = [job EXCEPT ![a] = j] /\ j.id = r /\ j.todo = todo /\ j # Idle
  <2> DEFINE j == [act |-> act, id |-> r, todo |-> todo]
  <2>1. j \in Jobs /\ j.id = r /\ j.todo = todo /\ j # Idle BY DEF Jobs, Idle
  <2>2. job' = [job EXCEPT ![a] = j] BY <1>b DEF Begin
  <2> HIDE DEF j
  <2> QED BY <2>1, <2>2
<1>1. ASSUME NEW a \in Admins, NEW r \in Reports,
             Approve(a, r) \/ Reject(a, r) \/ Restore(a, r) \/ ReEnrich(a, r)
      PROVE  Goal
  <2>1. PICK j \in Jobs : job' = [job EXCEPT ![a] = j] /\ j.id = r /\ Logging(j)
    <3>1. \E act \in Acts, todo \in {<<"publish", "log">>, <<"log", "publish">>} :
             Begin(a, act, r, todo)
      BY <1>1 DEF Approve, Reject, Restore, ReEnrich, Acts
    <3> QED BY <3>1, <1>b DEF Todos, Logging
  <2>2. ~Logging(job[a]) /\ Changed(r) /\ faults' = faults
    BY <1>1 DEF Approve, Reject, Restore, ReEnrich, Free, Logging
  <2> QED BY <2>1, <2>2, <1>l
<1>2. ASSUME NEW a \in Admins, NEW r \in Reports, NEW act \in Acts, ReadFirst(a, r, act) PROVE Goal
  <2>1. PICK j \in Jobs : job' = [job EXCEPT ![a] = j] /\ ~Logging(j)
    <3>1. Begin(a, act, r, <<"write", "publish", "log">>) BY <1>2 DEF ReadFirst
    <3> QED BY <3>1, <1>b DEF Todos, Logging
  <2>2. ~Logging(job[a]) /\ unlogged' = unlogged /\ faults' = faults
    BY <1>2 DEF ReadFirst, Free, Logging
  <2> QED BY <2>1, <2>2, <1>s
<1>3. ASSUME NEW a \in Admins, WriteUpdate(a) \/ WriteConfirmed(a) PROVE Goal
  <2>1. Due(a, "write") /\ Changed(job[a].id) /\ faults' = faults
        /\ Begin(a, job[a].act, job[a].id, Tail(job[a].todo))
    BY <1>3 DEF WriteUpdate, WriteConfirmed
  <2>2. job[a] \in Jobs /\ job[a].id \in Reports /\ job[a].act \in Acts
    BY <2>1, JobOf DEF Due
  <2>3. job[a].todo = <<"write", "publish", "log">>
    BY <2>1, <2>2 DEF Due, Jobs, Todos
  <2>4. Tail(job[a].todo) = <<"publish", "log">> BY <2>3
  <2> DEFINE j == [act |-> job[a].act, id |-> job[a].id, todo |-> <<"publish", "log">>]
  <2>5. j \in Jobs /\ j.id = job[a].id /\ Logging(j) BY <2>2 DEF Jobs, Todos, Logging, Idle
  <2>6. job' = [job EXCEPT ![a] = j] BY <2>1, <2>4 DEF Begin
  <2>7. ~Logging(job[a]) BY <2>3 DEF Logging
  <2> HIDE DEF j
  <2> QED BY <2>1, <2>5, <2>6, <2>7, <1>l
<1>4. ASSUME NEW a \in Admins, ~Free(a), Advance(a)
      PROVE  \E j \in Jobs \cup {Idle} :
                /\ job' = [job EXCEPT ![a] = j]
                /\ Logging(j) => j.id = job[a].id
                /\ Due(a, "publish") => (Logging(j) <=> Logging(job[a]))
                /\ Due(a, "log") => Logging(job[a]) /\ ~Logging(j)
  <2>1. job[a] \in Jobs /\ job[a].id \in Reports /\ job[a].act \in Acts BY <1>4, JobOf
  <2>2. CASE job[a].todo \in {<<"publish">>, <<"log">>}
    <3>1. job' = [job EXCEPT ![a] = Idle] BY <1>4, <2>2 DEF Advance
    <3>2. ~Logging(Idle) BY DEF Logging
    <3>3. Due(a, "publish") => ~Logging(job[a]) BY <2>2 DEF Due, Logging
    <3>4. Due(a, "log") => Logging(job[a]) BY <2>2, <1>4 DEF Due, Logging, Free
    <3> QED BY <3>1, <3>2, <3>3, <3>4
  <2>3. ASSUME NEW x \in Todos, NEW y \in Todos, job[a].todo = x, Len(x) # 1, Tail(x) = y
        PROVE  /\ job' = [job EXCEPT ![a] = [act |-> job[a].act, id |-> job[a].id, todo |-> y]]
               /\ [act |-> job[a].act, id |-> job[a].id, todo |-> y] \in Jobs
               /\ [act |-> job[a].act, id |-> job[a].id, todo |-> y] # Idle
    BY <2>1, <2>3, <1>4 DEF Advance, Begin, Jobs, Idle
  <2>4. CASE job[a].todo = <<"publish", "log">>
    <3> DEFINE j == [act |-> job[a].act, id |-> job[a].id, todo |-> <<"log">>]
    <3>1. Tail(<<"publish", "log">>) = <<"log">> /\ Len(<<"publish", "log">>) # 1 OBVIOUS
    <3>2. job' = [job EXCEPT ![a] = j] /\ j \in Jobs /\ j # Idle BY <2>3, <2>4, <3>1 DEF Todos
    <3>3. Logging(j) /\ j.id = job[a].id BY <3>2 DEF Logging
    <3>4. Logging(job[a]) /\ ~Due(a, "log") BY <2>4, <1>4 DEF Logging, Due, Free
    <3> HIDE DEF j
    <3> QED BY <3>2, <3>3, <3>4
  <2>5. CASE job[a].todo = <<"log", "publish">>
    <3> DEFINE j == [act |-> job[a].act, id |-> job[a].id, todo |-> <<"publish">>]
    <3>1. Tail(<<"log", "publish">>) = <<"publish">> /\ Len(<<"log", "publish">>) # 1 OBVIOUS
    <3>2. job' = [job EXCEPT ![a] = j] /\ j \in Jobs /\ j # Idle BY <2>3, <2>5, <3>1 DEF Todos
    <3>3. ~Logging(j) BY DEF Logging
    <3>4. Logging(job[a]) /\ ~Due(a, "publish") BY <2>5, <1>4 DEF Logging, Due, Free
    <3> HIDE DEF j
    <3> QED BY <3>2, <3>3, <3>4
  <2>6. CASE job[a].todo = <<"write", "publish", "log">>
    <3> DEFINE j == [act |-> job[a].act, id |-> job[a].id, todo |-> <<"publish", "log">>]
    <3>1. /\ Tail(<<"write", "publish", "log">>) = <<"publish", "log">>
          /\ Len(<<"write", "publish", "log">>) # 1
      OBVIOUS
    <3>2. job' = [job EXCEPT ![a] = j] /\ j \in Jobs /\ j.id = job[a].id
      BY <2>3, <2>6, <3>1 DEF Todos
    <3>3. ~Due(a, "publish") /\ ~Due(a, "log") BY <2>6 DEF Due
    <3> HIDE DEF j
    <3> QED BY <3>2, <3>3
  <2> QED BY <2>1, <2>2, <2>4, <2>5, <2>6 DEF Jobs, Todos
<1>5. ASSUME NEW a \in Admins, PublishChange(a) PROVE Goal
  <2>1. Due(a, "publish") /\ Advance(a) /\ unlogged' = unlogged /\ faults' = faults
    BY <1>5 DEF PublishChange
  <2>2. ~Free(a) BY <2>1 DEF Due
  <2> QED BY <2>1, <2>2, <1>4, <1>s
<1>6. ASSUME NEW a \in Admins, LogChange(a) PROVE Goal
  <2>1. /\ Due(a, "log") /\ Advance(a) /\ faults' = faults
        /\ unlogged' = [unlogged EXCEPT ![job[a].id] = @ - 1]
    BY <1>6 DEF LogChange
  <2>2. ~Free(a) BY <2>1 DEF Due
  <2> QED BY <2>1, <2>2, <1>4, <1>n
<1>7. ASSUME NEW a \in Admins, RequestBreaks(a) PROVE Goal
  <2>1. job' = [job EXCEPT ![a] = Idle] /\ unlogged' = unlogged BY <1>7 DEF RequestBreaks
  <2>2. ~Quiet' BY <1>7 DEF RequestBreaks, Fault, Quiet, TypeInv
  <2> QED BY <2>1, <2>2, <1>s
<1>8. ASSUME NEW r \in Reports, ParseNew(r) \/ Submit(r) \/ Reparse(r) \/ Enrich(r) \/ Expire(r)
      PROVE  Goal
  BY <1>8, <1>u DEF ParseNew, Submit, Reparse, Enrich, Expire
<1>9. ASSUME NEW S \in SUBSET Reports, ReEnrichBatch(S) PROVE Goal
  BY <1>9, <1>u DEF ReEnrichBatch
<1>10. ASSUME NEW c \in Calls, StoreVote(c) \/ CountVote(c) \/ PublishVote(c) PROVE Goal
  BY <1>10, <1>u DEF StoreVote, CountVote, PublishVote
<1>11. ASSUME NEW c \in Calls, NEW r \in Reports, NEW way \in Ways, CheckReport(c, r, way)
       PROVE  Goal
  BY <1>11, <1>u DEF CheckReport
<1>12. ASSUME NEW c \in Calls, CallBreaks(c) PROVE Goal
  <2>1. UNCHANGED <<job, unlogged>> /\ ~Quiet'
    BY <1>12 DEF CallBreaks, Fault, Quiet, TypeInv
  <2>2. LogTellsTruth' BY <2>1 DEF LogTellsTruth, ToLog, Free
  <2> QED BY <2>1, <2>2 DEF Goal, TypeInv
<1>13. ASSUME UNCHANGED vars PROVE Goal
  BY <1>13, <1>u DEF vars
<1>14. Goal
  BY <1>1, <1>2, <1>3, <1>5, <1>6, <1>7, <1>8, <1>9, <1>10, <1>11, <1>12, <1>13 DEF Next
<1> QED BY <1>14 DEF Goal

(* The votes.                                                              *)
CountingB(b, r, way) == b.step = "count" /\ b.id = r /\ b.way = way

\* One vote of an address for a report, as the unique index says; and so
\* finitely many.
OneVote == IsFiniteSet(votes) /\ \A x, y \in votes : x.id = y.id /\ x.voter = y.voter => x = y

LEMMA VoteSets ==
    ASSUME IsFiniteSet(votes), NEW r \in Reports, NEW way \in Ways
    PROVE  /\ IsFiniteSet(Stored(r, way)) /\ Cardinality(Stored(r, way)) \in Nat
           /\ IsFiniteSet(Counting(r, way)) /\ Cardinality(Counting(r, way)) \in Nat
<1>1. Stored(r, way) \subseteq votes BY DEF Stored
<1>2. Counting(r, way) \subseteq Calls BY DEF Counting
<1>3. IsFiniteSet(Calls) BY ModerationAssumption DEF ModerationAssumption
<1> QED BY <1>1, <1>2, <1>3, FS_Subset, FS_CardinalityType

\* One call takes its next step.
LEMMA CountingStep ==
    ASSUME TypeInv, OneVote, NEW c \in Calls, NEW b \in Ballots \cup {NoBallot},
           ballot' = [ballot EXCEPT ![c] = b], NEW r \in Reports, NEW way \in Ways
    PROVE  Cardinality(Counting(r, way)') =
              Cardinality(Counting(r, way)) - (IF CountingB(ballot[c], r, way) THEN 1 ELSE 0)
                                            + (IF CountingB(b, r, way) THEN 1 ELSE 0)
<1>1. c \in Counting(r, way) <=> CountingB(ballot[c], r, way)
  BY DEF Counting, CountingB
<1>2. Counting(r, way)' = IF CountingB(b, r, way) THEN Counting(r, way) \cup {c}
                                                  ELSE Counting(r, way) \ {c}
  BY DEF TypeInv, Counting, CountingB
<1>3. IsFiniteSet(Counting(r, way)) /\ Cardinality(Counting(r, way)) \in Nat
  BY VoteSets DEF OneVote
<1>4. /\ Cardinality(Counting(r, way) \cup {c}) =
            IF c \in Counting(r, way) THEN Cardinality(Counting(r, way)) ELSE Cardinality(Counting(r, way)) + 1
      /\ Cardinality(Counting(r, way) \ {c}) =
            IF c \in Counting(r, way) THEN Cardinality(Counting(r, way)) - 1 ELSE Cardinality(Counting(r, way))
  BY <1>3, FS_AddElement, FS_RemoveElement
<1>5. CASE CountingB(b, r, way)
  BY <1>1, <1>2, <1>3, <1>4, <1>5
<1>6. CASE ~CountingB(b, r, way)
  BY <1>1, <1>2, <1>3, <1>4, <1>6
<1> QED BY <1>5, <1>6

LEMMA Balances ==
    ASSUME TypeInv, OneVote, VotesCounted, NEW r \in Reports, NEW way \in Ways
    PROVE  /\ Counted(r, way) \in Nat
           /\ Counted(r, way) + Cardinality(Counting(r, way)) <= Cardinality(Stored(r, way))
           /\ Quiet => Counted(r, way) + Cardinality(Counting(r, way)) = Cardinality(Stored(r, way))
  BY DEF TypeInv, Rows, VotesCounted, Counted

LEMMA VotesStep ==
    ASSUME TypeInv, OneVote, VotesCounted, BannedHidden, [Next]_vars
    PROVE  /\ ballot' \in [Calls -> Ballots \cup {NoBallot}]
           /\ votes' \subseteq Votes /\ OneVote' /\ VotesCounted'
<1> DEFINE Goal == /\ ballot' \in [Calls -> Ballots \cup {NoBallot}]
                   /\ votes' \subseteq Votes /\ OneVote' /\ VotesCounted'
<1>c. ASSUME NEW c \in Calls, NEW b \in Ballots \cup {NoBallot}, ballot' = [ballot EXCEPT ![c] = b]
      PROVE  \A r \in Reports, way \in Ways :
                Cardinality(Counting(r, way)') =
                   Cardinality(Counting(r, way)) - (IF CountingB(ballot[c], r, way) THEN 1 ELSE 0)
                                                 + (IF CountingB(b, r, way) THEN 1 ELSE 0)
  BY <1>c, CountingStep
\* Where nothing of a vote happens.
<1>u. ASSUME UNCHANGED <<votes, ballot>>, NobodyCounts, faults' = faults \/ ~Quiet' PROVE Goal
  <2>1. OneVote' BY <1>u DEF OneVote
  <2>2. ASSUME NEW r \in Reports, NEW way \in Ways
        PROVE  /\ Counted(r, way)' = Counted(r, way)
               /\ Counting(r, way)' = Counting(r, way)
               /\ Stored(r, way)' = Stored(r, way)
    BY <1>u DEF NobodyCounts, Counted, Counting, Stored
  <2>3. VotesCounted' BY <1>u, <2>2 DEF VotesCounted, Quiet
  <2> QED BY <1>u, <2>1, <2>3 DEF TypeInv
\* Where a call goes on that counts nothing, or breaks off.
<1>s. ASSUME NEW c \in Calls, NEW b \in Ballots \cup {NoBallot},
             ballot' = [ballot EXCEPT ![c] = b], votes' = votes, row' = row,
             b.step # "count",
             (ballot[c].step # "count" /\ faults' = faults) \/ ~Quiet'
      PROVE  Goal
  <2>1. OneVote' BY <1>s DEF OneVote
  <2>2. ASSUME NEW r \in Reports, NEW way \in Ways
        PROVE  /\ Counted(r, way)' + Cardinality(Counting(r, way)') <= Cardinality(Stored(r, way)')
               /\ Quiet' => Counted(r, way)' + Cardinality(Counting(r, way)')
                                 = Cardinality(Stored(r, way)')
    <3>1. Counted(r, way)' = Counted(r, way) /\ Stored(r, way)' = Stored(r, way)
      BY <1>s DEF Counted, Stored
    <3>2. Cardinality(Counting(r, way)') =
              Cardinality(Counting(r, way)) - (IF CountingB(ballot[c], r, way) THEN 1 ELSE 0)
      <4>1. ~CountingB(b, r, way) BY <1>s DEF CountingB
      <4>2. Cardinality(Counting(r, way)) \in Nat BY VoteSets DEF OneVote
      <4>3. Cardinality(Counting(r, way)') =
                Cardinality(Counting(r, way)) - (IF CountingB(ballot[c], r, way) THEN 1 ELSE 0)
                                              + (IF CountingB(b, r, way) THEN 1 ELSE 0)
        BY <1>s, CountingStep
      <4> QED BY <4>1, <4>2, <4>3
    <3>3. ballot[c].step # "count" => ~CountingB(ballot[c], r, way) BY DEF CountingB
    <3>4. /\ Cardinality(Counting(r, way)) \in Nat /\ Cardinality(Stored(r, way)) \in Nat
      BY VoteSets DEF OneVote
    <3>5. /\ Counted(r, way) \in Nat
          /\ Counted(r, way) + Cardinality(Counting(r, way)) <= Cardinality(Stored(r, way))
          /\ Quiet => Counted(r, way) + Cardinality(Counting(r, way)) = Cardinality(Stored(r, way))
      BY Balances
    <3>6. Quiet' => Quiet /\ ~CountingB(ballot[c], r, way) BY <1>s, <3>3 DEF Quiet
    <3> HIDE DEF Quiet
    <3> QED BY <3>1, <3>2, <3>4, <3>5, <3>6
  <2>3. ballot' \in [Calls -> Ballots \cup {NoBallot}] BY <1>s DEF TypeInv
  <2> QED BY <1>s, <2>1, <2>2, <2>3 DEF TypeInv, VotesCounted
<1> HIDE DEF Goal
<1>1. ASSUME NEW c \in Calls, NEW r \in Reports, NEW way \in Ways, CheckReport(c, r, way)
      PROVE  Goal
  <2> DEFINE b == [step |-> "insert", id |-> r, way |-> way]
  <2>1. b \in Ballots /\ b.step # "count" BY DEF Ballots
  <2>2. ballot' = [ballot EXCEPT ![c] = b] /\ votes' = votes /\ row' = row /\ faults' = faults
    BY <1>1 DEF CheckReport
  <2>3. ballot[c].step # "count" BY <1>1 DEF CheckReport, NoBallot
  <2> HIDE DEF b
  <2> QED BY <2>1, <2>2, <2>3, <1>s
<1>2. ASSUME NEW c \in Calls, StoreVote(c), VotedBefore(c) PROVE Goal
  <2>1. /\ ballot[c].step = "insert" /\ ballot' = [ballot EXCEPT ![c] = NoBallot]
        /\ votes' = votes /\ row' = row /\ faults' = faults
    BY <1>2 DEF StoreVote
  <2>2. NoBallot.step # "count" BY DEF NoBallot
  <2> QED BY <2>1, <2>2, <1>s
<1>3. ASSUME NEW c \in Calls, StoreVote(c), ~VotedBefore(c) PROVE Goal
  <2> DEFINE x == [id |-> ballot[c].id, voter |-> CallerOf[c], way |-> ballot[c].way]
             b == [step |-> "count", id |-> ballot[c].id, way |-> ballot[c].way]
  <2>1. ballot[c] \in [step : {"insert"}, id : Reports, way : Ways]
    BY <1>3 DEF StoreVote, TypeInv, Ballots, NoBallot
  <2>2. /\ x \in Votes /\ x.id = ballot[c].id /\ x.way = ballot[c].way /\ x.voter = CallerOf[c]
    BY <2>1, ModerationAssumption DEF ModerationAssumption, Votes
  <2>3. b \in Ballots /\ b.step = "count" /\ b.id = x.id /\ b.way = x.way
    BY <2>1 DEF Ballots
  <2>4. ballot' = [ballot EXCEPT ![c] = b]
    <3>1. [ballot[c] EXCEPT !.step = "count"] = b BY <2>1
    <3>2. ballot' = [ballot EXCEPT ![c] = [ballot[c] EXCEPT !.step = "count"]]
      BY <1>3 DEF StoreVote
    <3> HIDE DEF b
    <3> QED BY <3>1, <3>2
  <2>5. votes' = votes \cup {x} /\ row' = row /\ faults' = faults
    BY <1>3 DEF StoreVote
  <2>6. \A y \in votes : y.id # x.id \/ y.voter # x.voter
    BY <1>3, <2>2 DEF VotedBefore
  <2>7. ballot[c].step # "count" BY <2>1
  <2> HIDE DEF x, b
  <2>8. OneVote'
    <3>1. IsFiniteSet(votes') BY <2>5, FS_AddElement DEF OneVote
    <3> QED BY <2>5, <2>6, <3>1 DEF OneVote
  <2>c. \A r \in Reports, way \in Ways :
           Cardinality(Counting(r, way)') =
              Cardinality(Counting(r, way)) - (IF CountingB(ballot[c], r, way) THEN 1 ELSE 0)
                                            + (IF CountingB(b, r, way) THEN 1 ELSE 0)
    BY <1>3, <2>3, <2>4, <1>c
  <2>9. ASSUME NEW r \in Reports, NEW way \in Ways
        PROVE  /\ Counted(r, way)' + Cardinality(Counting(r, way)') <= Cardinality(Stored(r, way)')
               /\ Quiet' => Counted(r, way)' + Cardinality(Counting(r, way)')
                                 = Cardinality(Stored(r, way)')
    <3>1. Counted(r, way)' = Counted(r, way) BY <2>5 DEF Counted
    <3>2. /\ IsFiniteSet(Stored(r, way)) /\ Cardinality(Stored(r, way)) \in Nat
          /\ Cardinality(Counting(r, way)) \in Nat
      BY VoteSets DEF OneVote
    <3>3. Stored(r, way)' = IF CountingB(b, r, way) THEN Stored(r, way) \cup {x} ELSE Stored(r, way)
      BY <2>3, <2>5 DEF Stored, CountingB
    <3>4. x \notin Stored(r, way) BY <2>6 DEF Stored
    <3>5. Cardinality(Stored(r, way)') =
              Cardinality(Stored(r, way)) + (IF CountingB(b, r, way) THEN 1 ELSE 0)
      <4>1. Cardinality(Stored(r, way) \cup {x}) = Cardinality(Stored(r, way)) + 1
        BY <3>2, <3>4, FS_AddElement
      <4> QED BY <3>2, <3>3, <4>1
    <3>6. Cardinality(Counting(r, way)') =
              Cardinality(Counting(r, way)) + (IF CountingB(b, r, way) THEN 1 ELSE 0)
      <4>1. ~CountingB(ballot[c], r, way) BY <2>7 DEF CountingB
      <4> QED BY <3>2, <4>1, <2>c
    <3> QED BY <2>5, <3>1, <3>2, <3>5, <3>6, Balances DEF Quiet
  <2>10. ballot' \in [Calls -> Ballots \cup {NoBallot}] BY <2>3, <2>4 DEF TypeInv
  <2>11. votes' \subseteq Votes BY <2>2, <2>5 DEF TypeInv
  <2> QED BY <2>8, <2>9, <2>10, <2>11 DEF Goal, VotesCounted
<1>4. ASSUME NEW c \in Calls, CountVote(c) PROVE Goal
  <2> DEFINE id  == ballot[c].id
             new == IF ballot[c].way = "up" THEN [row[id] EXCEPT !.up   = row[id].up + 1]
                                            ELSE [row[id] EXCEPT !.down = row[id].down + 1]
             b   == [step |-> "publish", id |-> id, up |-> new.up, down |-> new.down]
  <2>1. ballot[c] \in Ballots /\ id \in Reports /\ ballot[c].way \in Ways
    BY <1>4, BallotOf DEF CountVote
  <2>2. /\ new \in Rows
        /\ new.up   = row[id].up   + (IF ballot[c].way = "up" THEN 1 ELSE 0)
        /\ new.down = row[id].down + (IF ballot[c].way = "up" THEN 0 ELSE 1)
    BY <2>1 DEF TypeInv, Rows
  <2>3. /\ ballot[c].step = "count" /\ Store(id, new) /\ ballot' = [ballot EXCEPT ![c] = b]
        /\ votes' = votes /\ faults' = faults
    BY <1>4 DEF CountVote, TakeOff
  <2> HIDE DEF new
  <2>4. b \in Ballots /\ b.step # "count"
    BY <2>1, <2>2 DEF Ballots, Rows
  <2> HIDE DEF b, id
  <2>5. row'[id] = new /\ \A s \in Reports \ {id} : row'[s] = row[s]
    BY <2>1, <2>2, <2>3, Stored1
  <2>6. OneVote' BY <2>3 DEF OneVote
  <2>c. \A r \in Reports, way \in Ways :
           Cardinality(Counting(r, way)') =
              Cardinality(Counting(r, way)) - (IF CountingB(ballot[c], r, way) THEN 1 ELSE 0)
                                            + (IF CountingB(b, r, way) THEN 1 ELSE 0)
    BY <1>4, <2>3, <2>4, <1>c
  <2>7. ASSUME NEW r \in Reports, NEW way \in Ways
        PROVE  /\ Counted(r, way)' + Cardinality(Counting(r, way)') <= Cardinality(Stored(r, way)')
               /\ Quiet' => Counted(r, way)' + Cardinality(Counting(r, way)')
                                 = Cardinality(Stored(r, way)')
    <3>1. CountingB(ballot[c], r, way) <=> r = id /\ way = ballot[c].way
      BY <2>3 DEF CountingB, id
    <3>2. Counted(r, way)' = Counted(r, way) + (IF CountingB(ballot[c], r, way) THEN 1 ELSE 0)
      <4>0. row[r].up \in Nat /\ row[r].down \in Nat BY DEF TypeInv, Rows
      <4>1. CASE r = id BY <4>0, <4>1, <2>1, <2>2, <2>5, <3>1 DEF Counted, Ways
      <4>2. CASE r # id BY <4>0, <4>2, <2>5, <3>1 DEF Counted
      <4> QED BY <4>1, <4>2
    <3>3. /\ Cardinality(Counting(r, way)) \in Nat /\ Cardinality(Stored(r, way)) \in Nat
      BY VoteSets DEF OneVote
    <3>4. Cardinality(Counting(r, way)') =
              Cardinality(Counting(r, way)) - (IF CountingB(ballot[c], r, way) THEN 1 ELSE 0)
      <4>1. ~CountingB(b, r, way) BY <2>4 DEF CountingB
      <4> QED BY <3>3, <4>1, <2>c
    <3>5. Stored(r, way)' = Stored(r, way) BY <2>3 DEF Stored
    <3> QED BY <2>3, <3>2, <3>3, <3>4, <3>5, Balances DEF Quiet
  <2>8. ballot' \in [Calls -> Ballots \cup {NoBallot}] BY <2>3, <2>4 DEF TypeInv
  <2> QED BY <2>3, <2>6, <2>7, <2>8 DEF Goal, VotesCounted, TypeInv
<1>5. ASSUME NEW c \in Calls, PublishVote(c) PROVE Goal
  <2>1. /\ ballot[c].step = "publish" /\ ballot' = [ballot EXCEPT ![c] = NoBallot]
        /\ votes' = votes /\ row' = row /\ faults' = faults
    BY <1>5 DEF PublishVote
  <2>2. NoBallot.step # "count" BY DEF NoBallot
  <2> QED BY <2>1, <2>2, <1>s
<1>6. ASSUME NEW c \in Calls, CallBreaks(c) PROVE Goal
  <2>1. ballot' = [ballot EXCEPT ![c] = NoBallot] /\ votes' = votes /\ row' = row
    BY <1>6 DEF CallBreaks
  <2>2. NoBallot.step # "count" BY DEF NoBallot
  <2>3. ~Quiet' BY <1>6 DEF CallBreaks, Fault, Quiet, TypeInv
  <2> QED BY <2>1, <2>2, <2>3, <1>s
<1>7. ASSUME NobodyCounts, NEW a \in Admins, RequestBreaks(a) PROVE Goal
  <2>1. UNCHANGED <<votes, ballot>> BY <1>7 DEF RequestBreaks
  <2>2. ~Quiet' BY <1>7 DEF RequestBreaks, Fault, Quiet, TypeInv
  <2> QED BY <1>7, <2>1, <2>2, <1>u
<1>8. ASSUME NobodyCounts, NEW r \in Reports,
             ParseNew(r) \/ Submit(r) \/ Reparse(r) \/ Enrich(r) \/ Expire(r)
      PROVE  Goal
  BY <1>8, <1>u DEF ParseNew, Submit, Reparse, Enrich, Expire
<1>9. ASSUME NobodyCounts, NEW a \in Admins, NEW r \in Reports,
             Approve(a, r) \/ Reject(a, r) \/ Restore(a, r) \/ ReEnrich(a, r)
      PROVE  Goal
  BY <1>9, <1>u DEF Approve, Reject, Restore, ReEnrich
<1>10. ASSUME NobodyCounts, NEW a \in Admins, NEW r \in Reports, NEW act \in Acts,
              ReadFirst(a, r, act)
       PROVE  Goal
  BY <1>10, <1>u DEF ReadFirst
<1>11. ASSUME NobodyCounts, NEW S \in SUBSET Reports, ReEnrichBatch(S) PROVE Goal
  BY <1>11, <1>u DEF ReEnrichBatch
<1>12. ASSUME NobodyCounts, NEW a \in Admins,
              WriteUpdate(a) \/ WriteConfirmed(a) \/ PublishChange(a) \/ LogChange(a)
       PROVE  Goal
  BY <1>12, <1>u DEF WriteUpdate, WriteConfirmed, PublishChange, LogChange
<1>13. ASSUME NobodyCounts, UNCHANGED vars PROVE Goal
  BY <1>13, <1>u DEF vars
<1>14. NobodyCounts \/ \E c \in Calls : CountVote(c)
  BY RowStep
<1>15. Goal
  BY <1>1, <1>2, <1>3, <1>4, <1>5, <1>6, <1>7, <1>8, <1>9, <1>10, <1>11, <1>12, <1>13, <1>14
  DEF Next
<1> QED BY <1>15 DEF Goal

(* No report has more votes than there are voters.                         *)
LEMMA VotesBound ==
    ASSUME TypeInv, OneVote, VotesCounted, NEW r \in Reports
    PROVE  row[r].up + row[r].down <= Cardinality(Voters)
<1> DEFINE S == Stored(r, "up") \cup Stored(r, "down")
           f == [x \in S |-> x.voter]
<1>1. /\ Counted(r, "up") = row[r].up /\ Counted(r, "down") = row[r].down
      /\ row[r].up \in Nat /\ row[r].down \in Nat
  BY DEF Counted, TypeInv, Rows
<1>2. ASSUME NEW way \in Ways
      PROVE  /\ Counted(r, way) <= Cardinality(Stored(r, way))
             /\ IsFiniteSet(Stored(r, way)) /\ Cardinality(Stored(r, way)) \in Nat
  <2>1. /\ Counted(r, way) \in Nat
        /\ Counted(r, way) + Cardinality(Counting(r, way)) <= Cardinality(Stored(r, way))
    BY Balances
  <2>2. /\ IsFiniteSet(Stored(r, way)) /\ Cardinality(Stored(r, way)) \in Nat
        /\ Cardinality(Counting(r, way)) \in Nat
    BY VoteSets DEF OneVote
  <2> QED BY <2>1, <2>2
<1>3. IsFiniteSet(S) /\ Cardinality(S) = Cardinality(Stored(r, "up")) + Cardinality(Stored(r, "down"))
  <2>1. IsFiniteSet(Stored(r, "up")) /\ IsFiniteSet(Stored(r, "down"))
    BY <1>2 DEF Ways
  <2>2. Stored(r, "up") \cap Stored(r, "down") = {} BY DEF Stored
  <2>3. Cardinality(Stored(r, "up") \cap Stored(r, "down")) = 0 BY <2>2, FS_EmptySet
  <2>4. Cardinality(Stored(r, "up")) \in Nat /\ Cardinality(Stored(r, "down")) \in Nat
    BY <1>2 DEF Ways
  <2>5. /\ IsFiniteSet(S)
        /\ Cardinality(S) = Cardinality(Stored(r, "up")) + Cardinality(Stored(r, "down"))
                            - Cardinality(Stored(r, "up") \cap Stored(r, "down"))
    BY <2>1, FS_Union
  <2> QED BY <2>3, <2>4, <2>5
<1>4. f \in [S -> Voters] BY DEF Stored, TypeInv, Votes
<1>5. \A x, y \in S : x # y => f[x] # f[y] BY DEF Stored, OneVote
<1>6. IsFiniteSet(Voters) BY ModerationAssumption DEF ModerationAssumption
<1> HIDE DEF S, f
<1>7. Cardinality(S) \in Nat /\ Cardinality(Voters) \in Nat
  BY <1>3, <1>6, FS_CardinalityType
<1>8. ~(Cardinality(Voters) < Cardinality(S))
  BY <1>3, <1>4, <1>5, <1>6, FS_PigeonHole
<1>9. /\ row[r].up <= Cardinality(Stored(r, "up"))
      /\ row[r].down <= Cardinality(Stored(r, "down"))
      /\ Cardinality(Stored(r, "up")) \in Nat /\ Cardinality(Stored(r, "down")) \in Nat
  BY <1>1, <1>2 DEF Ways
<1> QED BY <1>1, <1>3, <1>7, <1>8, <1>9

(* What a step leaves of the types that are left.                          *)
LEMMA RestStep ==
    ASSUME TypeInv, [Next]_vars
    PROVE  owed' \subseteq Reports /\ requests' \in 0..MaxRequests /\ faults' \in 0..MaxFaults
<1> DEFINE Goal == owed' \subseteq Reports /\ requests' \in 0..MaxRequests /\ faults' \in 0..MaxFaults
<1>0. MaxRequests \in Nat /\ MaxFaults \in Nat BY ModerationAssumption DEF ModerationAssumption
<1>o. ASSUME owed' \subseteq Reports, requests' = requests \/ Request, faults' = faults \/ Fault
      PROVE  Goal
  BY <1>o, <1>0 DEF TypeInv, Request, Fault
<1>t. owed \subseteq Reports BY DEF TypeInv
<1>s. ASSUME NEW r \in Reports, NEW new, TakeOff(r, new) PROVE owed' \subseteq Reports
  BY <1>s, <1>t DEF TakeOff
<1>p. ASSUME NEW r, NEW type, Publish(r, type) PROVE owed' \subseteq Reports
  BY <1>p, <1>t DEF Publish
<1> HIDE DEF Goal
<1>1. ASSUME NEW r \in Reports, ParseNew(r) \/ Submit(r) \/ Reparse(r) \/ Enrich(r) \/ Expire(r)
      PROVE  Goal
  BY <1>1, <1>o, <1>t DEF ParseNew, Submit, Reparse, Enrich, Expire
<1>2. ASSUME NEW a \in Admins, NEW r \in Reports, Approve(a, r) \/ Restore(a, r) PROVE Goal
  BY <1>2, <1>o, <1>t DEF Approve, Restore
<1>3. ASSUME NEW a \in Admins, NEW r \in Reports, Reject(a, r) PROVE Goal
  <2>1. owed' \subseteq Reports /\ Request /\ faults' = faults BY <1>3, <1>s DEF Reject
  <2> QED BY <2>1, <1>o
<1>4. ASSUME NEW a \in Admins, NEW r \in Reports, ReEnrich(a, r) PROVE Goal
  <2>1. owed' \subseteq Reports /\ Request /\ faults' = faults BY <1>4, <1>s DEF ReEnrich
  <2> QED BY <2>1, <1>o
<1>5. ASSUME NEW a \in Admins, NEW r \in Reports, NEW act \in Acts, ReadFirst(a, r, act) PROVE Goal
  BY <1>5, <1>o, <1>t DEF ReadFirst
<1>6. ASSUME NEW S \in SUBSET Reports, ReEnrichBatch(S) PROVE Goal
  BY <1>6, <1>o, <1>t DEF ReEnrichBatch
<1>7. ASSUME NEW a \in Admins, WriteUpdate(a) \/ WriteConfirmed(a) \/ LogChange(a) PROVE Goal
  BY <1>7, <1>o, <1>t DEF WriteUpdate, WriteConfirmed, LogChange
<1>8. ASSUME NEW a \in Admins, PublishChange(a) PROVE Goal
  <2>1. owed' \subseteq Reports /\ requests' = requests /\ faults' = faults
    BY <1>8, <1>p DEF PublishChange
  <2> QED BY <2>1, <1>o
<1>9. ASSUME NEW a \in Admins, RequestBreaks(a) PROVE Goal
  BY <1>9, <1>o, <1>t DEF RequestBreaks
<1>10. ASSUME NEW c \in Calls, NEW r \in Reports, NEW way \in Ways, CheckReport(c, r, way) PROVE Goal
  BY <1>10, <1>o, <1>t DEF CheckReport
<1>11. ASSUME NEW c \in Calls, StoreVote(c) \/ CallBreaks(c) PROVE Goal
  BY <1>11, <1>o, <1>t DEF StoreVote, CallBreaks
<1>12. ASSUME NEW c \in Calls, CountVote(c) PROVE Goal
  <2>1. ballot[c].id \in Reports BY <1>12, BallotOf DEF CountVote
  <2>2. /\ \E new : TakeOff(ballot[c].id, new)
        /\ requests' = requests /\ faults' = faults
    BY <1>12 DEF CountVote
  <2> QED BY <2>1, <2>2, <1>s, <1>o
<1>13. ASSUME NEW c \in Calls, PublishVote(c) PROVE Goal
  <2>1. /\ requests' = requests /\ faults' = faults
        /\ owed' = owed \/ \E type : Publish(ballot[c].id, type)
    BY <1>13 DEF PublishVote
  <2>2. owed' \subseteq Reports BY <2>1, <1>p, <1>t
  <2> QED BY <2>1, <2>2, <1>o
<1>14. ASSUME UNCHANGED vars PROVE Goal
  BY <1>14, <1>o, <1>t DEF vars
<1>15. Goal
  BY <1>1, <1>2, <1>3, <1>4, <1>5, <1>6, <1>7, <1>8, <1>9, <1>10, <1>11, <1>12, <1>13, <1>14
  DEF Next
<1> QED BY <1>15 DEF Goal
-----------------------------------------------------------------------------
IInv == TypeInv /\ BannedHidden /\ LogTellsTruth /\ OneVote /\ VotesCounted

LEMMA InitIInv == Init => IInv
<1> SUFFICES ASSUME Init PROVE IInv OBVIOUS
<1>1. TypeInv /\ BannedHidden BY InitInv
<1>2. \A r \in Reports : ToLog(r) = {} /\ unlogged[r] = 0
  BY DEF Init, ToLog, Free
<1>3. LogTellsTruth BY <1>2, FS_EmptySet DEF LogTellsTruth
<1>4. OneVote BY FS_EmptySet DEF Init, OneVote
<1>5. \A r \in Reports, way \in Ways :
         Counted(r, way) = 0 /\ Counting(r, way) = {} /\ Stored(r, way) = {}
  BY DEF Init, Counted, Counting, Stored, NoBallot
<1>6. VotesCounted BY <1>5, FS_EmptySet DEF VotesCounted
<1> QED BY <1>1, <1>3, <1>4, <1>6 DEF IInv

LEMMA NextIInv == IInv /\ [Next]_vars => IInv'
<1> SUFFICES ASSUME IInv, [Next]_vars PROVE IInv' OBVIOUS
<1>1. TypeInv /\ BannedHidden /\ LogTellsTruth /\ OneVote /\ VotesCounted BY DEF IInv
<1>2. row' \in [Reports -> Rows] /\ banned' \subseteq Reports /\ BannedHidden'
  BY <1>1, RowStep
<1>3. job' \in [Admins -> Jobs \cup {Idle}] /\ unlogged' \in [Reports -> Int] /\ LogTellsTruth'
  BY <1>1, JobStep
<1>4. /\ ballot' \in [Calls -> Ballots \cup {NoBallot}]
      /\ votes' \subseteq Votes /\ OneVote' /\ VotesCounted'
  BY <1>1, VotesStep
<1>5. owed' \subseteq Reports /\ requests' \in 0..MaxRequests /\ faults' \in 0..MaxFaults
  BY <1>1, RestStep
<1>6. TypeInv' BY <1>2, <1>3, <1>4, <1>5 DEF TypeInv
<1> QED BY <1>2, <1>3, <1>4, <1>6 DEF IInv

LEMMA Invariant == Spec => []IInv
  BY InitIInv, NextIInv, PTL DEF Spec

(* Every state is of the declared types, and no report gathers more votes  *)
(* than there are voters.                                                  *)
THEOREM TypeCorrect == Spec => []TypeOK
<1>1. IInv => TypeOK
  <2> SUFFICES ASSUME IInv PROVE TypeOK OBVIOUS
  <2>1. TypeInv /\ OneVote /\ VotesCounted BY DEF IInv
  <2>2. \A r \in Reports : row[r].up + row[r].down <= Cardinality(Voters) BY <2>1, VotesBound
  <2> QED BY <2>1, <2>2 DEF TypeInv, TypeOK
<1> QED BY <1>1, Invariant, PTL

(* A rejected report stays off the map until it is restored or approved,   *)
(* whatever edits, confirmations, parses and enrichments go on meanwhile.  *)
THEOREM RejectedCorrect == Spec => []RejectedStaysOff
<1>1. IInv => RejectedStaysOff
  BY DEF IInv, BannedHidden, RejectedStaysOff, Visible
<1> QED BY <1>1, Invariant, PTL

(* Every entry of the activity log is of a change that was made, and every *)
(* change gets one unless its request breaks off.                          *)
THEOREM LogCorrect == Spec => []LogTellsTruth
<1>1. IInv => LogTellsTruth BY DEF IInv
<1> QED BY <1>1, Invariant, PTL

(* The counters of a report never exceed its stored votes, and equal them, *)
(* less those being counted, unless a request broke off.                   *)
THEOREM VotesCorrect == Spec => []VotesCounted
<1>1. IInv => VotesCounted BY DEF IInv
<1> QED BY <1>1, Invariant, PTL

-----------------------------------------------------------------------------
(***************************************************************************)
(* A removal that is owed is in the hands of the request that will publish *)
(* it: the administrator's whose statement took the report off the map and *)
(* that has its event before it, or a call that counted a vote and keeps   *)
(* counters by which the report is voted down.  InFlight alone is not      *)
(* inductive: the request in flight might be one that publishes an update. *)
(* With the driver's pairs no call tells, and all that is left of such a   *)
(* removal is that the report has been voted down.                         *)
(***************************************************************************)
Tells(a, r) ==
    /\ ~Free(a)
    /\ job[a].id = r
    /\ job[a].act \in {"reject", "re_enrich"}
    /\ job[a].todo = <<"publish", "log">>

TellsVote(c, r) ==
    ~PairResults /\ ballot[c].step = "publish" /\ ballot[c].id = r /\ Outvoted(ballot[c])

VotedDown(r) == row[r].down > 0

InGoodHands(r) ==
    \/ \E a \in Admins : Tells(a, r)
    \/ \E c \in Calls : TellsVote(c, r)
    \/ PairResults /\ VotedDown(r)

ToldInv == \A r \in owed : InGoodHands(r)

\* Counters are never reset.
DownVotesStay == \A r \in owed' : VotedDown(r) => VotedDown(r)'

LEMMA CountersGrow ==
    ASSUME TypeInv, BannedHidden, [Next]_vars
    PROVE  DownVotesStay
<1>1. ASSUME NobodyCounts PROVE DownVotesStay
  BY <1>1, RestStep DEF NobodyCounts, DownVotesStay, VotedDown
<1>2. ASSUME NEW c \in Calls, CountVote(c) PROVE DownVotesStay
  <2> DEFINE r   == ballot[c].id
             new == IF ballot[c].way = "up" THEN [row[r] EXCEPT !.up   = row[r].up + 1]
                                            ELSE [row[r] EXCEPT !.down = row[r].down + 1]
  <2>1. r \in Reports BY <1>2, BallotOf DEF CountVote
  <2>2. row[r] \in Rows BY <2>1 DEF TypeInv
  <2>3. new \in Rows /\ (row[r].down > 0 => new.down > 0) BY <2>2 DEF Rows
  <2>4. Store(r, new) BY <1>2 DEF CountVote, TakeOff
  <2> HIDE DEF new, r
  <2>5. row'[r] = new /\ \A s \in Reports \ {r} : row'[s] = row[s]
    BY <2>1, <2>3, <2>4, Stored1
  <2> QED BY <2>3, <2>5, RestStep DEF DownVotesStay, VotedDown
<1> QED BY <1>1, <1>2, RowStep

\* Whoever is to tell of a removal goes on with it, and a new one has somebody.
LEMMA ToldKept ==
    ASSUME ToldInv, DownVotesStay,
           \A r \in owed' : r \in owed \/ InGoodHands(r)',
           \A a \in Admins, r \in owed' : Tells(a, r) => job'[a] = job[a],
           \A c \in Calls, r \in owed' : TellsVote(c, r) => ballot'[c] = ballot[c]
    PROVE  ToldInv'
<1> SUFFICES ASSUME NEW r \in owed', r \in owed PROVE InGoodHands(r)'
  BY DEF ToldInv
<1>1. ASSUME NEW a \in Admins, Tells(a, r) PROVE Tells(a, r)'
  BY <1>1 DEF Tells, Free
<1>2. ASSUME NEW c \in Calls, TellsVote(c, r) PROVE TellsVote(c, r)'
  BY <1>2 DEF TellsVote
<1> QED BY <1>1, <1>2 DEF ToldInv, InGoodHands, DownVotesStay

\* A step of one request of an administrator that is not about to tell.
LEMMA ToldJob ==
    ASSUME TypeInv, ToldInv, DownVotesStay, NEW a \in Admins, NEW j, job' = [job EXCEPT ![a] = j],
           \A r \in owed' : ~Tells(a, r),
           \A r \in owed' : r \in owed \/ InGoodHands(r)',
           ballot' = ballot
    PROVE  ToldInv'
<1>1. \A b \in Admins \ {a} : job'[b] = job[b]
  BY DEF TypeInv
<1> QED BY <1>1, ToldKept

\* A step of one call that is not about to tell.
LEMMA ToldCall ==
    ASSUME TypeInv, ToldInv, DownVotesStay, NEW c \in Calls, NEW b, ballot' = [ballot EXCEPT ![c] = b],
           \A r \in owed' : ~TellsVote(c, r),
           \A r \in owed' : r \in owed \/ InGoodHands(r)',
           job' = job
    PROVE  ToldInv'
<1>1. \A d \in Calls \ {c} : ballot'[d] = ballot[d]
  BY DEF TypeInv
<1> QED BY <1>1, ToldKept

\* A handler that takes a report off the map and has its event to publish.
LEMMA ToldBegins ==
    ASSUME TypeInv, ToldInv, DownVotesStay, NEW a \in Admins, NEW r \in Reports, NEW new,
           NEW act \in {"reject", "re_enrich"},
           Free(a), TakeOff(r, new), Begin(a, act, r, <<"publish", "log">>), ballot' = ballot
    PROVE  ToldInv'
<1> DEFINE j == [act |-> act, id |-> r, todo |-> <<"publish", "log">>]
<1>1. job' = [job EXCEPT ![a] = j] /\ job'[a] = j
  BY DEF Begin, TypeInv
<1>2. job'[a] # Idle
  <2>1. job'[a].todo # Idle.todo
    BY <1>1 DEF Idle
  <2> QED BY <2>1
<1>3. Tells(a, r)'
  BY <1>1, <1>2 DEF Tells, Free
<1>4. \A s \in owed' : s \in owed \/ InGoodHands(s)'
  BY <1>3 DEF TakeOff, InGoodHands
<1>5. \A s \in owed' : ~Tells(a, s)
  BY DEF Tells
<1> QED BY <1>1, <1>4, <1>5, ToldJob

LEMMA ToldStep ==
    ASSUME TypeInv, BannedHidden, ToldInv, [Next]_vars, faults' = faults
    PROVE  ToldInv'
<1>f. ~Fault
  BY ModerationAssumption DEF ModerationAssumption, Fault, TypeInv
<1>d. DownVotesStay
  BY CountersGrow
<1>u. ASSUME UNCHANGED <<job, ballot, owed>> PROVE ToldInv'
  BY <1>u, <1>d, ToldKept
<1>1. ASSUME NEW r \in Reports, ParseNew(r) \/ Submit(r) \/ Reparse(r) \/ Enrich(r) \/ Expire(r)
      PROVE  ToldInv'
  BY <1>1, <1>u DEF ParseNew, Submit, Reparse, Enrich, Expire
<1>2. ASSUME NEW S \in SUBSET Reports, ReEnrichBatch(S) PROVE ToldInv'
  BY <1>2, <1>u DEF ReEnrichBatch
<1>3. ASSUME NEW a \in Admins, NEW r \in Reports,
             Approve(a, r) \/ Restore(a, r) \/ \E act \in Acts : ReadFirst(a, r, act)
      PROVE  ToldInv'
  <2>1. /\ Free(a) /\ owed' = owed /\ ballot' = ballot
        /\ \E j : job' = [job EXCEPT ![a] = j]
    BY <1>3 DEF Approve, Restore, ReadFirst, Begin
  <2>2. \A s \in owed' : ~Tells(a, s)
    BY <2>1 DEF Tells
  <2> QED BY <2>1, <2>2, <1>d, ToldJob
<1>4. ASSUME NEW a \in Admins, NEW r \in Reports, Reject(a, r) PROVE ToldInv'
  <2>1. /\ Free(a) /\ Begin(a, "reject", r, <<"publish", "log">>) /\ ballot' = ballot
        /\ \E new : TakeOff(r, new)
    BY <1>4 DEF Reject
  <2> QED BY <2>1, <1>d, ToldBegins
<1>5. ASSUME NEW a \in Admins, NEW r \in Reports, ReEnrich(a, r) PROVE ToldInv'
  <2>1. /\ Free(a) /\ Begin(a, "re_enrich", r, <<"publish", "log">>) /\ ballot' = ballot
        /\ \E new : TakeOff(r, new)
    BY <1>5 DEF ReEnrich
  <2> QED BY <2>1, <1>d, ToldBegins
\* The statements after the first one: only an event answers for a removal.
<1>6. ASSUME NEW a \in Admins, WriteUpdate(a) \/ WriteConfirmed(a) \/ LogChange(a) PROVE ToldInv'
  <2>1. Head(job[a].todo) # "publish"
    BY <1>6 DEF WriteUpdate, WriteConfirmed, LogChange, Due
  <2>2. \A s \in owed' : ~Tells(a, s)
    BY <2>1 DEF Tells
  <2>3. /\ owed' = owed /\ ballot' = ballot
        /\ \E j : job' = [job EXCEPT ![a] = j]
    BY <1>6 DEF WriteUpdate, WriteConfirmed, LogChange, Begin, Advance
  <2> QED BY <2>2, <2>3, <1>d, ToldJob
<1>7. ASSUME NEW a \in Admins, PublishChange(a) PROVE ToldInv'
  <2>1. /\ Publish(job[a].id, EventOf(job[a].act)) /\ ballot' = ballot
        /\ \E j : job' = [job EXCEPT ![a] = j]
    BY <1>7 DEF PublishChange, Begin, Advance
  <2>2. \A s \in owed' : s \in owed /\ ~Tells(a, s)
    BY <2>1 DEF Publish, EventOf, Tells
  <2> QED BY <2>1, <2>2, <1>d, ToldJob
<1>8. ASSUME NEW c \in Calls, NEW r \in Reports, NEW way \in Ways, CheckReport(c, r, way)
      PROVE  ToldInv'
  <2>1. /\ ballot[c] = NoBallot /\ owed' = owed /\ job' = job
        /\ \E b : ballot' = [ballot EXCEPT ![c] = b]
    BY <1>8 DEF CheckReport
  <2>2. \A s \in owed' : ~TellsVote(c, s)
    BY <2>1 DEF TellsVote, NoBallot
  <2> QED BY <2>1, <2>2, <1>d, ToldCall
<1>9. ASSUME NEW c \in Calls, StoreVote(c) PROVE ToldInv'
  <2>1. /\ ballot[c].step = "insert" /\ owed' = owed /\ job' = job
        /\ \E b : ballot' = [ballot EXCEPT ![c] = b]
    BY <1>9 DEF StoreVote
  <2>2. \A s \in owed' : ~TellsVote(c, s)
    BY <2>1 DEF TellsVote
  <2> QED BY <2>1, <2>2, <1>d, ToldCall
<1>10. ASSUME NEW c \in Calls, CountVote(c) PROVE ToldInv'
  <2> DEFINE r   == ballot[c].id
             new == IF ballot[c].way = "up" THEN [row[r] EXCEPT !.up   = row[r].up + 1]
                                            ELSE [row[r] EXCEPT !.down = row[r].down + 1]
             b   == [step |-> "publish", id |-> r, up |-> new.up, down |-> new.down]
  <2>1. /\ ballot[c].step = "count" /\ job' = job
        /\ TakeOff(r, new)
        /\ ballot' = [ballot EXCEPT ![c] = b]
    BY <1>10 DEF CountVote
  <2>2. \A s \in owed' : ~TellsVote(c, s)
    BY <2>1 DEF TellsVote
  <2>3. row[r] \in Rows
    BY <2>1, BallotOf DEF TypeInv
  <2>4. /\ Visible(row[r]) /\ ~Visible(new) => Outvoted(new)
        /\ Outvoted(new) => new.down > 0
        /\ new \in Rows
    BY <2>3 DEF Visible, Active, Outvoted, Rows
  <2> HIDE DEF new
  <2>5. ballot'[c] = b
    BY <2>1 DEF TypeInv
  <2>6. row'[r] = new
    BY <2>1, <2>4, BallotOf, Stored1 DEF TakeOff
  <2>7. Outvoted(new) => IF PairResults THEN VotedDown(r)' ELSE TellsVote(c, r)'
    BY <2>4, <2>5, <2>6 DEF TellsVote, Outvoted, VotedDown
  <2>8. \A s \in owed' : s \in owed \/ InGoodHands(s)'
    BY <2>1, <2>4, <2>7 DEF TakeOff, InGoodHands
  <2> QED BY <2>1, <2>2, <2>8, <1>d, ToldCall
<1>11. ASSUME NEW c \in Calls, PublishVote(c) PROVE ToldInv'
  <2>1. /\ IF PairResults
           THEN UNCHANGED owed
           ELSE Publish(ballot[c].id,
                        IF Outvoted(ballot[c]) THEN "report_removed" ELSE "report_updated")
        /\ job' = job
        /\ ballot' = [ballot EXCEPT ![c] = NoBallot]
    BY <1>11 DEF PublishVote
  <2>2. \A s \in owed' : s \in owed /\ ~TellsVote(c, s)
    BY <2>1 DEF Publish, TellsVote
  <2> QED BY <2>1, <2>2, <1>d, ToldCall
<1>12. CASE UNCHANGED vars
  BY <1>12, <1>u DEF vars
<1>13. /\ \A a \in Admins : ~RequestBreaks(a)
       /\ \A c \in Calls : ~CallBreaks(c)
  BY <1>f DEF RequestBreaks, CallBreaks
<1> QED
  BY <1>1, <1>2, <1>3, <1>4, <1>5, <1>6, <1>7, <1>8, <1>9, <1>10, <1>11, <1>12, <1>13 DEF Next

\* Faults are counted up: before the first one there was none.
LEMMA QuietBefore ==
    ASSUME TypeInv, [Next]_vars, Quiet'
    PROVE  Quiet /\ faults' = faults
<1>1. faults \in Nat /\ MaxFaults \in Nat
  BY ModerationAssumption DEF ModerationAssumption, TypeInv
<1>2. faults' = faults \/ Fault
  <2>1. ASSUME NEW r \in Reports, ParseNew(r) \/ Submit(r) \/ Reparse(r) \/ Enrich(r) \/ Expire(r)
        PROVE  faults' = faults
    BY <2>1 DEF ParseNew, Submit, Reparse, Enrich, Expire
  <2>2. ASSUME NEW a \in Admins, NEW r \in Reports,
               \/ Approve(a, r) \/ Reject(a, r) \/ Restore(a, r) \/ ReEnrich(a, r)
               \/ \E act \in Acts : ReadFirst(a, r, act)
        PROVE  faults' = faults
    BY <2>2 DEF Approve, Reject, Restore, ReEnrich, ReadFirst
  <2>3. ASSUME NEW S \in SUBSET Reports, ReEnrichBatch(S) PROVE faults' = faults
    BY <2>3 DEF ReEnrichBatch
  <2>4. ASSUME NEW a \in Admins,
               WriteUpdate(a) \/ WriteConfirmed(a) \/ PublishChange(a) \/ LogChange(a)
        PROVE  faults' = faults
    BY <2>4 DEF WriteUpdate, WriteConfirmed, PublishChange, LogChange
  <2>5. ASSUME NEW c \in Calls, NEW r \in Reports, NEW way \in Ways, CheckReport(c, r, way)
        PROVE  faults' = faults
    BY <2>5 DEF CheckReport
  <2>6. ASSUME NEW c \in Calls, StoreVote(c) \/ CountVote(c) \/ PublishVote(c)
        PROVE  faults' = faults
    BY <2>6 DEF StoreVote, CountVote, PublishVote
  <2>7. \A a \in Admins : RequestBreaks(a) => Fault
    BY DEF RequestBreaks
  <2>8. \A c \in Calls : CallBreaks(c) => Fault
    BY DEF CallBreaks
  <2>9. UNCHANGED vars => faults' = faults
    BY DEF vars
  <2> QED
    BY <2>1, <2>2, <2>3, <2>4, <2>5, <2>6, <2>7, <2>8, <2>9 DEF Next
<1> QED BY <1>1, <1>2 DEF Fault, Quiet

LEMMA ToldInvariant == Spec => [](IInv /\ (Quiet => ToldInv))
<1>1. Init => ToldInv BY DEF Init, ToldInv
<1>2. IInv /\ (Quiet => ToldInv) /\ [Next]_vars => (Quiet => ToldInv)'
  BY QuietBefore, ToldStep DEF IInv
<1> QED BY <1>1, <1>2, InitIInv, NextIInv, PTL DEF Spec

LEMMA ToldMeans ==
    ASSUME TypeInv, ToldInv, NEW r \in owed
    PROVE  InFlight(r) \/ (PairResults /\ row[r].down > 0)
  BY DEF ToldInv, InGoodHands, Tells, TellsVote, VotedDown, InFlight, NoBallot

(* A report that a rejection, a re-enrichment of it alone or a vote has    *)
(* taken off the map is taken off in the map clients, or a request is      *)
(* under way that will: where voteForReport gets the rows of its UPDATE as *)
(* it expects, for any number of requests and calls at once.               *)
THEOREM RemovalCorrect == ~PairResults => (Spec => []RemovalIsTold)
<1> SUFFICES ASSUME ~PairResults PROVE Spec => []RemovalIsTold OBVIOUS
<1>1. IInv /\ (Quiet => ToldInv) => RemovalIsTold
  BY ToldMeans DEF IInv, RemovalIsTold
<1> QED BY <1>1, ToldInvariant, PTL

(* So a vote that takes a report off the map takes it off in the clients:  *)
(* what the run moderation_outvoted finds otherwise comes only of reading  *)
(* the driver's pair as a list of rows (voteForReport).                    *)
THEOREM OutvotedCorrect == ~PairResults => (Spec => []OutvotedIsTold)
<1>1. RemovalIsTold => OutvotedIsTold
  BY DEF RemovalIsTold, OutvotedIsTold
<1> QED BY <1>1, RemovalCorrect, PTL

(* What administrators take off the map (rejectEvent, reEnrichEvent) is    *)
(* taken off in the clients with the driver's pairs too: a removal that is *)
(* never told is of a report that somebody has voted down.                 *)
AdminRemovalIsTold ==
    Quiet => \A r \in owed : InFlight(r) \/ row[r].down > 0

THEOREM AdminRemovalCorrect == Spec => []AdminRemovalIsTold
<1>1. IInv /\ (Quiet => ToldInv) => AdminRemovalIsTold
  BY ToldMeans DEF IInv, AdminRemovalIsTold
<1> QED BY <1>1, ToldInvariant, PTL
=============================================================================
