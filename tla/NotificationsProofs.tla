------------------------- MODULE NotificationsProofs -------------------------
(***************************************************************************)
(* Theorems about Notifications for any browsers, phones and processes,    *)
(* any size of a multicast and any number of announcements, requests and   *)
(* faults.                                                                 *)
(***************************************************************************)
EXTENDS Notifications, TLAPS

USE NotificationsAssumption DEF NotificationsAssumption, Reports, Channels, Addresses

TypeInv ==
    /\ sub       \in [Addresses -> Subs \cup {NoSub}]
    /\ nextId    \in Nat \ {0}
    /\ \A a \in Addresses : sub[a].id < nextId
    /\ \A a, b \in Addresses : sub[a].id = sub[b].id /\ sub[a] # NoSub => a = b
    /\ dead      \subseteq Addresses
    /\ published \in 0..MaxReports
    /\ run       \in [Reports -> [Channels -> Runs \cup {NoRun}]]
    /\ refused   \subseteq Targets
    /\ requests  \in 0..MaxRequests
    /\ faults    \in 0..MaxFaults

HistInv ==
    /\ heard     \in [Reports -> SUBSET Clients]
    /\ due       \in [Reports -> SUBSET Addresses]
    /\ known     \in [Reports -> SUBSET Addresses]
    /\ tried     \in [Reports -> SUBSET Addresses]

(* What a run still owes to an address that is due.                        *)
Owes(n, ch, a) ==
    LET this == run[n][ch]
    IN  /\ this.step = "find" => Enabled(a) /\ Covers(sub[a].zone, this.inside)
        /\ this.step \in {"send", "drop"} /\ (ch = "web" \/ Quiet)
           => a \in tried[n] \/ \E t \in this.left : t.address = a
        /\ this.step = "over" /\ (ch = "web" \/ Quiet) => a \in tried[n]

RunOK(n, ch) ==
    LET this == run[n][ch]
    IN  this # NoRun =>
            /\ \A t \in this.left \cup this.drops \cup this.strays : Channel(t.address) = ch
            /\ \A t \in this.drops \cup this.strays : t.address \in dead
            /\ \A t \in this.left : t.address \in known[n]
            /\ this.step = "drop" <=> this.drops # {}
            /\ ch = "web" => \A t, u \in this.drops : t = u
            /\ \A a \in due[n] : Channel(a) = ch => Owes(n, ch, a)

(* Nothing is known of an announcement that has not been made.             *)
Ahead ==
    /\ \A n \in Reports, ch \in Channels : run[n][ch] = NoRun <=> n > published
    /\ \A n \in Reports : n > published => due[n] = {} /\ tried[n] = {}

EnabledKnown ==
    \A a \in Addresses, n \in Reports : n <= published /\ Enabled(a) => a \in known[n]

IInv ==
    /\ TypeInv
    /\ HistInv
    /\ Ahead
    /\ EnabledKnown
    /\ \A n \in Reports, ch \in Channels : RunOK(n, ch)
    /\ OnlySubscribersReached
    /\ LiveStayEnabled
    /\ DeadAreDropped

LEMMA InitIInv == Init => IInv
<1> SUFFICES ASSUME Init PROVE IInv
  OBVIOUS
<1> USE DEF Init
<1>1. TypeInv /\ HistInv
  BY DEF TypeInv, HistInv, NoSub
<1>2. Ahead /\ EnabledKnown /\ OnlySubscribersReached /\ DeadAreDropped
  BY DEF Ahead, EnabledKnown, OnlySubscribersReached, DeadAreDropped, Enabled
<1>3. \A n \in Reports, ch \in Channels : RunOK(n, ch)
  BY DEF RunOK
<1>4. LiveStayEnabled
  BY DEF LiveStayEnabled
<1> QED
  BY <1>1, <1>2, <1>3, <1>4 DEF IInv

(* A run that does not move keeps what holds of it as long as the rest     *)
(* moves in one direction.                                                 *)
LEMMA Frame ==
    ASSUME NEW n \in Reports, NEW ch \in Channels, RunOK(n, ch), run'[n][ch] = run[n][ch],
           dead \subseteq dead', known[n] \subseteq known'[n], due'[n] \subseteq due[n],
           tried[n] \subseteq tried'[n], \A a \in due'[n] : sub'[a] = sub[a],
           Quiet' => Quiet
    PROVE  RunOK(n, ch)'
<1> DEFINE this == run[n][ch]
<1>1. CASE this = NoRun
  BY <1>1 DEF RunOK
<1>2. CASE this # NoRun
  <2>1. ASSUME NEW a \in due'[n], Channel(a) = ch PROVE Owes(n, ch, a)'
    <3>1. a \in due[n] /\ sub'[a] = sub[a] /\ Owes(n, ch, a)
      BY <1>2, <2>1 DEF RunOK
    <3> QED
      BY <3>1 DEF Owes, Enabled
  <2> QED
    BY <1>2, <2>1 DEF RunOK
<1> QED
  BY <1>1, <1>2

(* The runs when one of them moves.                                        *)
LEMMA OneRun ==
    ASSUME TypeInv, NEW n \in Reports, NEW ch \in Channels, NEW new \in Runs, Only(n, ch, new)
    PROVE  /\ run' \in [Reports -> [Channels -> Runs \cup {NoRun}]]
           /\ run'[n][ch] = new
           /\ \A m \in Reports, c \in Channels : m # n \/ c # ch => run'[m][c] = run[m][c]
  BY DEF TypeInv, Only

LEMMA RunType ==
    ASSUME TypeInv, Ahead, NEW n \in Reports, NEW ch \in Channels, n <= published
    PROVE  run[n][ch] \in Runs /\ run[n][ch] # NoRun
<1>1. run[n][ch] # NoRun
  BY DEF Ahead, TypeInv
<1> QED
  BY <1>1 DEF TypeInv

-----------------------------------------------------------------------------
(* Subscribing and unsubscribing.                                          *)

LEMMA SubscribeStep ==
    ASSUME IInv, NEW a \in Addresses, NEW zone \in Zones, Subscribe(a, zone)
    PROVE  IInv'
<1> DEFINE new == [id |-> IF sub[a] = NoSub THEN nextId ELSE sub[a].id,
                   enabled |-> TRUE, zone |-> zone]
<1>0. TypeInv /\ HistInv /\ Ahead /\ EnabledKnown /\ LiveStayEnabled
  BY DEF IInv
<1>1. /\ new \in Subs /\ new # NoSub /\ new.enabled = TRUE
      /\ sub[a] = NoSub => new.id = nextId
      /\ sub[a] # NoSub => new.id = sub[a].id
  BY <1>0 DEF TypeInv, Subs, NoSub
<1>2. sub' = [sub EXCEPT ![a] = new]
  BY DEF Subscribe
<1> HIDE DEF new
<1>3. /\ nextId' = IF sub[a] = NoSub THEN nextId + 1 ELSE nextId
      /\ known' = [n \in Reports |-> IF n <= published THEN known[n] \cup {a} ELSE {}]
      /\ due' = [n \in Reports |-> due[n] \ {a}]
      /\ refused' = {t \in refused : t.address # a}
      /\ requests' \in 0..MaxRequests
      /\ UNCHANGED <<dead, published, run, heard, tried, faults>>
  BY <1>0 DEF Subscribe, Changed, Request, TypeInv
<1>4. sub'[a] = new /\ \A b \in Addresses : b # a => sub'[b] = sub[b]
  BY <1>0, <1>2 DEF TypeInv
<1>5. TypeInv'
  <2>1. sub' \in [Addresses -> Subs \cup {NoSub}]
    BY <1>0, <1>1, <1>2 DEF TypeInv
  <2>2. \A b \in Addresses : sub[b].id \in Nat /\ sub[b].id < nextId
    BY <1>0 DEF TypeInv, Subs, NoSub
  <2>3. nextId' \in Nat \ {0} /\ \A b \in Addresses : sub'[b].id < nextId'
    <3>1. nextId \in Nat /\ nextId # 0
      BY <1>0 DEF TypeInv
    <3>2. nextId' \in Nat \ {0} /\ nextId <= nextId'
      BY <1>3, <3>1
    <3>3. new.id < nextId'
      BY <1>1, <1>3, <2>2, <3>1
    <3> QED
      BY <1>4, <2>2, <3>1, <3>2, <3>3
  <2>4. \A b, c \in Addresses : sub'[b].id = sub'[c].id /\ sub'[b] # NoSub => b = c
    <3> SUFFICES ASSUME NEW b \in Addresses, NEW c \in Addresses,
                        sub'[b].id = sub'[c].id, sub'[b] # NoSub
                 PROVE  b = c
      OBVIOUS
    <3>1. \A d \in Addresses : (sub[d] = NoSub => sub[d].id = 0) /\ (sub[d] # NoSub => sub[d].id # 0)
      BY <1>0 DEF TypeInv, Subs, NoSub
    <3>2. new.id # 0
      BY <1>1 DEF Subs
    <3>3. \A d, e \in Addresses : sub[d].id = sub[e].id /\ sub[d] # NoSub => d = e
      BY <1>0 DEF TypeInv
    <3> QED
      BY <1>1, <1>4, <2>2, <3>1, <3>2, <3>3
  <2> QED
    BY <1>0, <1>3, <2>1, <2>3, <2>4 DEF TypeInv
<1>6. HistInv' /\ Ahead'
  BY <1>0, <1>3 DEF HistInv, Ahead
<1>7. \A n \in Reports, ch \in Channels : RunOK(n, ch)'
  <2> SUFFICES ASSUME NEW n \in Reports, NEW ch \in Channels PROVE RunOK(n, ch)'
    OBVIOUS
  <2>1. RunOK(n, ch) /\ run'[n][ch] = run[n][ch] /\ dead \subseteq dead' /\ (Quiet' => Quiet)
    BY <1>3 DEF IInv, Quiet
  <2>2. due'[n] \subseteq due[n] /\ tried[n] \subseteq tried'[n] /\ a \notin due'[n]
    BY <1>0, <1>3 DEF HistInv
  <2>3. \A b \in due'[n] : sub'[b] = sub[b]
    BY <1>0, <1>4, <2>2 DEF HistInv
  <2>4. CASE n <= published
    <3>1. known[n] \subseteq known'[n]
      BY <1>0, <1>3, <2>4 DEF HistInv
    <3> QED
      BY <2>1, <2>2, <2>3, <3>1, Frame
  <2>5. CASE n > published
    BY <2>1, <2>5, <1>0 DEF Ahead, RunOK
  <2> QED
    BY <1>0, <2>4, <2>5 DEF TypeInv
<1>8. EnabledKnown'
  BY <1>0, <1>3, <1>4 DEF EnabledKnown, Enabled, HistInv
<1>9. OnlySubscribersReached'
  <2>1. OnlySubscribersReached
    BY DEF IInv
  <2> QED
    BY <1>0, <1>3, <2>1 DEF OnlySubscribersReached, HistInv, Ahead, TypeInv
<1>10. LiveStayEnabled'
  BY <1>0, <1>1, <1>3, <1>4 DEF LiveStayEnabled
<1>11. DeadAreDropped'
  <2>1. DeadAreDropped /\ \A t \in refused : t.address \in Addresses
    BY <1>0 DEF IInv, TypeInv, Targets
  <2> QED
    BY <1>3, <1>4, <2>1 DEF DeadAreDropped, Enabled, Quiet
<1> QED
  BY <1>5, <1>6, <1>7, <1>8, <1>9, <1>10, <1>11 DEF IInv

LEMMA UnsubscribeStep ==
    ASSUME IInv, NEW a \in Addresses, Unsubscribe(a)
    PROVE  IInv'
<1>0. TypeInv /\ HistInv /\ Ahead /\ EnabledKnown /\ LiveStayEnabled
  BY DEF IInv
<1>1. /\ sub' = [sub EXCEPT ![a] = NoSub]
      /\ due' = [n \in Reports |-> due[n] \ {a}]
      /\ refused' = {t \in refused : t.address # a}
      /\ requests' \in 0..MaxRequests
      /\ UNCHANGED <<nextId, dead, published, run, heard, known, tried, faults>>
  BY <1>0 DEF Unsubscribe, Changed, Request, TypeInv
<1>2. sub'[a] = NoSub /\ \A b \in Addresses : b # a => sub'[b] = sub[b]
  BY <1>0, <1>1 DEF TypeInv
<1>3. TypeInv'
  <2>1. sub' \in [Addresses -> Subs \cup {NoSub}]
    BY <1>0, <1>1 DEF TypeInv
  <2>2. \A b \in Addresses : sub'[b].id < nextId
    BY <1>0, <1>2 DEF TypeInv, NoSub
  <2>3. \A b, c \in Addresses : sub'[b].id = sub'[c].id /\ sub'[b] # NoSub => b = c
    <3>1. \A d \in Addresses : (sub[d] # NoSub => sub[d].id # 0)
      BY <1>0 DEF TypeInv, Subs
    <3>2. \A d, e \in Addresses : sub[d].id = sub[e].id /\ sub[d] # NoSub => d = e
      BY <1>0 DEF TypeInv
    <3> QED
      BY <1>2, <3>1, <3>2 DEF NoSub
  <2> QED
    BY <1>0, <1>1, <2>1, <2>2, <2>3 DEF TypeInv
<1>4. HistInv' /\ Ahead'
  BY <1>0, <1>1 DEF HistInv, Ahead
<1>5. \A n \in Reports, ch \in Channels : RunOK(n, ch)'
  <2> SUFFICES ASSUME NEW n \in Reports, NEW ch \in Channels PROVE RunOK(n, ch)'
    OBVIOUS
  <2>1. /\ RunOK(n, ch) /\ run'[n][ch] = run[n][ch] /\ dead \subseteq dead' /\ (Quiet' => Quiet)
        /\ known[n] \subseteq known'[n]
    BY <1>1 DEF IInv, Quiet
  <2>2. due'[n] \subseteq due[n] /\ tried[n] \subseteq tried'[n] /\ a \notin due'[n]
    BY <1>0, <1>1 DEF HistInv
  <2>3. \A b \in due'[n] : sub'[b] = sub[b]
    BY <1>0, <1>2, <2>2 DEF HistInv
  <2> QED
    BY <2>1, <2>2, <2>3, Frame
<1>6. EnabledKnown'
  BY <1>0, <1>1, <1>2 DEF EnabledKnown, Enabled
<1>7. OnlySubscribersReached' /\ LiveStayEnabled'
  BY <1>0, <1>1, <1>2 DEF IInv, OnlySubscribersReached, LiveStayEnabled
<1>8. DeadAreDropped'
  <2>1. DeadAreDropped /\ \A t \in refused : t.address \in Addresses
    BY <1>0 DEF IInv, TypeInv, Targets
  <2> QED
    BY <1>1, <1>2, <2>1 DEF DeadAreDropped, Enabled, Quiet
<1> QED
  BY <1>3, <1>4, <1>5, <1>6, <1>7, <1>8 DEF IInv

LEMMA ExpireStep ==
    ASSUME IInv, NEW a \in Addresses, Expire(a)
    PROVE  IInv'
<1>0. TypeInv /\ HistInv /\ Ahead /\ EnabledKnown /\ LiveStayEnabled
  BY DEF IInv
<1>1. /\ dead' = dead \cup {a}
      /\ UNCHANGED <<sub, nextId, published, run, heard, due, known, tried, refused, requests, faults>>
  BY DEF Expire
<1>2. TypeInv' /\ HistInv' /\ Ahead' /\ EnabledKnown'
  BY <1>0, <1>1 DEF TypeInv, HistInv, Ahead, EnabledKnown, Enabled
<1>3. \A n \in Reports, ch \in Channels : RunOK(n, ch)'
  <2> SUFFICES ASSUME NEW n \in Reports, NEW ch \in Channels PROVE RunOK(n, ch)'
    OBVIOUS
  <2>1. RunOK(n, ch)
    BY DEF IInv
  <2> QED
    BY <1>1, <2>1, Frame DEF Quiet
<1>4. OnlySubscribersReached' /\ LiveStayEnabled' /\ DeadAreDropped'
  BY <1>1 DEF IInv, OnlySubscribersReached, LiveStayEnabled, DeadAreDropped, Enabled, Quiet
<1> QED
  BY <1>2, <1>3, <1>4 DEF IInv

-----------------------------------------------------------------------------
(* An announcement and the steps of its runs.                              *)

LEMMA AnnounceStep ==
    ASSUME IInv, NEW p \in Announcers, NEW inside \in BOOLEAN, Announce(p, inside)
    PROVE  IInv'
<1> DEFINE n == published + 1
           due1 == {a \in Addresses : /\ Enabled(a)
                                      /\ Covers(sub[a].zone, inside)
                                      /\ p \in KeysIn[Channel(a)]}
           new == [ch \in Channels |-> Started(p, inside, ch)]
<1>0. TypeInv /\ HistInv /\ Ahead /\ EnabledKnown /\ LiveStayEnabled
  BY DEF IInv
<1>1. /\ n \in Reports /\ published \in Nat
      /\ published' = n
      /\ run' = [run EXCEPT ![n] = new]
      /\ heard' = [heard EXCEPT ![n] = {c \in Clients : GatewayOf[c] = p}]
      /\ due' = [due EXCEPT ![n] = due1]
      /\ known' = [known EXCEPT ![n] = {a \in Addresses : Enabled(a)}]
      /\ UNCHANGED <<sub, nextId, dead, tried, refused, requests, faults>>
  BY <1>0 DEF Announce, TypeInv
<1>2. new \in [Channels -> Runs]
  BY DEF Started, Runs, Steps
<1>3. \A ch \in Channels : /\ new[ch].left = {} /\ new[ch].drops = {} /\ new[ch].strays = {}
                           /\ new[ch].inside = inside
                           /\ new[ch].step = IF p \in KeysIn[ch] THEN "find" ELSE "over"
  BY DEF Started
<1> HIDE DEF new
<1>4. /\ run'[n] = new /\ due'[n] = due1 /\ known'[n] = {a \in Addresses : Enabled(a)}
      /\ \A m \in Reports : m # n => /\ run'[m] = run[m] /\ due'[m] = due[m]
                                     /\ known'[m] = known[m]
  BY <1>0, <1>1 DEF TypeInv, HistInv
<1>5. TypeInv'
  <2>1. run' \in [Reports -> [Channels -> Runs \cup {NoRun}]]
    BY <1>0, <1>1, <1>2 DEF TypeInv
  <2> QED
    BY <1>0, <1>1, <2>1 DEF TypeInv
<1>6. HistInv'
  BY <1>0, <1>1 DEF HistInv
<1>7. Ahead'
  <2>1. \A ch \in Channels : new[ch] # NoRun
    BY <1>2 DEF Runs, NoRun
  <2> QED
    BY <1>0, <1>1, <1>4, <2>1 DEF Ahead
<1>8. EnabledKnown'
  BY <1>0, <1>1, <1>4 DEF EnabledKnown, Enabled
<1>9. \A m \in Reports, ch \in Channels : RunOK(m, ch)'
  <2> SUFFICES ASSUME NEW m \in Reports, NEW ch \in Channels PROVE RunOK(m, ch)'
    OBVIOUS
  <2>1. CASE m # n
    <3>1. RunOK(m, ch) /\ tried' = tried /\ sub' = sub /\ dead' = dead /\ faults' = faults
      BY <1>1 DEF IInv
    <3> QED
      BY <1>4, <2>1, <3>1, Frame DEF Quiet
  <2>2. CASE m = n
    <3>1. \A a \in due'[m] : Channel(a) = ch => Owes(m, ch, a)'
      BY <1>1, <1>3, <1>4, <2>2 DEF Owes, Enabled
    <3> QED
      BY <1>3, <1>4, <2>2, <3>1 DEF RunOK
  <2> QED
    BY <2>1, <2>2
<1>10. OnlySubscribersReached'
  <2>1. tried[n] = {}
    BY <1>0, <1>1 DEF Ahead
  <2> QED
    BY <1>1, <1>4, <2>1 DEF IInv, OnlySubscribersReached
<1>11. LiveStayEnabled'
  BY <1>0, <1>1 DEF LiveStayEnabled
<1>12. DeadAreDropped'
  <2>1. DeadAreDropped
    BY DEF IInv
  <2>2. \A m \in 1..published : m \in Reports /\ m # n /\ m \in 1..published'
    BY <1>0, <1>1 DEF TypeInv
  <2> QED
    BY <1>1, <1>4, <2>1, <2>2 DEF DeadAreDropped, Enabled, Quiet
<1> QED
  BY <1>5, <1>6, <1>7, <1>8, <1>9, <1>10, <1>11, <1>12 DEF IInv

(* What a step of one run leaves as it is.                                 *)
LEMMA RunMoves ==
    ASSUME IInv, NEW n \in Reports, n <= published, NEW ch \in Channels, NEW new \in Runs,
           Only(n, ch, new), RunOK(n, ch)', HistInv', known' = known, Quiet' => Quiet,
           \A m \in Reports : /\ due'[m] \subseteq due[m]
                              /\ tried[m] \subseteq tried'[m]
                              /\ m # n => tried'[m] = tried[m]
                              /\ \A a \in due'[m] : sub'[a] = sub[a]
    PROVE  /\ run' \in [Reports -> [Channels -> Runs \cup {NoRun}]]
           /\ run'[n][ch] = new
           /\ \A m \in Reports, c \in Channels : m # n \/ c # ch => run'[m][c] = run[m][c]
           /\ Ahead'
           /\ \A m \in Reports, c \in Channels : RunOK(m, c)'
<1>0. TypeInv /\ HistInv /\ Ahead /\ dead' = dead /\ published' = published
  BY DEF IInv, Only
<1>1. /\ run' \in [Reports -> [Channels -> Runs \cup {NoRun}]]
      /\ run'[n][ch] = new
      /\ \A m \in Reports, c \in Channels : m # n \/ c # ch => run'[m][c] = run[m][c]
  BY <1>0, OneRun
<1>2. Ahead'
  <2>1. new # NoRun
    BY DEF Runs, NoRun
  <2>2. \A m \in Reports : m > published => m # n /\ due[m] = {} /\ tried[m] = {}
    BY <1>0 DEF Ahead, TypeInv
  <2>3. \A m \in Reports : m > published' => due'[m] = {} /\ tried'[m] = {}
    BY <1>0, <2>2
  <2>4. \A m \in Reports, c \in Channels : run'[m][c] = NoRun <=> m > published'
    <3> SUFFICES ASSUME NEW m \in Reports, NEW c \in Channels
                 PROVE  run'[m][c] = NoRun <=> m > published'
      OBVIOUS
    <3>1. CASE m = n /\ c = ch
      BY <1>0, <1>1, <2>1, <3>1 DEF TypeInv
    <3>2. CASE m # n \/ c # ch
      BY <1>0, <1>1, <3>2 DEF Ahead
    <3> QED
      BY <3>1, <3>2
  <2> QED
    BY <2>3, <2>4 DEF Ahead
<1>3. ASSUME NEW m \in Reports, NEW c \in Channels PROVE RunOK(m, c)'
  <2>1. CASE m = n /\ c = ch
    BY <2>1
  <2>2. CASE m # n \/ c # ch
    <3>1. RunOK(m, c) /\ run'[m][c] = run[m][c] /\ dead \subseteq dead' /\ known[m] \subseteq known'[m]
      BY <1>0, <1>1, <2>2 DEF IInv
    <3> QED
      BY <3>1, Frame
  <2> QED
    BY <2>1, <2>2
<1> QED
  BY <1>1, <1>2, <1>3

LEMMA FindStep ==
    ASSUME IInv, NEW n \in Reports, n <= published, NEW ch \in Channels, Find(n, ch)
    PROVE  IInv'
<1> DEFINE this  == run[n][ch]
           found == {a \in Listed(ch) : Covers(sub[a].zone, this.inside)}
           left  == {[id |-> sub[a].id, address |-> a] : a \in found}
           new   == [this EXCEPT !.step = "send", !.left = left]
<1>0. /\ TypeInv /\ HistInv /\ Ahead /\ EnabledKnown /\ LiveStayEnabled
      /\ this \in Runs /\ this # NoRun /\ RunOK(n, ch) /\ this.step = "find"
  BY RunType DEF IInv, Find, At
<1>1. Only(n, ch, new) /\ UNCHANGED <<sub, due, known, tried, refused, faults>>
  BY DEF Find
<1>2. \A a \in found : a \in Addresses /\ Channel(a) = ch /\ Enabled(a) /\ sub[a] \in Subs
  BY <1>0 DEF Listed, Enabled, TypeInv
<1>3. left \subseteq Targets
  BY <1>2 DEF Targets, Subs
<1>4. /\ new \in Runs /\ new.step = "send" /\ new.left = left /\ new.drops = this.drops
      /\ new.strays = this.strays /\ new.inside = this.inside
  BY <1>0, <1>3 DEF Runs, Steps
<1>5. \A t \in left : Channel(t.address) = ch /\ t.address \in known[n]
  BY <1>0, <1>2 DEF EnabledKnown
<1>6. \A a \in due[n] : Channel(a) = ch => \E t \in left : t.address = a
  <2> SUFFICES ASSUME NEW a \in due[n], Channel(a) = ch PROVE \E t \in left : t.address = a
    OBVIOUS
  <2>1. Owes(n, ch, a) /\ a \in Addresses
    BY <1>0 DEF RunOK, HistInv
  <2>2. a \in found
    BY <1>0, <2>1 DEF Owes, Listed
  <2>3. [id |-> sub[a].id, address |-> a] \in left
    BY <2>2
  <2> QED
    BY <2>3
<1> HIDE DEF new, left
<1>7. run'[n][ch] = new /\ dead' = dead /\ published' = published
  <2>1. run'[n][ch] = new
    BY <1>0, <1>1, <1>4, OneRun
  <2>2. dead' = dead /\ published' = published
    BY <1>1 DEF Only
  <2> QED
    BY <2>1, <2>2
<1>8. RunOK(n, ch)'
  <2>1. \A a \in due'[n] : Channel(a) = ch => Owes(n, ch, a)'
    BY <1>1, <1>4, <1>6, <1>7 DEF Owes
  <2> QED
    BY <1>0, <1>1, <1>4, <1>5, <1>7, <2>1 DEF RunOK
<1>9. HistInv'
  BY <1>0, <1>1 DEF HistInv, Only
<1>10. /\ run' \in [Reports -> [Channels -> Runs \cup {NoRun}]]
       /\ Ahead' /\ \A m \in Reports, c \in Channels : RunOK(m, c)'
       /\ \A m \in Reports, c \in Channels : m # n \/ c # ch => run'[m][c] = run[m][c]
  BY <1>1, <1>4, <1>8, <1>9, RunMoves DEF Quiet
<1>11. TypeInv' /\ EnabledKnown'
  BY <1>0, <1>1, <1>10 DEF TypeInv, EnabledKnown, Enabled, Only
<1>12. OnlySubscribersReached' /\ LiveStayEnabled'
  BY <1>0, <1>1, <1>7 DEF IInv, OnlySubscribersReached, LiveStayEnabled
<1>13. DeadAreDropped'
  <2>1. DeadAreDropped /\ \A t \in refused : Channel(t.address) \in Channels
    BY DEF IInv, Channel
  <2>2. \A m \in 1..published, c \in Channels : run'[m][c].drops = run[m][c].drops
    BY <1>0, <1>4, <1>7, <1>10 DEF TypeInv
  <2> QED
    BY <1>1, <1>7, <2>1, <2>2 DEF DeadAreDropped, Enabled, Quiet
<1> QED
  BY <1>8, <1>9, <1>10, <1>11, <1>12, <1>13 DEF IInv

LEMMA FinishStep ==
    ASSUME IInv, NEW n \in Reports, n <= published, NEW ch \in Channels, Finish(n, ch)
    PROVE  IInv'
<1> DEFINE this == run[n][ch]
           new  == [this EXCEPT !.step = "over"]
<1>0. /\ TypeInv /\ HistInv /\ Ahead /\ EnabledKnown /\ LiveStayEnabled
      /\ this \in Runs /\ this # NoRun /\ RunOK(n, ch) /\ this.step = "send" /\ this.left = {}
  BY RunType DEF IInv, Finish, At
<1>1. Only(n, ch, new) /\ UNCHANGED <<sub, due, known, tried, refused, faults>>
  BY DEF Finish
<1>2. /\ new \in Runs /\ new.step = "over" /\ new.left = {} /\ new.drops = this.drops
      /\ new.strays = this.strays /\ new.inside = this.inside
  BY <1>0 DEF Runs, Steps
<1> HIDE DEF new
<1>3. run'[n][ch] = new /\ dead' = dead /\ published' = published
  <2>1. run'[n][ch] = new
    BY <1>0, <1>1, <1>2, OneRun
  <2>2. dead' = dead /\ published' = published
    BY <1>1 DEF Only
  <2> QED
    BY <2>1, <2>2
<1>4. RunOK(n, ch)'
  <2>1. \A a \in due'[n] : Channel(a) = ch => Owes(n, ch, a)'
    BY <1>0, <1>1, <1>2, <1>3 DEF Owes, RunOK, Quiet
  <2> QED
    BY <1>0, <1>1, <1>2, <1>3, <2>1 DEF RunOK
<1>5. HistInv'
  BY <1>0, <1>1 DEF HistInv, Only
<1>6. /\ run' \in [Reports -> [Channels -> Runs \cup {NoRun}]]
      /\ Ahead' /\ \A m \in Reports, c \in Channels : RunOK(m, c)'
      /\ \A m \in Reports, c \in Channels : m # n \/ c # ch => run'[m][c] = run[m][c]
  BY <1>1, <1>2, <1>4, <1>5, RunMoves DEF Quiet
<1>7. TypeInv' /\ EnabledKnown'
  BY <1>0, <1>1, <1>6 DEF TypeInv, EnabledKnown, Enabled, Only
<1>8. OnlySubscribersReached' /\ LiveStayEnabled'
  BY <1>0, <1>1, <1>3 DEF IInv, OnlySubscribersReached, LiveStayEnabled
<1>9. DeadAreDropped'
  <2>1. DeadAreDropped /\ \A t \in refused : Channel(t.address) \in Channels
    BY DEF IInv, Channel
  <2>2. \A m \in 1..published, c \in Channels : run'[m][c].drops = run[m][c].drops
    BY <1>0, <1>2, <1>3, <1>6 DEF TypeInv
  <2> QED
    BY <1>1, <1>3, <2>1, <2>2 DEF DeadAreDropped, Enabled, Quiet
<1> QED
  BY <1>4, <1>5, <1>6, <1>7, <1>8, <1>9 DEF IInv

(* Sends, of one message or of a batch: B are the targets, gone those that *)
(* are answered as dead.                                                   *)
LEMMA SentStep ==
    ASSUME IInv, NEW n \in Reports, n <= published, NEW ch \in Channels,
           NEW B \in SUBSET run[n][ch].left, NEW gone \in SUBSET B, NEW new \in Runs,
           \A t \in gone : t.address \in dead, ch = "web" => \A t, u \in gone : t = u,
           run[n][ch].step = "send", new.step = IF gone = {} THEN "send" ELSE "drop",
           new.left = run[n][ch].left \ B, new.drops = gone, new.strays = run[n][ch].strays,
           new.inside = run[n][ch].inside,
           Only(n, ch, new),
           tried' = [tried EXCEPT ![n] = @ \cup {t.address : t \in B}],
           refused' = refused \cup gone,
           UNCHANGED <<sub, due, known, faults>>
    PROVE  IInv'
<1> DEFINE this == run[n][ch]
<1>0. /\ TypeInv /\ HistInv /\ Ahead /\ EnabledKnown /\ LiveStayEnabled
      /\ this \in Runs /\ this # NoRun /\ RunOK(n, ch) /\ OnlySubscribersReached
  BY RunType DEF IInv
<1>1. B \subseteq Targets /\ gone \subseteq Targets
  BY <1>0 DEF Runs
<1>2. /\ tried'[n] = tried[n] \cup {t.address : t \in B}
      /\ \A m \in Reports : m # n => tried'[m] = tried[m]
      /\ tried' \in [Reports -> SUBSET Addresses]
  BY <1>0, <1>1 DEF HistInv, Targets
<1>3. run'[n][ch] = new /\ dead' = dead /\ published' = published
  <2>1. run'[n][ch] = new
    BY <1>0, OneRun
  <2>2. dead' = dead /\ published' = published
    BY DEF Only
  <2> QED
    BY <2>1, <2>2
<1>4. RunOK(n, ch)'
  <2>1. ASSUME NEW a \in due'[n], Channel(a) = ch PROVE Owes(n, ch, a)'
    <3>1. Owes(n, ch, a)
      BY <1>0, <2>1 DEF RunOK
    <3>2. (ch = "web" \/ Quiet) => a \in tried'[n] \/ \E t \in this.left \ B : t.address = a
      BY <1>2, <3>1 DEF Owes
    <3>3. Quiet' = Quiet
      BY DEF Quiet
    <3> QED
      BY <1>3, <3>2, <3>3 DEF Owes
  <2>2. \A t \in new.left \cup new.drops \cup new.strays : Channel(t.address) = ch
    BY <1>0 DEF RunOK
  <2>3. \A t \in new.drops \cup new.strays : t.address \in dead
    BY <1>0 DEF RunOK
  <2>4. \A t \in new.left : t.address \in known[n]
    BY <1>0 DEF RunOK
  <2> QED
    BY <1>3, <2>1, <2>2, <2>3, <2>4 DEF RunOK
<1>5. HistInv'
  BY <1>0, <1>2 DEF HistInv, Only
<1>6. /\ run' \in [Reports -> [Channels -> Runs \cup {NoRun}]]
      /\ Ahead' /\ \A m \in Reports, c \in Channels : RunOK(m, c)'
      /\ \A m \in Reports, c \in Channels : m # n \/ c # ch => run'[m][c] = run[m][c]
  <2>1. Quiet' => Quiet
    BY DEF Quiet
  <2>2. \A m \in Reports : /\ due'[m] \subseteq due[m]
                           /\ tried[m] \subseteq tried'[m]
                           /\ m # n => tried'[m] = tried[m]
                           /\ \A a \in due'[m] : sub'[a] = sub[a]
    BY <1>2
  <2> QED
    BY <1>4, <1>5, <2>1, <2>2, RunMoves
<1>7. TypeInv' /\ EnabledKnown'
  BY <1>0, <1>1, <1>6 DEF TypeInv, EnabledKnown, Enabled, Only
<1>8. OnlySubscribersReached' /\ LiveStayEnabled'
  <2>1. {t.address : t \in B} \subseteq known[n]
    BY <1>0 DEF RunOK
  <2> QED
    BY <1>0, <1>2, <1>3, <2>1 DEF OnlySubscribersReached, LiveStayEnabled
<1>9. DeadAreDropped'
  <2>1. DeadAreDropped /\ \A t \in refused : Channel(t.address) \in Channels
    BY DEF IInv, Channel
  <2>2. this.drops = {}
    BY <1>0 DEF RunOK
  <2>3. \A m \in 1..published, c \in Channels :
            run[m][c].drops \subseteq run'[m][c].drops
    BY <1>0, <1>3, <1>6, <2>2 DEF TypeInv
  <2>4. \A t \in gone : Channel(t.address) = ch /\ t \in run'[n][ch].drops
    BY <1>0, <1>3 DEF RunOK
  <2>5. n \in 1..published
    BY <1>0 DEF TypeInv
  <2> QED
    BY <1>3, <2>1, <2>3, <2>4, <2>5 DEF DeadAreDropped, Enabled, Quiet
<1> QED
  BY <1>4, <1>5, <1>6, <1>7, <1>8, <1>9 DEF IInv

LEMMA SendStep ==
    ASSUME IInv, NEW n \in Reports, n <= published, NEW t \in run[n]["web"].left, Send(n, t)
    PROVE  IInv'
<1> DEFINE this == run[n]["web"]
<1>0. this \in Runs /\ this.step = "send" /\ t \in Targets /\ RunOK(n, "web") /\ this # NoRun
  <2>1. "web" \in Channels
    OBVIOUS
  <2>2. this \in Runs /\ this # NoRun /\ RunOK(n, "web")
    BY <2>1, RunType DEF IInv
  <2> QED
    BY <2>2 DEF Runs, Send, Sent, At
<1>1. /\ tried' = [tried EXCEPT ![n] = @ \cup {u.address : u \in {t}}]
      /\ UNCHANGED <<sub, due, known, faults>>
  BY DEF Send, Sent
<1>2. CASE Only(n, "web", Passed(n, t)) /\ refused' = refused
  <2> DEFINE new == Passed(n, t)
  <2>1. /\ new \in Runs /\ new.step = "send" /\ new.left = this.left \ {t} /\ new.drops = this.drops
        /\ new.strays = this.strays /\ new.inside = this.inside
    BY <1>0 DEF Passed, Runs
  <2>2. this.drops = {}
    BY <1>0 DEF RunOK
  <2>3. Only(n, "web", new) /\ refused' = refused \cup {}
    BY <1>2
  <2> HIDE DEF new
  <2> QED
    BY <1>0, <1>1, <2>1, <2>2, <2>3, SentStep
<1>3. CASE t.address \in dead /\ Only(n, "web", Gone(n, t)) /\ refused' = refused \cup {t}
  <2> DEFINE new == Gone(n, t)
  <2>1. /\ new \in Runs /\ new.step = "drop" /\ new.left = this.left \ {t} /\ new.drops = {t}
        /\ new.strays = this.strays /\ new.inside = this.inside
    BY <1>0 DEF Gone, Runs, Steps
  <2>2. Only(n, "web", new)
    BY <1>3
  <2> HIDE DEF new
  <2> QED
    BY <1>0, <1>1, <1>3, <2>1, <2>2, SentStep
<1> QED
  BY <1>2, <1>3 DEF Send, Sent

LEMMA MulticastStep ==
    ASSUME IInv, NEW n \in Reports, n <= published, NEW B \in SUBSET run[n]["mobile"].left,
           NEW gone \in SUBSET B, Multicast(n, B, gone)
    PROVE  IInv'
<1> DEFINE this == run[n]["mobile"]
           new  == [this EXCEPT !.step = IF gone = {} THEN "send" ELSE "drop",
                                !.left = this.left \ B, !.drops = gone]
<1>0. "mobile" \in Channels /\ this \in Runs /\ this.step = "send"
  <2>1. "mobile" \in Channels
    OBVIOUS
  <2>2. this \in Runs
    BY <2>1, RunType DEF IInv
  <2> QED
    BY <2>2 DEF Multicast, Batch, At
<1>1. gone \subseteq Targets
  BY <1>0 DEF Runs
<1>2. /\ new \in Runs /\ new.step = IF gone = {} THEN "send" ELSE "drop"
      /\ new.left = this.left \ B /\ new.drops = gone
      /\ new.strays = this.strays /\ new.inside = this.inside
  BY <1>0, <1>1 DEF Runs, Steps
<1>3. /\ Only(n, "mobile", new)
      /\ tried' = [tried EXCEPT ![n] = @ \cup {t.address : t \in B}]
      /\ refused' = refused \cup gone
      /\ UNCHANGED <<sub, due, known, faults>>
      /\ \A t \in gone : t.address \in dead
  BY DEF Multicast
<1> HIDE DEF new
<1> QED
  BY <1>0, <1>2, <1>3, SentStep

(* Drops, and what goes wrong with the phones: rows of dead addresses are  *)
(* disabled or deleted, or a fault leaves them.                            *)
LEMMA DroppedStep ==
    ASSUME IInv, NEW n \in Reports, n <= published, NEW ch \in Channels, NEW new \in Runs,
           Only(n, ch, new),
           sub' \in [Addresses -> Subs \cup {NoSub}],
           \A a \in Addresses : \/ sub'[a] = sub[a]
                                \/ /\ a \in dead /\ ~Enabled(a)'
                                   /\ sub'[a] = NoSub \/ sub'[a].id = sub[a].id,
           due' \in [Reports -> SUBSET Addresses],
           \A m \in Reports : due'[m] \subseteq due[m] /\ \A a \in due'[m] : sub'[a] = sub[a],
           new.left \subseteq run[n][ch].left,
           new.left = run[n][ch].left \/ (ch = "mobile" /\ ~Quiet'),
           new.drops \subseteq run[n][ch].drops,
           new.strays \subseteq run[n][ch].drops \cup run[n][ch].strays,
           new.inside = run[n][ch].inside,
           new.step = run[n][ch].step \/ (run[n][ch].step = "drop" /\ new.step = "send"),
           new.step = "drop" <=> new.drops # {},
           \A t \in run[n][ch].drops \ new.drops :
               ~Quiet' \/ ~Enabled(t.address)' \/ sub'[t.address].id # t.id,
           faults' \in 0..MaxFaults, Quiet' => Quiet,
           UNCHANGED <<known, tried, refused>>
    PROVE  IInv'
<1> DEFINE this == run[n][ch]
<1>0. /\ TypeInv /\ HistInv /\ Ahead /\ EnabledKnown /\ LiveStayEnabled
      /\ this \in Runs /\ this # NoRun /\ RunOK(n, ch) /\ OnlySubscribersReached
  BY RunType DEF IInv
<1>1. run'[n][ch] = new
  BY <1>0, OneRun
<1>2. UNCHANGED <<dead, nextId, published, heard, requests>>
  BY DEF Only
<1>3. RunOK(n, ch)'
  <2>1. ASSUME NEW a \in due'[n], Channel(a) = ch PROVE Owes(n, ch, a)'
    <3>1. a \in due[n] /\ sub'[a] = sub[a] /\ tried' = tried
      BY <2>1
    <3>2. Owes(n, ch, a)
      BY <1>0, <2>1, <3>1 DEF RunOK
    <3>3. CASE ch = "mobile" /\ ~Quiet'
      BY <1>1, <3>1, <3>2, <3>3 DEF Owes, Enabled
    <3>4. CASE new.left = run[n][ch].left
      BY <1>1, <3>1, <3>2, <3>4 DEF Owes, Enabled
    <3> QED
      BY <3>3, <3>4
  <2>2. \A t \in new.left \cup new.drops \cup new.strays :
            t \in this.left \cup this.drops \cup this.strays
    OBVIOUS
  <2>3. \A t \in new.left \cup new.drops \cup new.strays : Channel(t.address) = ch
    BY <1>0, <2>2 DEF RunOK
  <2>4. \A t \in new.drops \cup new.strays : t.address \in dead
    BY <1>0 DEF RunOK
  <2>5. \A t \in new.left : t.address \in known[n]
    BY <1>0 DEF RunOK
  <2>6. ch = "web" => \A t, u \in new.drops : t = u
    BY <1>0 DEF RunOK
  <2> QED
    BY <1>1, <1>2, <2>1, <2>3, <2>4, <2>5, <2>6 DEF RunOK
<1>4. HistInv'
  BY <1>0, <1>2 DEF HistInv
<1>5. /\ run' \in [Reports -> [Channels -> Runs \cup {NoRun}]]
      /\ Ahead' /\ \A m \in Reports, c \in Channels : RunOK(m, c)'
      /\ \A m \in Reports, c \in Channels : m # n \/ c # ch => run'[m][c] = run[m][c]
  <2>1. \A m \in Reports : /\ due'[m] \subseteq due[m]
                           /\ tried[m] \subseteq tried'[m]
                           /\ m # n => tried'[m] = tried[m]
                           /\ \A a \in due'[m] : sub'[a] = sub[a]
    OBVIOUS
  <2> QED
    BY <1>3, <1>4, <2>1, RunMoves
<1>6. TypeInv'
  <2>1. \A a \in Addresses : sub'[a] = NoSub \/ sub'[a].id = sub[a].id
    OBVIOUS
  <2>2. \A a \in Addresses : sub'[a].id < nextId
    BY <1>0, <2>1 DEF TypeInv, NoSub
  <2>3. \A a, b \in Addresses : sub'[a].id = sub'[b].id /\ sub'[a] # NoSub => a = b
    <3> SUFFICES ASSUME NEW a \in Addresses, NEW b \in Addresses,
                        sub'[a].id = sub'[b].id, sub'[a] # NoSub
                 PROVE  a = b
      OBVIOUS
    <3>1. sub'[a].id # 0 /\ sub'[a].id = sub[a].id
      BY <2>1 DEF Subs
    <3>2. sub'[b] # NoSub
      <4>1. NoSub.id = 0
        BY DEF NoSub
      <4>2. sub'[b].id # 0
        BY <3>1
      <4> QED
        BY ONLY <4>1, <4>2
    <3>3. sub[b].id = sub[a].id
      BY <2>1, <3>1, <3>2
    <3>4. sub[a] # NoSub
      BY <3>1 DEF NoSub
    <3> QED
      BY <1>0, <3>3, <3>4 DEF TypeInv
  <2> QED
    BY <1>0, <1>2, <1>5, <2>2, <2>3 DEF TypeInv
<1>7. EnabledKnown'
  BY <1>0, <1>2 DEF EnabledKnown, Enabled
<1>8. OnlySubscribersReached' /\ LiveStayEnabled'
  BY <1>0, <1>2 DEF OnlySubscribersReached, LiveStayEnabled
<1>9. DeadAreDropped'
  <2> SUFFICES ASSUME Quiet', NEW t \in refused, Enabled(t.address)', sub'[t.address].id = t.id
               PROVE  \E m \in 1..published : t \in run'[m][Channel(t.address)].drops
    BY <1>2 DEF DeadAreDropped
  <2>1. t.address \in Addresses /\ Channel(t.address) \in Channels
    BY <1>0 DEF TypeInv, Targets, Channel
  <2>2. sub'[t.address] = sub[t.address] /\ Enabled(t.address)
    BY <2>1 DEF Enabled
  <2>3. PICK m \in 1..published : t \in run[m][Channel(t.address)].drops
    BY <2>2 DEF IInv, DeadAreDropped
  <2>4. m \in Reports
    BY <1>0 DEF TypeInv
  <2>5. CASE m = n /\ Channel(t.address) = ch
    BY <1>1, <2>3, <2>5
  <2>6. CASE m # n \/ Channel(t.address) # ch
    BY <1>5, <2>1, <2>3, <2>4, <2>6
  <2> QED
    BY <2>5, <2>6
<1> QED
  BY <1>4, <1>5, <1>6, <1>7, <1>8, <1>9 DEF IInv

LEMMA Faulty ==
    ASSUME TypeInv, Fault
    PROVE  ~Quiet' /\ faults' \in 0..MaxFaults
  BY DEF TypeInv, Fault, Quiet

LEMMA MulticastFailsStep ==
    ASSUME IInv, NEW n \in Reports, n <= published, NEW B \in SUBSET run[n]["mobile"].left,
           MulticastFails(n, B)
    PROVE  IInv'
<1> DEFINE this == run[n]["mobile"]
           new  == [this EXCEPT !.left = this.left \ B]
<1>0. "mobile" \in Channels /\ this \in Runs /\ TypeInv /\ HistInv /\ RunOK(n, "mobile") /\ this # NoRun
  <2>1. "mobile" \in Channels
    OBVIOUS
  <2> QED
    BY <2>1, RunType DEF IInv
<1>1. /\ new \in Runs /\ new.step = this.step /\ new.left \subseteq this.left
      /\ new.drops = this.drops /\ new.strays = this.strays /\ new.inside = this.inside
  BY <1>0 DEF Runs
<1>2. Only(n, "mobile", new) /\ UNCHANGED <<sub, due, known, tried, refused>> /\ Fault
  BY DEF MulticastFails
<1> HIDE DEF new
<1>3. ~Quiet' /\ faults' \in 0..MaxFaults
  BY <1>0, <1>2, Faulty
<1>4. new.step = "drop" <=> new.drops # {}
  BY <1>0, <1>1 DEF RunOK
<1>5. sub' \in [Addresses -> Subs \cup {NoSub}] /\ due' \in [Reports -> SUBSET Addresses]
  BY <1>0, <1>2 DEF TypeInv, HistInv
<1> QED
  BY <1>0, <1>1, <1>2, <1>3, <1>4, <1>5, DroppedStep

LEMMA DeleteFailsStep ==
    ASSUME IInv, NEW n \in Reports, n <= published,
           NEW t \in run[n]["mobile"].drops \cup run[n]["mobile"].strays, DeleteFails(n, t)
    PROVE  IInv'
<1> DEFINE this == run[n]["mobile"]
           left == IF t \in this.drops THEN {} ELSE this.drops
           new  == [this EXCEPT
                       !.step   = IF At(n, "mobile", "drop") /\ left = {} THEN "send" ELSE this.step,
                       !.drops  = left,
                       !.strays = (this.strays \cup (this.drops \ left)) \ {t}]
<1>0. "mobile" \in Channels /\ this \in Runs /\ TypeInv /\ HistInv /\ RunOK(n, "mobile") /\ this # NoRun
  <2>1. "mobile" \in Channels
    OBVIOUS
  <2> QED
    BY <2>1, RunType DEF IInv
<1>1. /\ new \in Runs /\ new.left = this.left /\ new.drops = left /\ new.inside = this.inside
      /\ new.strays = (this.strays \cup (this.drops \ left)) \ {t}
      /\ new.step = IF this.step = "drop" /\ left = {} THEN "send" ELSE this.step
  BY <1>0 DEF Runs, Steps, At
<1>2. Only(n, "mobile", new) /\ UNCHANGED <<sub, due, known, tried, refused>> /\ Fault
  BY DEF DeleteFails
<1> HIDE DEF new
<1>3. ~Quiet' /\ faults' \in 0..MaxFaults
  BY <1>0, <1>2, Faulty
<1>4. new.step = "drop" <=> new.drops # {}
  BY <1>0, <1>1 DEF RunOK
<1>5. sub' \in [Addresses -> Subs \cup {NoSub}] /\ due' \in [Reports -> SUBSET Addresses]
  BY <1>0, <1>2 DEF TypeInv, HistInv
<1>6. /\ new.drops \subseteq this.drops /\ new.strays \subseteq this.drops \cup this.strays
      /\ new.step = this.step \/ (this.step = "drop" /\ new.step = "send")
  BY <1>1
<1> QED
  BY <1>0, <1>1, <1>2, <1>3, <1>4, <1>5, <1>6, DroppedStep

LEMMA DeleteStep ==
    ASSUME IInv, NEW n \in Reports, n <= published,
           NEW t \in run[n]["mobile"].drops \cup run[n]["mobile"].strays, Delete(n, t)
    PROVE  IInv'
<1> DEFINE this == run[n]["mobile"]
           new  == Joined(n, t)
<1>0. "mobile" \in Channels /\ this \in Runs /\ TypeInv /\ HistInv /\ RunOK(n, "mobile") /\ this # NoRun
  <2>1. "mobile" \in Channels
    OBVIOUS
  <2> QED
    BY <2>1, RunType DEF IInv
<1>1. /\ new \in Runs /\ new.left = this.left /\ new.drops = this.drops \ {t}
      /\ new.inside = this.inside /\ new.strays = this.strays \ {t}
      /\ new.step = IF this.step = "drop" /\ this.drops \ {t} = {} THEN "send" ELSE this.step
  BY <1>0 DEF Joined, Runs, Steps, At
<1>2. /\ Only(n, "mobile", new)
      /\ sub' = [sub EXCEPT ![t.address] = NoSub]
      /\ due' = [k \in Reports |-> due[k] \ {t.address}]
      /\ UNCHANGED <<known, tried, refused, faults>>
  BY DEF Delete
<1> HIDE DEF new
<1>3. t.address \in dead /\ t.address \in Addresses
  BY <1>0 DEF RunOK, TypeInv
<1>4. /\ sub' \in [Addresses -> Subs \cup {NoSub}] /\ due' \in [Reports -> SUBSET Addresses]
      /\ sub'[t.address] = NoSub /\ \A a \in Addresses : a # t.address => sub'[a] = sub[a]
      /\ ~Enabled(t.address)'
  BY <1>0, <1>2, <1>3 DEF TypeInv, HistInv, Enabled
<1>5. \A m \in Reports : due'[m] \subseteq due[m] /\ \A a \in due'[m] : sub'[a] = sub[a]
  BY <1>0, <1>2, <1>4 DEF HistInv
<1>6. /\ new.step = "drop" <=> new.drops # {}
      /\ new.drops \subseteq this.drops /\ new.strays \subseteq this.drops \cup this.strays
      /\ new.step = this.step \/ (this.step = "drop" /\ new.step = "send")
  BY <1>0, <1>1 DEF RunOK
<1>7. /\ \A u \in this.drops \ new.drops : ~Enabled(u.address)'
      /\ \A a \in Addresses : sub'[a] = sub[a] \/ (a \in dead /\ ~Enabled(a)' /\ sub'[a] = NoSub)
      /\ faults' \in 0..MaxFaults /\ (Quiet' => Quiet)
  BY <1>0, <1>1, <1>2, <1>3, <1>4 DEF TypeInv, Quiet
<1> QED
  BY <1>0, <1>1, <1>2, <1>4, <1>5, <1>6, <1>7, DroppedStep

LEMMA DisableStep ==
    ASSUME IInv, NEW n \in Reports, n <= published, NEW t \in run[n]["web"].drops, Disable(n, t)
    PROVE  IInv'
<1> DEFINE this == run[n]["web"]
           new  == [this EXCEPT !.step = "send", !.drops = {}]
           a    == t.address
<1>0. "web" \in Channels /\ this \in Runs /\ TypeInv /\ HistInv /\ RunOK(n, "web") /\ this # NoRun
  <2>1. "web" \in Channels
    OBVIOUS
  <2> QED
    BY <2>1, RunType DEF IInv
<1>1. /\ new \in Runs /\ new.left = this.left /\ new.drops = {} /\ new.step = "send"
      /\ new.inside = this.inside /\ new.strays = this.strays
  BY <1>0 DEF Runs, Steps
<1>2. /\ Only(n, "web", new) /\ this.step = "drop"
      /\ IF sub[a].id = t.id
         THEN /\ sub' = [sub EXCEPT ![a].enabled = FALSE]
              /\ due' = [k \in Reports |-> due[k] \ {a}]
         ELSE UNCHANGED <<sub, due>>
      /\ UNCHANGED <<known, tried, refused, faults>>
  BY DEF Disable, At
<1> HIDE DEF new
<1>3. a \in dead /\ a \in Addresses /\ t \in Targets /\ \A u \in this.drops : u = t
  <2>1. t \in Targets
    BY <1>0 DEF Runs
  <2> QED
    BY <1>0, <2>1 DEF RunOK, TypeInv, Targets
<1>4. faults' \in 0..MaxFaults /\ (Quiet' => Quiet)
  BY <1>0, <1>2 DEF TypeInv, Quiet
<1>5. CASE sub[a].id = t.id
  <2>1. sub[a] # NoSub /\ sub[a] \in Subs
    BY <1>0, <1>3, <1>5 DEF TypeInv, NoSub, Targets
  <2> DEFINE off == [sub[a] EXCEPT !.enabled = FALSE]
  <2>2. off \in Subs /\ off.enabled = FALSE /\ off.id = sub[a].id
    BY <2>1 DEF Subs
  <2>3. sub' = [sub EXCEPT ![a] = off]
    BY <1>2, <1>5
  <2> HIDE DEF off
  <2>4. /\ sub' \in [Addresses -> Subs \cup {NoSub}]
        /\ sub'[a] = off /\ \A b \in Addresses : b # a => sub'[b] = sub[b]
    BY <1>0, <1>3, <2>2, <2>3 DEF TypeInv
  <2>5. due' \in [Reports -> SUBSET Addresses] /\ ~Enabled(a)'
    BY <1>0, <1>2, <1>5, <2>2, <2>4 DEF HistInv, Enabled
  <2>6. \A m \in Reports : due'[m] \subseteq due[m] /\ \A b \in due'[m] : sub'[b] = sub[b]
    BY <1>0, <1>2, <1>5, <2>4 DEF HistInv
  <2>7. \A b \in Addresses : \/ sub'[b] = sub[b]
                             \/ b \in dead /\ ~Enabled(b)' /\ sub'[b].id = sub[b].id
    BY <1>3, <2>2, <2>4, <2>5
  <2> QED
    BY <1>0, <1>1, <1>2, <1>3, <1>4, <2>4, <2>5, <2>6, <2>7, DroppedStep
<1>6. CASE sub[a].id # t.id
  <2>1. UNCHANGED <<sub, due>>
    BY <1>2, <1>6
  <2>2. sub' \in [Addresses -> Subs \cup {NoSub}] /\ due' \in [Reports -> SUBSET Addresses]
    BY <1>0, <2>1 DEF TypeInv, HistInv
  <2>3. \A u \in this.drops : sub'[u.address].id # u.id
    BY <1>3, <1>6, <2>1
  <2> QED
    BY <1>0, <1>1, <1>2, <1>4, <2>1, <2>2, <2>3, DroppedStep
<1> QED
  BY <1>5, <1>6

LEMMA CrashStep ==
    ASSUME IInv, NEW p \in Processes, Crash(p)
    PROVE  IInv'
<1> DEFINE hit(n, ch) == run[n][ch] # NoRun /\ run[n][ch].in = p
           fallen(n, ch) ==
               [run[n][ch] EXCEPT !.step  = IF At(n, ch, "over") THEN "over" ELSE "died",
                                  !.left  = {},
                                  !.drops = {}, !.strays = {}]
<1>0. TypeInv /\ HistInv /\ Ahead /\ EnabledKnown /\ LiveStayEnabled /\ OnlySubscribersReached
  BY DEF IInv
<1>1. /\ run' = [n \in Reports |-> [ch \in Channels |->
                    IF hit(n, ch) THEN fallen(n, ch) ELSE run[n][ch]]]
      /\ UNCHANGED <<sub, nextId, dead, refused, requests, published, heard, due, known, tried>>
      /\ Fault
  BY DEF Crash
<1>2. ~Quiet' /\ faults' \in 0..MaxFaults
  BY <1>0, <1>1, Faulty
<1>3. ASSUME NEW n \in Reports, NEW ch \in Channels, hit(n, ch)
      PROVE  /\ fallen(n, ch) \in Runs /\ fallen(n, ch) # NoRun
             /\ fallen(n, ch).left = {} /\ fallen(n, ch).drops = {} /\ fallen(n, ch).strays = {}
             /\ fallen(n, ch).step = IF run[n][ch].step = "over" THEN "over" ELSE "died"
  <2>1. run[n][ch] \in Runs
    BY <1>0, <1>3 DEF TypeInv
  <2>2. fallen(n, ch) \in Runs
    BY <2>1 DEF Runs, Steps, At
  <2> QED
    BY <2>1, <2>2 DEF Runs, NoRun, At
<1> HIDE DEF fallen
<1>4. run' \in [Reports -> [Channels -> Runs \cup {NoRun}]]
  BY <1>0, <1>1, <1>3 DEF TypeInv
<1>5. TypeInv' /\ HistInv'
  BY <1>0, <1>1, <1>2, <1>4 DEF TypeInv, HistInv
<1>6. Ahead'
  BY <1>0, <1>1, <1>3 DEF Ahead
<1>7. EnabledKnown' /\ LiveStayEnabled' /\ OnlySubscribersReached'
  BY <1>0, <1>1 DEF EnabledKnown, Enabled, LiveStayEnabled, OnlySubscribersReached
<1>8. DeadAreDropped'
  BY <1>2 DEF DeadAreDropped
<1>9. \A n \in Reports, ch \in Channels : RunOK(n, ch)'
  <2> SUFFICES ASSUME NEW n \in Reports, NEW ch \in Channels PROVE RunOK(n, ch)'
    OBVIOUS
  <2>1. RunOK(n, ch)
    BY DEF IInv
  <2>2. CASE ~hit(n, ch)
    <3>1. run'[n][ch] = run[n][ch]
      BY <1>1, <2>2
    <3> QED
      BY <1>1, <1>2, <2>1, <3>1, Frame
  <2>3. CASE hit(n, ch)
    <3>1. run'[n][ch] = fallen(n, ch)
      BY <1>1, <2>3
    <3>2. /\ run'[n][ch].left = {} /\ run'[n][ch].drops = {} /\ run'[n][ch].strays = {}
          /\ run'[n][ch].step = IF run[n][ch].step = "over" THEN "over" ELSE "died"
      BY <1>3, <2>3, <3>1
    <3>3. \A a \in due'[n] : Channel(a) = ch => Owes(n, ch, a)'
      <4> SUFFICES ASSUME NEW a \in due'[n], Channel(a) = ch PROVE Owes(n, ch, a)'
        OBVIOUS
      <4>1. Owes(n, ch, a)
        BY <1>1, <2>1, <2>3 DEF RunOK
      <4> QED
        BY <1>1, <1>2, <3>2, <4>1 DEF Owes
    <3> QED
      BY <3>2, <3>3 DEF RunOK
  <2> QED
    BY <2>2, <2>3
<1> QED
  BY <1>5, <1>6, <1>7, <1>8, <1>9 DEF IInv

-----------------------------------------------------------------------------
LEMMA NextIInv == IInv /\ [Next]_vars => IInv'
<1> SUFFICES ASSUME IInv, [Next]_vars PROVE IInv'
  OBVIOUS
<1>1. ASSUME NEW a \in Addresses, Unsubscribe(a) \/ Expire(a) \/ \E zone \in Zones : Subscribe(a, zone)
      PROVE  IInv'
  BY <1>1, SubscribeStep, UnsubscribeStep, ExpireStep
<1>2. ASSUME NEW p \in Announcers, NEW inside \in BOOLEAN, Announce(p, inside)
      PROVE  IInv'
  BY <1>2, AnnounceStep
<1>3. ASSUME NEW p \in Processes, Crash(p) PROVE IInv'
  BY <1>3, CrashStep
<1>4. ASSUME NEW n \in 1..published, RunFaults(n) PROVE IInv'
  <2>1. n \in Reports /\ n <= published
    BY DEF IInv, TypeInv
  <2> QED
    BY <1>4, <2>1, MulticastFailsStep, DeleteFailsStep DEF RunFaults
<1>5. ASSUME NEW n \in 1..published, NEW ch \in Channels, RunStep(n, ch) PROVE IInv'
  <2>1. n \in Reports /\ n <= published
    BY DEF IInv, TypeInv
  <2>2. CASE Find(n, ch) \/ Finish(n, ch)
    BY <2>1, <2>2, FindStep, FinishStep
  <2>3. ASSUME ch = "web", NEW t \in run[n]["web"].left, Send(n, t) PROVE IInv'
    BY <2>1, <2>3, SendStep
  <2>4. ASSUME ch = "web", NEW t \in run[n]["web"].drops, Disable(n, t) PROVE IInv'
    BY <2>1, <2>4, DisableStep
  <2>5. ASSUME ch = "mobile", NEW B \in SUBSET run[n]["mobile"].left, NEW gone \in SUBSET B,
               Multicast(n, B, gone)
        PROVE  IInv'
    BY <2>1, <2>5, MulticastStep
  <2>6. ASSUME ch = "mobile", NEW t \in run[n]["mobile"].drops \cup run[n]["mobile"].strays,
               Delete(n, t)
        PROVE  IInv'
    BY <2>1, <2>6, DeleteStep
  <2> QED
    BY <1>5, <2>2, <2>3, <2>4, <2>5, <2>6 DEF RunStep
<1>6. CASE UNCHANGED vars
  <2>1. \A n \in Reports, ch \in Channels : RunOK(n, ch) => RunOK(n, ch)'
    BY <1>6, Frame DEF vars, Quiet
  <2> QED
    BY <1>6, <2>1 DEF vars, IInv, TypeInv, HistInv, Ahead, EnabledKnown, Enabled,
                      OnlySubscribersReached, LiveStayEnabled, DeadAreDropped, Quiet
<1> QED
  BY <1>1, <1>2, <1>3, <1>4, <1>5, <1>6 DEF Next

LEMMA Invariant == Spec => []IInv
  BY InitIInv, NextIInv, PTL DEF Spec

(* Every state has the type it should have: row ids stay distinct,         *)
(* whatever is subscribed, deleted and created anew.                       *)
THEOREM TypeCorrect == Spec => []TypeOK
<1>1. IInv => TypeOK
  BY DEF IInv, TypeInv, HistInv, TypeOK
<1> QED
  BY <1>1, Invariant, PTL

(* An announcement that has been sent out reached everyone who was due it  *)
(* and still is: notifyForReport of both services.                         *)
THEOREM ReachedCorrect == Spec => []EveryoneReached
<1>1. IInv => EveryoneReached
  <2> SUFFICES ASSUME IInv, NEW n \in Reports, NEW ch \in Channels, At(n, ch, "over"),
                      ch = "web" \/ Quiet, NEW a \in due[n], Channel(a) = ch
               PROVE  a \in tried[n]
    BY DEF EveryoneReached
  <2>1. run[n][ch] # NoRun /\ RunOK(n, ch)
    BY DEF At, NoRun, IInv
  <2> QED
    BY <2>1 DEF RunOK, Owes, At
<1> QED
  BY <1>1, Invariant, PTL

(* Nobody is told who was not subscribed.                                  *)
THEOREM SubscribersCorrect == Spec => []OnlySubscribersReached
<1>1. IInv => OnlySubscribersReached
  BY DEF IInv
<1> QED
  BY <1>1, Invariant, PTL

(* Only addresses that their push service has given up are disabled.       *)
THEOREM LiveCorrect == Spec => []LiveStayEnabled
<1>1. IInv => LiveStayEnabled
  BY DEF IInv
<1> QED
  BY <1>1, Invariant, PTL

(* As long as nothing fails, an address answered as dead is dropped.       *)
THEOREM DeadCorrect == Spec => []DeadAreDropped
<1>1. IInv => DeadAreDropped
  BY DEF IInv
<1> QED
  BY <1>1, Invariant, PTL
=============================================================================
