---------------------------- MODULE Notifications ----------------------------
(***************************************************************************)
(* How a new report is told: the events of a process                       *)
(* (src/src/realtime/realtime.publisher.ts), the map clients connected to  *)
(* the gateway (src/src/main.ts), the browsers subscribed by web push      *)
(* (src/src/map/push-notifications.service.ts) and the phones registered   *)
(* for FCM (src/src/map/mobile-push.service.ts).  Every process runs both  *)
(* services and an event stays in the process that publishes it.  Each SQL *)
(* statement and each call to a push service is one action, and several    *)
(* announcements are sent out at once.                                     *)
(***************************************************************************)
EXTENDS Naturals, FiniteSets

CONSTANTS
    Browsers,       \* endpoints of map_push_subscriptions
    Phones,         \* tokens of mobile_push_tokens
    Zones,          \* what subscriptions cover: everything, or a circle
    Clients,        \* map clients that stay connected
    Processes,
    GatewayOf,      \* the process that serves a client: one that runs main.ts
    Announcers,     \* the processes that publish new_report: those that enrich
    KeysIn,         \* the processes that have keys, for each channel
    MulticastSize,  \* batchSize of notifyForReport
    MaxReports,     \* bound: announcements
    MaxRequests,    \* bound: (un)subscriptions
    MaxFaults       \* bound: processes that die, batches and deletions that fail

VARIABLES
    sub,            \* the row of each endpoint and token
    nextId,         \* row ids are not used again
    dead,           \* the addresses that their push service has given up
    published,      \* announcements so far
    run,            \* notifyForReport of each announcement, in each channel
    heard,          \* history: the clients that heard an announcement
    due,            \* history: covered by an announcement and unchanged since
    known,          \* history: enabled at some time since an announcement
    tried,          \* history: a message of an announcement was sent to
    refused,        \* history: rows answered as dead since last subscribed
    requests, faults

vars == <<sub, nextId, dead, published, run, heard, due, known, tried, refused, requests, faults>>

Addresses == Browsers \cup Phones
Reports   == 1..MaxReports
Channels  == {"web", "mobile"}
Channel(a) == IF a \in Browsers THEN "web" ELSE "mobile"

Subs    == [id: Nat \ {0}, enabled: BOOLEAN, zone: Zones]
NoSub   == [id |-> 0]
Targets == [id: Nat \ {0}, address: Addresses]

Steps == {"none", "find", "send", "drop", "over", "died"}
\* drops: what the run waits to have dropped; strays: deletions it no longer awaits.
Runs  == [step: Steps \ {"none"}, in: Processes, inside: BOOLEAN,
          left: SUBSET Targets, drops: SUBSET Targets, strays: SUBSET Targets]
NoRun == [step |-> "none"]

ASSUME NotificationsAssumption ==
    /\ Browsers \cap Phones = {}
    /\ IsFiniteSet(Browsers) /\ IsFiniteSet(Phones)
    /\ Zones \subseteq {"all", "circle"}
    /\ GatewayOf \in [Clients -> Processes]
    /\ Announcers \subseteq Processes
    /\ KeysIn \in [Channels -> SUBSET Processes]
    /\ MulticastSize \in Nat \ {0}
    /\ MaxReports \in Nat
    /\ MaxRequests \in Nat
    /\ MaxFaults \in Nat

TypeOK ==
    /\ sub       \in [Addresses -> Subs \cup {NoSub}]
    /\ nextId    \in Nat \ {0}
    /\ \A a \in Addresses : sub[a].id < nextId
    /\ \A a, b \in Addresses : sub[a].id = sub[b].id /\ sub[a] # NoSub => a = b
    /\ dead      \subseteq Addresses
    /\ published \in 0..MaxReports
    /\ run       \in [Reports -> [Channels -> Runs \cup {NoRun}]]
    /\ heard     \in [Reports -> SUBSET Clients]
    /\ due       \in [Reports -> SUBSET Addresses]
    /\ known     \in [Reports -> SUBSET Addresses]
    /\ tried     \in [Reports -> SUBSET Addresses]
    /\ refused   \subseteq Targets
    /\ requests  \in 0..MaxRequests
    /\ faults    \in 0..MaxFaults

Init ==
    /\ sub       = [a \in Addresses |-> NoSub]
    /\ nextId    = 1
    /\ dead      = {}
    /\ published = 0
    /\ run       = [n \in Reports |-> [ch \in Channels |-> NoRun]]
    /\ heard     = [n \in Reports |-> {}]
    /\ due       = [n \in Reports |-> {}]
    /\ known     = [n \in Reports |-> {}]
    /\ tried     = [n \in Reports |-> {}]
    /\ refused   = {}
    /\ requests  = 0
    /\ faults    = 0

Request == requests < MaxRequests /\ requests' = requests + 1
Fault   == faults < MaxFaults /\ faults' = faults + 1

Enabled(a) == sub[a] # NoSub /\ sub[a].enabled

-----------------------------------------------------------------------------
(* The controllers: whoever changes a subscription owes the announcements  *)
(* that are under way nothing more.                                        *)

Changed(a) ==
    /\ due'     = [n \in Reports |-> due[n] \ {a}]
    /\ refused' = {t \in refused : t.address # a}

\* subscribe, registerToken: ON CONFLICT (endpoint) DO UPDATE keeps the id.
Subscribe(a, zone) ==
    /\ sub' = [sub EXCEPT ![a] = [id      |-> IF sub[a] = NoSub THEN nextId ELSE sub[a].id,
                                  enabled |-> TRUE, zone |-> zone]]
    /\ nextId' = IF sub[a] = NoSub THEN nextId + 1 ELSE nextId
    /\ known' = [n \in Reports |-> IF n <= published THEN known[n] \cup {a} ELSE {}]
    /\ Changed(a)
    /\ Request
    /\ UNCHANGED <<dead, published, run, heard, tried, faults>>

\* unsubscribe, unregisterToken.
Unsubscribe(a) ==
    /\ sub[a] # NoSub
    /\ sub' = [sub EXCEPT ![a] = NoSub]
    /\ Changed(a)
    /\ Request
    /\ UNCHANGED <<nextId, dead, published, run, heard, known, tried, faults>>

\* The browser or the app gives an address up: its push service says so from now on.
Expire(a) ==
    /\ a \notin dead
    /\ dead' = dead \cup {a}
    /\ UNCHANGED <<sub, nextId, published, run, heard, due, known, tried, refused,
                   requests, faults>>

-----------------------------------------------------------------------------
(* One announcement: publish in process p, then notifyForReport.           *)

Covers(zone, inside) == zone = "all" \/ inside

\* A service without keys returns at once.
Started(p, inside, ch) ==
    [step  |-> IF p \in KeysIn[ch] THEN "find" ELSE "over", in |-> p, inside |-> inside,
     left  |-> {}, drops |-> {}, strays |-> {}]

\* inside: whether the report has coordinates, and they are in the circle.
Announce(p, inside) ==
    LET n == published + 1
    IN  /\ published < MaxReports
        /\ published' = n
        /\ run'   = [run EXCEPT ![n] = [ch \in Channels |-> Started(p, inside, ch)]]
        /\ heard' = [heard EXCEPT ![n] = {c \in Clients : GatewayOf[c] = p}]
        /\ due'   = [due EXCEPT ![n] = {a \in Addresses : /\ Enabled(a)
                                                          /\ Covers(sub[a].zone, inside)
                                                          /\ p \in KeysIn[Channel(a)]}]
        /\ known' = [known EXCEPT ![n] = {a \in Addresses : Enabled(a)}]
        /\ UNCHANGED <<sub, nextId, dead, tried, refused, requests, faults>>

At(n, ch, step) == run[n][ch].step = step

\* What follows is one run's: the others and the map clients stay.
Only(n, ch, new) ==
    /\ run' = [run EXCEPT ![n][ch] = new]
    /\ UNCHANGED <<dead, nextId, published, heard, requests>>

\* Mutated form of Listed: without enabled = TRUE.
ListedAll(ch) == {a \in Addresses : Channel(a) = ch /\ sub[a] # NoSub}

Listed(ch) == {a \in Addresses : Channel(a) = ch /\ Enabled(a)}

\* find, and isInZone on what it found.
Find(n, ch) ==
    LET found == {a \in Listed(ch) : Covers(sub[a].zone, run[n][ch].inside)}
    IN  /\ At(n, ch, "find")
        /\ Only(n, ch, [run[n][ch] EXCEPT
                           !.step = "send",
                           !.left = {[id |-> sub[a].id, address |-> a] : a \in found}])
        /\ UNCHANGED <<sub, due, known, tried, refused, faults>>

Finish(n, ch) ==
    /\ At(n, ch, "send")
    /\ run[n][ch].left = {}
    /\ Only(n, ch, [run[n][ch] EXCEPT !.step = "over"])
    /\ UNCHANGED <<sub, due, known, tried, refused, faults>>

(* Web push: one message after the other. *)

\* What is left of run n when the message to t is under way.
Sent(n, t, new) ==
    /\ At(n, "web", "send")
    /\ t \in run[n]["web"].left
    /\ tried' = [tried EXCEPT ![n] = @ \cup {t.address}]
    /\ Only(n, "web", new)

Passed(n, t) == [run[n]["web"] EXCEPT !.left = @ \ {t}]

\* Mutated form of Gone: 410 is an error like any other.
GoneIgnored(n, t) == Passed(n, t)

Gone(n, t) == [run[n]["web"] EXCEPT !.step = "drop", !.left = @ \ {t}, !.drops = {t}]

\* Mutated forms of Send: the first dead endpoint ends the loop; any error is
\* taken for a 410.
SendStops(n, t) ==
    \/ /\ Sent(n, t, Passed(n, t))
       /\ UNCHANGED <<sub, due, known, refused, faults>>
    \/ /\ t.address \in dead
       /\ Sent(n, t, [run[n]["web"] EXCEPT !.step = "drop", !.left = {}, !.drops = {t}])
       /\ refused' = refused \cup {t}
       /\ UNCHANGED <<sub, due, known, faults>>
SendGivesUp(n, t) ==
    /\ Sent(n, t, Gone(n, t))
    /\ UNCHANGED <<sub, due, known, refused, faults>>

\* sendNotification and its catch: 404 or 410 is an answer for a dead endpoint,
\* after any other error the loop goes on.
Send(n, t) ==
    \/ /\ Sent(n, t, Passed(n, t))
       /\ UNCHANGED <<sub, due, known, refused, faults>>
    \/ /\ t.address \in dead
       /\ Sent(n, t, Gone(n, t))
       /\ refused' = refused \cup {t}
       /\ UNCHANGED <<sub, due, known, faults>>

\* Mutated forms of Disable: the row is saved, which inserts one that has gone;
\* a row that has gone leaves the loop waiting.
DisableSaves(n, t) ==
    /\ At(n, "web", "drop")
    /\ t \in run[n]["web"].drops
    /\ sub' = [sub EXCEPT ![t.address] = [id |-> t.id, enabled |-> FALSE]]
    /\ due' = [k \in Reports |-> due[k] \ {t.address}]
    /\ Only(n, "web", [run[n]["web"] EXCEPT !.step = "send", !.drops = {}])
    /\ UNCHANGED <<known, tried, refused, faults>>
DisableWaits(n, t) ==
    /\ At(n, "web", "drop")
    /\ t \in run[n]["web"].drops
    /\ sub[t.address].id = t.id
    /\ sub' = [sub EXCEPT ![t.address].enabled = FALSE]
    /\ due' = [k \in Reports |-> due[k] \ {t.address}]
    /\ Only(n, "web", [run[n]["web"] EXCEPT !.step = "send", !.drops = {}])
    /\ UNCHANGED <<known, tried, refused, faults>>

\* update(subscription.id, { enabled: false }).
Disable(n, t) ==
    /\ At(n, "web", "drop")
    /\ t \in run[n]["web"].drops
    /\ IF sub[t.address].id = t.id
       THEN /\ sub' = [sub EXCEPT ![t.address].enabled = FALSE]
            /\ due' = [k \in Reports |-> due[k] \ {t.address}]
       ELSE UNCHANGED <<sub, due>>
    /\ Only(n, "web", [run[n]["web"] EXCEPT !.step = "send", !.drops = {}])
    /\ UNCHANGED <<known, tried, refused, faults>>

-----------------------------------------------------------------------------
(* FCM: batches; the tokens that a batch finds dead are deleted at once.   *)

\* slice(i, i + batchSize): which tokens come first is left open.
Batch(n, B) ==
    LET left == run[n]["mobile"].left
    IN  /\ At(n, "mobile", "send")
        /\ B # {}
        /\ B \subseteq left
        /\ Cardinality(B) <= MulticastSize
        /\ Cardinality(B) < MulticastSize => B = left

\* gone: the tokens that are answered as not registered or invalid.
Multicast(n, B, gone) ==
    /\ Batch(n, B)
    /\ gone \subseteq {t \in B : t.address \in dead}
    /\ tried'   = [tried EXCEPT ![n] = @ \cup {t.address : t \in B}]
    /\ refused' = refused \cup gone
    /\ Only(n, "mobile", [run[n]["mobile"] EXCEPT
                             !.step  = IF gone = {} THEN "send" ELSE "drop",
                             !.left  = @ \ B,
                             !.drops = gone])
    /\ UNCHANGED <<sub, due, known, faults>>

\* sendEachForMulticast throws: the next batch is sent all the same.
MulticastFails(n, B) ==
    /\ Batch(n, B)
    /\ Only(n, "mobile", [run[n]["mobile"] EXCEPT !.left = @ \ B])
    /\ Fault
    /\ UNCHANGED <<sub, due, known, tried, refused>>

\* Promise.all waits for the deletions of the batch.
Joined(n, t) ==
    LET rest == run[n]["mobile"].drops \ {t}
    IN  [run[n]["mobile"] EXCEPT
            !.step   = IF At(n, "mobile", "drop") /\ rest = {} THEN "send" ELSE @,
            !.drops  = rest,
            !.strays = @ \ {t}]

\* delete({ fcmToken }): by token, whichever row has it now.
Delete(n, t) ==
    /\ t \in run[n]["mobile"].drops \cup run[n]["mobile"].strays
    /\ sub' = [sub EXCEPT ![t.address] = NoSub]
    /\ due' = [k \in Reports |-> due[k] \ {t.address}]
    /\ Only(n, "mobile", Joined(n, t))
    /\ UNCHANGED <<known, tried, refused, faults>>

\* A deletion throws: Promise.all rejects and the next batch is sent, while the
\* other deletions go on.
DeleteFails(n, t) ==
    LET this == run[n]["mobile"]
        left == IF t \in this.drops THEN {} ELSE this.drops
    IN  /\ t \in this.drops \cup this.strays
        /\ Only(n, "mobile", [this EXCEPT
                                 !.step   = IF At(n, "mobile", "drop") /\ left = {} THEN "send" ELSE @,
                                 !.drops  = left,
                                 !.strays = (@ \cup (this.drops \ left)) \ {t}])
        /\ Fault
        /\ UNCHANGED <<sub, due, known, tried, refused>>

-----------------------------------------------------------------------------
\* A process dies: by itself, or because the find of a run or the update of a
\* web run throws, which nobody catches.
Crash(p) ==
    /\ Fault
    /\ run' = [n \in Reports |-> [ch \in Channels |->
                  IF run[n][ch] # NoRun /\ run[n][ch].in = p
                  THEN [run[n][ch] EXCEPT !.step  = IF At(n, ch, "over") THEN "over" ELSE "died",
                                          !.left  = {},
                                          !.drops = {}, !.strays = {}]
                  ELSE run[n][ch]]]
    /\ UNCHANGED <<sub, nextId, dead, refused, requests, published, heard, due, known, tried>>

RunStep(n, ch) ==
    \/ Find(n, ch)
    \/ Finish(n, ch)
    \/ /\ ch = "web"
       /\ \/ \E t \in run[n][ch].left : Send(n, t)
          \/ \E t \in run[n][ch].drops : Disable(n, t)
    \/ /\ ch = "mobile"
       /\ \/ \E B \in SUBSET run[n][ch].left :
                \E gone \in SUBSET B : Multicast(n, B, gone)
          \/ \E t \in run[n][ch].drops \cup run[n][ch].strays : Delete(n, t)

RunFaults(n) ==
    \/ \E B \in SUBSET run[n]["mobile"].left : MulticastFails(n, B)
    \/ \E t \in run[n]["mobile"].drops \cup run[n]["mobile"].strays : DeleteFails(n, t)

Next ==
    \/ \E a \in Addresses : \/ Unsubscribe(a) \/ Expire(a)
                            \/ \E zone \in Zones : Subscribe(a, zone)
    \/ \E p \in Announcers, inside \in BOOLEAN : Announce(p, inside)
    \/ \E n \in 1..published : RunFaults(n) \/ \E ch \in Channels : RunStep(n, ch)
    \/ \E p \in Processes : Crash(p)

Spec == Init /\ [][Next]_vars

\* The push services answer, or the connection to them breaks.
Fairness == \A n \in Reports, ch \in Channels :
                WF_vars(n <= published /\ RunStep(n, ch))

FairSpec == Spec /\ Fairness
-----------------------------------------------------------------------------
(* Properties. *)

Quiet == faults = 0

(* An announcement that has been sent out has reached everyone who was     *)
(* subscribed and covered when it was published and has been since: dead   *)
(* endpoints and errors of single sends stop nothing.  A failed multicast  *)
(* may skip a batch of phones.                                             *)
EveryoneReached ==
    \A n \in Reports, ch \in Channels :
        At(n, ch, "over") /\ (ch = "web" \/ Quiet)
        => \A a \in due[n] : Channel(a) = ch => a \in tried[n]

(* Nobody gets a report who was not subscribed (any more) when it was      *)
(* published and has not been since, whatever subscribing, disabling and   *)
(* deleting goes on between the query and the sends.                       *)
OnlySubscribersReached ==
    \A n \in Reports : tried[n] \subseteq known[n]

(* Who lives stays subscribed: an address is disabled only after its push  *)
(* service has given it up, not by another's 410 or an outage.             *)
LiveStayEnabled ==
    \A a \in Addresses \ dead : sub[a] # NoSub => sub[a].enabled

(* An address that has been answered as dead and not been subscribed anew  *)
(* is disabled or deleted, or a run is about to: of the announcements to   *)
(* come none goes there.                                                   *)
DeadAreDropped ==
    Quiet => \A t \in refused :
                Enabled(t.address) /\ sub[t.address].id = t.id
                => \E n \in 1..published : t \in run[n][Channel(t.address)].drops

(* Every announcement is sent out to the end, unless its process dies.     *)
RunsEnd ==
    \A n \in Reports, ch \in Channels :
        At(n, ch, "find") ~> run[n][ch].step \in {"over", "died"}

(* Whoever is connected to the map when a new report is published is told. *)
NewReportIsHeard ==
    \A n \in 1..published : heard[n] = Clients
=============================================================================
