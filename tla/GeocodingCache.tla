--------------------------- MODULE GeocodingCache ---------------------------
(***************************************************************************)
(* The coordinates of a place: the tables geocoding_cache and              *)
(* location_aliases, the lookup of an enrichment cycle                     *)
(* (src/src/geocoding/geocoding.service.ts), its verification by           *)
(* confidence and by votes, and the administrators                         *)
(* (src/src/admin).  One action per SQL statement that matters here; the   *)
(* counting of hits does not.  A text with a phrase of the built-in table  *)
(* never gets this far, so Texts are those without one.                    *)
(***************************************************************************)
EXTENDS Integers, FiniteSets

CONSTANTS
    Texts,          \* normalized location texts
    Pollers,        \* processes with an enrichment poller
    AutoVerify,     \* GEO_AUTO_VERIFY_ENABLED
    MaxRows         \* bound: rows ever inserted

VARIABLES
    cache,          \* geocoding_cache, by id
    made,           \* rows inserted so far
    aliases,        \* texts with a row in location_aliases
    work,           \* what a poller is doing with the cache
    confirmed,      \* history: texts whose coordinates an administrator confirmed
    answers         \* history: answers of Google stored since a text has had a row

vars == <<cache, made, aliases, work, confirmed, answers>>

Ids  == 1..MaxRows
Rows == [text: Texts, fix: {"google", "admin"}, partial: BOOLEAN, verified: BOOLEAN]
NoRow == [text |-> "none"]

Idle == [step |-> "idle"]
Works == [step: {"lookup", "ask", "verify"}, text: Texts]
    \cup [step: {"promote"}, ids: SUBSET Ids]

ASSUME GeocodingAssumption ==
    /\ AutoVerify \in BOOLEAN
    /\ MaxRows \in Nat
    /\ IsFiniteSet(Pollers)
    /\ "none" \notin Texts

TypeOK ==
    /\ cache     \in [Ids -> Rows \cup {NoRow}]
    /\ made      \in 0..MaxRows
    /\ aliases   \subseteq Texts
    /\ work      \in [Pollers -> Works \cup {Idle}]
    /\ confirmed \subseteq Texts
    /\ answers   \in [Texts -> Nat]
    /\ \A i, j \in Ids : cache[i] # NoRow /\ cache[i].text = cache[j].text => i = j

Init ==
    /\ cache     = [i \in Ids |-> NoRow]
    /\ made      = 0
    /\ aliases   = {}
    /\ work      = [p \in Pollers |-> Idle]
    /\ confirmed = {}
    /\ answers   = [t \in Texts |-> 0]

Live(i)    == cache[i] # NoRow
RowsOf(t)  == {i \in Ids : Live(i) /\ cache[i].text = t}
Asking(t)  == {p \in Pollers : work[p].step = "ask" /\ work[p].text = t}

Becomes(p, w) == work' = [work EXCEPT ![p] = w]
Write(i, new) == cache' = [cache EXCEPT ![i] = new] /\ UNCHANGED made

\* INSERT ... ON CONFLICT (normalized_text) DO UPDATE, which leaves some columns
\* as they are.
Upsert(t, new, kept) ==
    \/ /\ RowsOf(t) = {}
       /\ made < MaxRows
       /\ made' = made + 1
       /\ cache' = [cache EXCEPT ![made + 1] = new]
    \/ \E i \in RowsOf(t) :
          Write(i, [new EXCEPT
                      !.verified = IF "verified" \in kept THEN cache[i].verified ELSE new.verified,
                      !.partial  = IF "partial" \in kept THEN cache[i].partial ELSE new.partial])

Googles(t, partial) == [text |-> t, fix |-> "google", partial |-> partial, verified |-> FALSE]
Admins(t)           == [text |-> t, fix |-> "admin", partial |-> FALSE, verified |-> TRUE]

-----------------------------------------------------------------------------
(* An enrichment cycle. *)

\* geocodeLocation up to findAlias, which ends it when there is one.
FindAlias(p, t) ==
    /\ work[p] = Idle
    /\ t \notin aliases
    /\ Becomes(p, [step |-> "lookup", text |-> t])
    /\ UNCHANGED <<cache, made, aliases, confirmed, answers>>

\* What enrichEvent does next with a result from Google, new or cached: it
\* verifies full matches of extractions that are confident enough.
Then(p, t, partial, sure) ==
    Becomes(p, IF AutoVerify /\ ~partial /\ sure THEN [step |-> "verify", text |-> t] ELSE Idle)

\* Mutated form of FindCached: only verified rows are answers.
FindCachedVerified(p) ==
    LET t == work[p].text
    IN  /\ work[p].step = "lookup"
        /\ IF \A i \in RowsOf(t) : ~cache[i].verified
           THEN Becomes(p, [step |-> "ask", text |-> t])
           ELSE Becomes(p, Idle)
        /\ UNCHANGED <<cache, made, aliases, confirmed, answers>>

\* findCached.  Of a verified row the source is "cache", not "google".
FindCached(p) ==
    LET t == work[p].text
    IN  /\ work[p].step = "lookup"
        /\ \/ /\ RowsOf(t) = {}
              /\ Becomes(p, [step |-> "ask", text |-> t])
           \/ \E i \in RowsOf(t), sure \in BOOLEAN :
                 Then(p, t, cache[i].partial, sure /\ ~cache[i].verified)
        /\ UNCHANGED <<cache, made, aliases, confirmed, answers>>

\* geocodeWithGoogle with an answer, and upsertCache.  Different texts with one
\* normalized form may get different answers.
SaveAnswer(p, partial, sure) ==
    LET t == work[p].text
    IN  /\ work[p].step = "ask"
        /\ Upsert(t, Googles(t, partial), {"verified"})
        /\ answers' = [answers EXCEPT ![t] = answers[t] + 1]
        /\ Then(p, t, partial, sure)
        /\ UNCHANGED <<aliases, confirmed>>

\* markAsVerified: by text, whatever its row has become.
MarkAsVerified(p) ==
    /\ work[p].step = "verify"
    /\ \/ \E i \in RowsOf(work[p].text) : Write(i, [cache[i] EXCEPT !.verified = TRUE])
       \/ RowsOf(work[p].text) = {} /\ UNCHANGED <<cache, made>>
    /\ Becomes(p, Idle)
    /\ UNCHANGED <<aliases, confirmed, answers>>

\* promoteVerifiedLocations, its two SELECTs: the unverified rows whose text the
\* votes favour.  Any votes are possible.
ReadVotes(p, S) ==
    /\ work[p] = Idle
    /\ S # {}
    /\ \A i \in S : Live(i) /\ ~cache[i].verified
    /\ Becomes(p, [step |-> "promote", ids |-> S])
    /\ UNCHANGED <<cache, made, aliases, confirmed, answers>>

\* Its UPDATE, by id.
Promote(p) ==
    /\ work[p].step = "promote"
    /\ cache' = [i \in Ids |-> IF i \in work[p].ids /\ Live(i)
                               THEN [cache[i] EXCEPT !.verified = TRUE] ELSE cache[i]]
    /\ Becomes(p, Idle)
    /\ UNCHANGED <<made, aliases, confirmed, answers>>

\* GEO_ENABLED is off, Google has no answer, a statement throws, or a crash.
BreakOff(p) ==
    /\ work[p] # Idle
    /\ Becomes(p, Idle)
    /\ UNCHANGED <<cache, made, aliases, confirmed, answers>>

-----------------------------------------------------------------------------
(* Administrators. *)

\* A confirmation counts as such until an administrator changes the row; not
\* when a poller is waiting for Google's answer on the text.
Confirmed(t) == confirmed' = IF Asking(t) = {} THEN confirmed \cup {t} ELSE confirmed \ {t}

\* Mutated form of ConfirmLocation: verified only in a new row.
ConfirmLocationNewOnly(t) ==
    /\ Upsert(t, Admins(t), {"verified"})
    /\ Confirmed(t)
    /\ UNCHANGED <<aliases, work, answers>>

\* confirmLocation, its upsert; the report it goes on to change is in Moderation.
ConfirmLocation(t) ==
    /\ Upsert(t, Admins(t), {})
    /\ Confirmed(t)
    /\ UNCHANGED <<aliases, work, answers>>

\* bulkConfirmLocation, for one of its texts: is_partial stays as it is.
BulkConfirmLocation(t) ==
    /\ Upsert(t, Admins(t), {"partial"})
    /\ Confirmed(t)
    /\ UNCHANGED <<aliases, work, answers>>

\* Where a row leaves or changes, its text has no answer and no confirmation.
Forget(gone, touched) ==
    /\ answers'   = [t \in Texts |-> IF t \in gone THEN 0 ELSE answers[t]]
    /\ confirmed' = confirmed \ touched

\* Mutated form of UpdateEntry: without a unique key on normalized_text.
UpdateEntryFreely(i, t, moved, verified) ==
    /\ Live(i)
    /\ Write(i, [cache[i] EXCEPT !.text = t, !.verified = verified,
                                 !.fix = IF moved THEN "admin" ELSE cache[i].fix])
    /\ Forget({cache[i].text} \ {t}, {cache[i].text, t})
    /\ UNCHANGED <<aliases, work>>

\* update of an entry, of any columns; another row's text is refused.
UpdateEntry(i, t, moved, verified) ==
    /\ Live(i)
    /\ RowsOf(t) \subseteq {i}
    /\ Write(i, [cache[i] EXCEPT !.text = t, !.verified = verified,
                                 !.fix = IF moved THEN "admin" ELSE cache[i].fix])
    /\ Forget({cache[i].text} \ {t}, {cache[i].text, t})
    /\ UNCHANGED <<aliases, work>>

DeleteEntry(i) ==
    /\ Live(i)
    /\ Write(i, NoRow)
    /\ Forget({cache[i].text}, {cache[i].text})
    /\ UNCHANGED <<aliases, work>>

\* create and delete of an alias; a second one of a text is refused.
CreateAlias(t) ==
    /\ t \notin aliases
    /\ aliases' = aliases \cup {t}
    /\ UNCHANGED <<cache, made, work, confirmed, answers>>

DeleteAlias(t) ==
    /\ t \in aliases
    /\ aliases' = aliases \ {t}
    /\ UNCHANGED <<cache, made, work, confirmed, answers>>

-----------------------------------------------------------------------------
Next ==
    \/ \E p \in Pollers :
          \/ \E t \in Texts : FindAlias(p, t)
          \/ \E partial, sure \in BOOLEAN : SaveAnswer(p, partial, sure)
          \/ \E S \in SUBSET Ids : ReadVotes(p, S)
          \/ FindCached(p) \/ MarkAsVerified(p) \/ Promote(p) \/ BreakOff(p)
    \/ \E t \in Texts :
          \/ ConfirmLocation(t) \/ BulkConfirmLocation(t)
          \/ CreateAlias(t) \/ DeleteAlias(t)
          \/ \E i \in Ids, moved, verified \in BOOLEAN : UpdateEntry(i, t, moved, verified)
    \/ \E i \in Ids : DeleteEntry(i)

Spec == Init /\ [][Next]_vars
-----------------------------------------------------------------------------
(* Properties. *)

(* Coordinates that an administrator confirmed are what a report with the  *)
(* text gets, as verified, until an administrator changes them: no answer  *)
(* of Google and no vote replaces them, however the pollers interleave.    *)
(* A request to Google that was under way at the confirmation may.         *)
ConfirmedStays ==
    \A t \in confirmed :
        /\ RowsOf(t) # {}
        /\ \A i \in RowsOf(t) : cache[i].verified /\ cache[i].fix = "admin"

(* Google is asked for a text until the first answer is stored, and after  *)
(* that only by pollers that were already at it: each stores at most one   *)
(* answer for as long as the text has its row.                             *)
AskedOncePerPoller ==
    \A t \in Texts : answers[t] <= Cardinality(Pollers)

=============================================================================
