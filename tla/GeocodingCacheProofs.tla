------------------------ MODULE GeocodingCacheProofs ------------------------
(***************************************************************************)
(* Theorems about GeocodingCache for any set of texts, any number of       *)
(* pollers and any number of rows, with automatic verification or without. *)
(***************************************************************************)
EXTENDS GeocodingCache, FiniteSetTheorems, TLAPS

\* An id is given to one row only.
Fresh == \A i \in Ids : i > made => cache[i] = NoRow

\* No poller waits for Google on a text that is confirmed.
NotAsked == \A t \in confirmed : Asking(t) = {}

\* The answers stored and those that may still come are of different pollers.
Budget ==
    \A t \in Texts :
        IF RowsOf(t) = {} THEN answers[t] = 0
                          ELSE answers[t] + Cardinality(Asking(t)) <= Cardinality(Pollers)

IInv == TypeOK /\ Fresh /\ NotAsked /\ ConfirmedStays /\ Budget

LEMMA NoRowText == NoRow.text \notin Texts /\ \A r \in Rows : r # NoRow
<1>1. NoRow.text \notin Texts BY GeocodingAssumption DEF GeocodingAssumption, NoRow
<1>2. \A r \in Rows : r.text \in Texts BY DEF Rows
<1> QED BY <1>1, <1>2

LEMMA AskingFinite ==
    ASSUME NEW t \in Texts
    PROVE  /\ IsFiniteSet(Asking(t)) /\ Cardinality(Asking(t)) \in Nat
           /\ Cardinality(Pollers) \in Nat /\ Cardinality(Asking(t)) <= Cardinality(Pollers)
<1>1. Asking(t) \in SUBSET Pollers BY DEF Asking
<1>2. IsFiniteSet(Pollers) BY GeocodingAssumption DEF GeocodingAssumption
<1> QED BY <1>1, <1>2, FS_Subset, FS_CardinalityType

\* A poller turns to something else.
LEMMA WorkStep ==
    ASSUME TypeOK, NEW p \in Pollers, NEW w \in Works \cup {Idle}, Becomes(p, w)
    PROVE  /\ work' \in [Pollers -> Works \cup {Idle}]
           /\ \A t \in Texts :
                 Asking(t)' = IF w.step = "ask" /\ w.text = t THEN Asking(t) \cup {p}
                                                              ELSE Asking(t) \ {p}
  BY DEF TypeOK, Becomes, Asking

\* A text that is not asked for by one more poller is asked for by no more.
LEMMA AskingLess ==
    ASSUME NEW t \in Texts, NEW p,
           Asking(t)' = Asking(t) \/ Asking(t)' = Asking(t) \ {p}
    PROVE  /\ Cardinality(Asking(t)') \in Nat
           /\ Cardinality(Asking(t)') <= Cardinality(Asking(t))
           /\ p \in Asking(t) /\ Asking(t)' = Asking(t) \ {p}
                => Cardinality(Asking(t)') = Cardinality(Asking(t)) - 1
<1>1. IsFiniteSet(Asking(t)) /\ Cardinality(Asking(t)) \in Nat BY AskingFinite
<1>2. /\ Cardinality(Asking(t) \ {p}) =
            IF p \in Asking(t) THEN Cardinality(Asking(t)) - 1 ELSE Cardinality(Asking(t))
      /\ Cardinality(Asking(t) \ {p}) \in Nat
  BY <1>1, FS_RemoveElement, FS_CardinalityType
<1> QED BY <1>1, <1>2

\* One row is written.
LEMMA RowStep ==
    ASSUME TypeOK, NEW i \in Ids, NEW new \in Rows \cup {NoRow}, cache' = [cache EXCEPT ![i] = new]
    PROVE  /\ cache' \in [Ids -> Rows \cup {NoRow}]
           /\ cache'[i] = new
           /\ \A j \in Ids \ {i} : cache'[j] = cache[j]
           /\ \A t \in Texts :
                 RowsOf(t)' = IF new.text = t THEN RowsOf(t) \cup {i} ELSE RowsOf(t) \ {i}
<1>1. /\ cache' \in [Ids -> Rows \cup {NoRow}]
      /\ cache'[i] = new
      /\ \A j \in Ids \ {i} : cache'[j] = cache[j]
  BY DEF TypeOK
<1>2. ASSUME NEW t \in Texts
      PROVE  RowsOf(t)' = IF new.text = t THEN RowsOf(t) \cup {i} ELSE RowsOf(t) \ {i}
  <2>1. RowsOf(t) = {j \in Ids : cache[j].text = t} BY NoRowText DEF RowsOf, Live
  <2>2. RowsOf(t)' = {j \in Ids : cache'[j].text = t} BY NoRowText DEF RowsOf, Live
  <2> QED BY <1>1, <2>1, <2>2
<1> QED BY <1>1, <1>2

Unique == \A i, j \in Ids : cache[i] # NoRow /\ cache[i].text = cache[j].text => i = j

LEMMA Upserted ==
    ASSUME TypeOK, Fresh, NEW t \in Texts, NEW new \in Rows, new.text = t, NEW kept,
           Upsert(t, new, kept)
    PROVE  /\ cache' \in [Ids -> Rows \cup {NoRow}] /\ made' \in 0..MaxRows
           /\ Unique' /\ Fresh'
           /\ \A s \in Texts \ {t} : RowsOf(s)' = RowsOf(s) /\ \A j \in RowsOf(s) : cache'[j] = cache[j]
           /\ RowsOf(t)' # {}
           /\ \A i \in RowsOf(t)' :
                 cache'[i].fix = new.fix /\ ("verified" \notin kept => cache'[i].verified = new.verified)
<1> DEFINE Result(i, row) ==
             /\ cache' = [cache EXCEPT ![i] = row] /\ row.text = t /\ row.fix = new.fix
             /\ "verified" \notin kept => row.verified = new.verified
             /\ RowsOf(t) \subseteq {i}
             /\ cache[i] = NoRow \/ i \in RowsOf(t)
             /\ i <= made' /\ made <= made' /\ made' \in 0..MaxRows
<1>0. MaxRows \in Nat /\ made \in 0..MaxRows BY GeocodingAssumption DEF GeocodingAssumption, TypeOK
<1>1. \E i \in Ids, row \in Rows : Result(i, row)
  <2>1. ASSUME RowsOf(t) = {}, made < MaxRows, made' = made + 1,
               cache' = [cache EXCEPT ![made + 1] = new]
        PROVE  \E i \in Ids, row \in Rows : Result(i, row)
    <3>1. made + 1 \in Ids BY <1>0, <2>1 DEF Ids
    <3>2. cache[made + 1] = NoRow BY <1>0, <3>1 DEF Fresh
    <3>3. Result(made + 1, new) BY <1>0, <2>1, <3>2
    <3> QED BY <3>1, <3>3
  <2>2. ASSUME NEW i \in RowsOf(t),
               Write(i, [new EXCEPT
                      !.verified = IF "verified" \in kept THEN cache[i].verified ELSE new.verified,
                      !.partial  = IF "partial" \in kept THEN cache[i].partial ELSE new.partial])
        PROVE  \E j \in Ids, row \in Rows : Result(j, row)
    <3>1. i \in Ids /\ cache[i] # NoRow /\ cache[i].text = t BY DEF RowsOf, Live
    <3>2. cache[i] \in Rows BY <3>1 DEF TypeOK
    <3> DEFINE v   == IF "verified" \in kept THEN cache[i].verified ELSE new.verified
               u   == IF "partial" \in kept THEN cache[i].partial ELSE new.partial
               row == [new EXCEPT !.verified = v, !.partial = u]
    <3>3. v \in BOOLEAN /\ u \in BOOLEAN /\ ("verified" \notin kept => v = new.verified)
      BY <3>2 DEF Rows
    <3>4. cache' = [cache EXCEPT ![i] = row] /\ made' = made BY <2>2 DEF Write
    <3> HIDE DEF v, u
    <3>5. row \in Rows /\ row.text = t /\ row.fix = new.fix /\ row.verified = v
      BY <3>3 DEF Rows
    <3> HIDE DEF row
    <3>6. RowsOf(t) \subseteq {i} BY <3>1 DEF TypeOK, RowsOf, Live
    <3>7. i <= made BY <1>0, <3>1 DEF Fresh, Ids
    <3>8. Result(i, row) BY <1>0, <3>3, <3>4, <3>5, <3>6, <3>7
    <3> QED BY <3>1, <3>5, <3>8
  <2> QED BY <2>1, <2>2 DEF Upsert
<1> HIDE DEF Result
<1>2. PICK i \in Ids, row \in Rows : Result(i, row) BY <1>1
<1>3. /\ cache' = [cache EXCEPT ![i] = row] /\ row.text = t /\ row.fix = new.fix
      /\ "verified" \notin kept => row.verified = new.verified
      /\ RowsOf(t) \subseteq {i}
      /\ cache[i] = NoRow \/ i \in RowsOf(t)
      /\ i <= made' /\ made <= made' /\ made' \in 0..MaxRows
  BY <1>2 DEF Result
<1>4. /\ cache' \in [Ids -> Rows \cup {NoRow}]
      /\ cache'[i] = row
      /\ \A j \in Ids \ {i} : cache'[j] = cache[j]
      /\ \A s \in Texts : RowsOf(s)' = IF row.text = s THEN RowsOf(s) \cup {i} ELSE RowsOf(s) \ {i}
  <2>1. row \in Rows \cup {NoRow} /\ cache' = [cache EXCEPT ![i] = row] BY <1>3
  <2> QED BY ONLY TypeOK, i \in Ids, <2>1, RowStep
<1>5. \A s \in Texts \ {t} : i \notin RowsOf(s)
  BY <1>3 DEF RowsOf, Live
<1>6. RowsOf(t)' = {i} BY <1>3, <1>4
<1>7. \A s \in Texts \ {t} : RowsOf(s)' = RowsOf(s) /\ \A j \in RowsOf(s) : cache'[j] = cache[j]
  <2> SUFFICES ASSUME NEW s \in Texts \ {t}
               PROVE  RowsOf(s)' = RowsOf(s) /\ \A j \in RowsOf(s) : cache'[j] = cache[j]
    OBVIOUS
  <2>1. RowsOf(s)' = RowsOf(s) \ {i} BY <1>3, <1>4
  <2>2. RowsOf(s) \ {i} = RowsOf(s) BY <1>5
  <2>3. RowsOf(s) \subseteq Ids \ {i} BY <1>5 DEF RowsOf
  <2> QED BY <1>4, <2>1, <2>2, <2>3
<1>8. Unique'
  <2>1. \A j \in Ids \ {i} : cache[j].text # t
    BY <1>3, NoRowText DEF RowsOf, Live
  <2> QED BY <1>3, <1>4, <2>1 DEF Unique, TypeOK
<1>9. Fresh'
  <2>0. Ids \subseteq Int BY DEF Ids
  <2> SUFFICES ASSUME NEW j \in Ids, j > made' PROVE cache'[j] = NoRow BY DEF Fresh
  <2>1. j # i /\ j > made BY <1>0, <1>3, <2>0
  <2> QED BY <1>4, <2>1 DEF Fresh
<1> QED BY <1>3, <1>4, <1>6, <1>7, <1>8, <1>9

LEMMA InitIInv == Init => IInv
<1> SUFFICES ASSUME Init PROVE IInv OBVIOUS
<1>1. TypeOK BY GeocodingAssumption, NoRowText DEF GeocodingAssumption, Init, TypeOK
<1>2. \A t \in Texts : RowsOf(t) = {} /\ answers[t] = 0 BY DEF Init, RowsOf, Live
<1> QED BY <1>1, <1>2 DEF Init, IInv, Fresh, NotAsked, ConfirmedStays, Budget

\* The budget of a text whose row, answers and waiting pollers are as before
\* or fewer.
LEMMA BudgetKept ==
    ASSUME IInv, NEW t \in Texts, NEW p,
           (RowsOf(t)' = {}) <=> (RowsOf(t) = {}), answers'[t] = answers[t],
           Asking(t)' = Asking(t) \/ Asking(t)' = Asking(t) \ {p}
    PROVE  IF RowsOf(t)' = {} THEN answers'[t] = 0
                              ELSE answers'[t] + Cardinality(Asking(t)') <= Cardinality(Pollers)
<1>1. answers[t] \in Nat BY DEF IInv, TypeOK
<1>2. IF RowsOf(t) = {} THEN answers[t] = 0
                        ELSE answers[t] + Cardinality(Asking(t)) <= Cardinality(Pollers)
  BY DEF IInv, Budget
<1>3. /\ Cardinality(Asking(t)) \in Nat /\ Cardinality(Pollers) \in Nat
      /\ Cardinality(Asking(t)') \in Nat
      /\ Cardinality(Asking(t)') <= Cardinality(Asking(t))
  BY AskingFinite, AskingLess
<1> QED BY <1>1, <1>2, <1>3

\* A poller goes on and writes nothing.
LEMMA LooksOnly ==
    ASSUME IInv, NEW p \in Pollers, NEW w \in Works \cup {Idle}, Becomes(p, w),
           w.step = "ask" => RowsOf(w.text) = {},
           UNCHANGED <<cache, made, aliases, confirmed, answers>>
    PROVE  IInv'
<1>1. TypeOK BY DEF IInv
<1>2. /\ work' \in [Pollers -> Works \cup {Idle}]
      /\ \A t \in Texts :
            Asking(t)' = IF w.step = "ask" /\ w.text = t THEN Asking(t) \cup {p} ELSE Asking(t) \ {p}
  BY <1>1, WorkStep
<1>3. \A t \in Texts : RowsOf(t)' = RowsOf(t) BY DEF RowsOf, Live
<1>4. TypeOK' BY <1>1, <1>2 DEF TypeOK
<1>5. Fresh' BY DEF IInv, Fresh
<1>6. ConfirmedStays' BY <1>1, <1>3 DEF IInv, ConfirmedStays, TypeOK
<1>7. NotAsked'
  <2> SUFFICES ASSUME NEW t \in confirmed PROVE Asking(t)' = {} BY DEF NotAsked
  <2>1. t \in Texts /\ RowsOf(t) # {} /\ Asking(t) = {} BY DEF IInv, TypeOK, ConfirmedStays, NotAsked
  <2> QED BY <1>2, <2>1
<1>8. Budget'
  <2> SUFFICES ASSUME NEW t \in Texts
               PROVE  IF RowsOf(t)' = {} THEN answers'[t] = 0
                      ELSE answers'[t] + Cardinality(Asking(t)') <= Cardinality(Pollers)
    BY DEF Budget
  <2>1. answers'[t] = answers[t] OBVIOUS
  <2>2. CASE RowsOf(t) = {} BY <1>3, <2>2 DEF IInv, Budget
  <2>3. CASE RowsOf(t) # {}
    <3>1. Asking(t)' = Asking(t) \ {p} BY <1>2, <2>3
    <3> QED BY <1>3, <2>1, <3>1, BudgetKept
  <2> QED BY <2>2, <2>3
<1> QED BY <1>4, <1>5, <1>6, <1>7, <1>8 DEF IInv

\* Rows become verified and stay what they are otherwise.
LEMMA VerifiesOnly ==
    ASSUME IInv, NEW p \in Pollers, Becomes(p, Idle),
           cache' \in [Ids -> Rows \cup {NoRow}],
           \A i \in Ids : /\ cache'[i] = NoRow <=> cache[i] = NoRow
                          /\ cache'[i].text = cache[i].text
                          /\ cache[i] # NoRow =>
                                /\ cache'[i].fix = cache[i].fix
                                /\ cache[i].verified => cache'[i].verified,
           UNCHANGED <<made, aliases, confirmed, answers>>
    PROVE  IInv'
<1>1. TypeOK BY DEF IInv
<1>2. /\ work' \in [Pollers -> Works \cup {Idle}]
      /\ \A t \in Texts : Asking(t)' = Asking(t) \ {p}
  <2>1. Idle.step # "ask" BY DEF Idle
  <2> QED BY <1>1, <2>1, WorkStep
<1>3. \A t \in Texts : RowsOf(t)' = RowsOf(t) BY DEF RowsOf, Live
<1>4. TypeOK' BY <1>1, <1>2 DEF TypeOK
<1>5. Fresh' BY DEF IInv, Fresh
<1>6. ConfirmedStays'
  <2> SUFFICES ASSUME NEW t \in confirmed
               PROVE  /\ RowsOf(t)' # {}
                      /\ \A i \in RowsOf(t)' : cache'[i].verified /\ cache'[i].fix = "admin"
    BY DEF ConfirmedStays
  <2>1. t \in Texts /\ RowsOf(t) # {} /\ \A i \in RowsOf(t) : cache[i].verified /\ cache[i].fix = "admin"
    BY DEF IInv, TypeOK, ConfirmedStays
  <2>2. \A i \in RowsOf(t) : i \in Ids /\ cache[i] # NoRow BY DEF RowsOf, Live
  <2> QED BY <1>3, <2>1, <2>2
<1>7. NotAsked' BY <1>1, <1>2 DEF IInv, NotAsked, TypeOK
<1>8. Budget'
  <2> SUFFICES ASSUME NEW t \in Texts
               PROVE  IF RowsOf(t)' = {} THEN answers'[t] = 0
                      ELSE answers'[t] + Cardinality(Asking(t)') <= Cardinality(Pollers)
    BY DEF Budget
  <2>1. answers'[t] = answers[t] OBVIOUS
  <2> QED BY <1>2, <1>3, <2>1, BudgetKept
<1> QED BY <1>4, <1>5, <1>6, <1>7, <1>8 DEF IInv

\* An administrator confirms the coordinates of a text.
LEMMA ConfirmStep ==
    ASSUME IInv, NEW t \in Texts, NEW kept, "verified" \notin kept,
           Upsert(t, Admins(t), kept), Confirmed(t), UNCHANGED <<aliases, work, answers>>
    PROVE  IInv'
<1>1. TypeOK /\ Fresh BY DEF IInv
<1> DEFINE new == Admins(t)
<1>2. new \in Rows /\ new.text = t /\ new.fix = "admin" /\ new.verified = TRUE BY DEF Admins, Rows
<1>3. Upsert(t, new, kept) OBVIOUS
<1> HIDE DEF new
<1>4. /\ cache' \in [Ids -> Rows \cup {NoRow}] /\ made' \in 0..MaxRows
      /\ Unique' /\ Fresh'
      /\ \A s \in Texts \ {t} : RowsOf(s)' = RowsOf(s) /\ \A j \in RowsOf(s) : cache'[j] = cache[j]
      /\ RowsOf(t)' # {}
      /\ \A i \in RowsOf(t)' :
            cache'[i].fix = new.fix /\ ("verified" \notin kept => cache'[i].verified = new.verified)
  BY <1>1, <1>2, <1>3, Upserted
<1>5. \A s \in Texts : Asking(s)' = Asking(s) BY DEF Asking
<1>6. confirmed' \subseteq Texts /\ \A s \in confirmed' : s = t \/ s \in confirmed
  BY <1>1 DEF Confirmed, TypeOK
<1>7. t \in confirmed' => Asking(t) = {} BY DEF Confirmed
<1>8. TypeOK' BY <1>1, <1>4, <1>6 DEF TypeOK, Unique
<1>9. NotAsked' BY <1>5, <1>6, <1>7 DEF IInv, NotAsked
<1>10. ConfirmedStays'
  <2> SUFFICES ASSUME NEW s \in confirmed'
               PROVE  /\ RowsOf(s)' # {}
                      /\ \A i \in RowsOf(s)' : cache'[i].verified /\ cache'[i].fix = "admin"
    BY DEF ConfirmedStays
  <2>1. CASE s = t BY <1>2, <1>4, <2>1
  <2>2. CASE s # t
    <3>1. s \in Texts \ {t} /\ s \in confirmed BY <1>6, <2>2
    <3>2. RowsOf(s) # {} /\ \A i \in RowsOf(s) : cache[i].verified /\ cache[i].fix = "admin"
      BY <3>1 DEF IInv, ConfirmedStays
    <3> QED BY <1>4, <3>1, <3>2
  <2> QED BY <2>1, <2>2
<1>11. Budget'
  <2> SUFFICES ASSUME NEW s \in Texts
               PROVE  IF RowsOf(s)' = {} THEN answers'[s] = 0
                      ELSE answers'[s] + Cardinality(Asking(s)') <= Cardinality(Pollers)
    BY DEF Budget
  <2>1. answers'[s] = answers[s] OBVIOUS
  <2>2. CASE s = t /\ RowsOf(t) = {}
    <3>1. answers'[s] = 0 BY <2>2 DEF IInv, Budget
    <3>2. /\ Cardinality(Asking(s)) \in Nat /\ Cardinality(Asking(s)) <= Cardinality(Pollers)
          /\ Cardinality(Pollers) \in Nat
      BY AskingFinite
    <3>3. Cardinality(Asking(s)') = Cardinality(Asking(s)) BY <1>5
    <3> QED BY <1>4, <2>2, <3>1, <3>2, <3>3
  <2>3. CASE ~(s = t /\ RowsOf(t) = {})
    <3>1. (RowsOf(s)' = {}) <=> (RowsOf(s) = {}) BY <1>4, <2>3
    <3> QED BY <1>5, <2>1, <3>1, BudgetKept
  <2> QED BY <2>2, <2>3
<1> QED BY <1>4, <1>8, <1>9, <1>10, <1>11 DEF IInv

\* A row is edited or deleted: its old text has a row no longer, unless it is
\* the new one too.
LEMMA RowTouched ==
    ASSUME IInv, NEW i \in Ids, Live(i), NEW new \in Rows \cup {NoRow}, Write(i, new),
           new # NoRow => RowsOf(new.text) \subseteq {i},
           Forget({cache[i].text} \ {new.text}, {cache[i].text, new.text}),
           UNCHANGED <<aliases, work>>
    PROVE  IInv'
<1>1. TypeOK BY DEF IInv
<1> DEFINE old == cache[i].text
<1>2. cache[i] \in Rows /\ old \in Texts BY <1>1 DEF TypeOK, Live, Rows
<1>3. cache' = [cache EXCEPT ![i] = new] /\ made' = made BY DEF Write
<1>4. /\ cache' \in [Ids -> Rows \cup {NoRow}]
      /\ cache'[i] = new
      /\ \A j \in Ids \ {i} : cache'[j] = cache[j]
      /\ \A t \in Texts : RowsOf(t)' = IF new.text = t THEN RowsOf(t) \cup {i} ELSE RowsOf(t) \ {i}
  BY <1>1, <1>3, RowStep
<1>5. \A t \in Texts : Asking(t)' = Asking(t) BY DEF Asking
<1>6. RowsOf(old) = {i} BY <1>1, <1>2 DEF TypeOK, RowsOf, Live
<1>7. \A t \in Texts \ {old} : i \notin RowsOf(t) BY DEF RowsOf
<1>8. \A t \in Texts : answers'[t] = IF t = old /\ t # new.text THEN 0 ELSE answers[t]
  BY DEF Forget
<1>9. confirmed' = confirmed \ {old, new.text} BY DEF Forget
<1>10. TypeOK'
  <2>1. \A j, k \in Ids : cache'[j] # NoRow /\ cache'[j].text = cache'[k].text => j = k
    <3> SUFFICES ASSUME NEW j \in Ids, NEW k \in Ids, cache'[j] # NoRow, cache'[j].text = cache'[k].text
                 PROVE  j = k
      OBVIOUS
    <3>1. CASE j # i /\ k # i BY <1>1, <1>4, <3>1 DEF TypeOK
    <3>2. CASE new = NoRow /\ (j = i \/ k = i)
      <4>1. j # i /\ k = i BY <1>4, <3>2
      <4>2. cache[j] \in Rows /\ cache[j].text = NoRow.text BY <1>1, <1>4, <3>2, <4>1 DEF TypeOK
      <4> QED BY <4>2, NoRowText DEF Rows
    <3>3. CASE new # NoRow /\ (j = i \/ k = i)
      <4>1. new.text \in Texts BY <3>3 DEF Rows
      <4>2. cache'[j].text = new.text /\ cache'[k].text = new.text BY <1>4, <3>3
      <4>3. cache'[k] # NoRow BY <4>1, <4>2, NoRowText
      <4>4. j \in RowsOf(new.text)' /\ k \in RowsOf(new.text)' BY <4>2, <4>3 DEF RowsOf, Live
      <4>5. RowsOf(new.text)' \subseteq {i} BY <1>4, <3>3, <4>1
      <4> QED BY <4>4, <4>5
    <3> QED BY <3>1, <3>2, <3>3
  <2>2. answers' \in [Texts -> Nat] BY <1>1 DEF TypeOK, Forget
  <2> QED BY <1>1, <1>3, <1>4, <1>9, <2>1, <2>2 DEF TypeOK
<1>11. Fresh'
  <2> SUFFICES ASSUME NEW j \in Ids, j > made PROVE cache'[j] = NoRow BY <1>3 DEF Fresh
  <2>1. cache[j] = NoRow BY DEF IInv, Fresh
  <2>2. j # i BY <2>1 DEF Live
  <2> QED BY <1>4, <2>1, <2>2
<1>12. NotAsked' BY <1>1, <1>5, <1>9 DEF IInv, NotAsked, TypeOK
<1>13. \A t \in Texts \ {old, new.text} : RowsOf(t)' = RowsOf(t) BY <1>4, <1>7
<1>14. ConfirmedStays'
  <2> SUFFICES ASSUME NEW t \in confirmed'
               PROVE  /\ RowsOf(t)' # {}
                      /\ \A j \in RowsOf(t)' : cache'[j].verified /\ cache'[j].fix = "admin"
    BY DEF ConfirmedStays
  <2>1. t \in confirmed /\ t \in Texts \ {old, new.text} BY <1>1, <1>9 DEF TypeOK
  <2>2. RowsOf(t) # {} /\ \A j \in RowsOf(t) : cache[j].verified /\ cache[j].fix = "admin"
    BY <2>1 DEF IInv, ConfirmedStays
  <2>3. RowsOf(t) \subseteq Ids \ {i} BY <1>7, <2>1 DEF RowsOf
  <2> QED BY <1>4, <1>13, <2>1, <2>2, <2>3
<1>15. Budget'
  <2> SUFFICES ASSUME NEW t \in Texts
               PROVE  IF RowsOf(t)' = {} THEN answers'[t] = 0
                      ELSE answers'[t] + Cardinality(Asking(t)') <= Cardinality(Pollers)
    BY DEF Budget
  <2>1. CASE t = old /\ t # new.text
    <3>1. RowsOf(t)' = {} BY <1>4, <1>6, <2>1
    <3> QED BY <1>8, <2>1, <3>1
  <2>2. CASE t = new.text /\ t # old
    <3>1. RowsOf(t) = {}
      <4>1. new # NoRow BY <2>2, NoRowText
      <4> QED BY <1>7, <2>2, <4>1
    <3>2. answers'[t] = 0 BY <1>8, <2>2, <3>1 DEF IInv, Budget
    <3>3. /\ Cardinality(Asking(t)) \in Nat /\ Cardinality(Asking(t)) <= Cardinality(Pollers)
          /\ Cardinality(Pollers) \in Nat
      BY AskingFinite
    <3>4. Cardinality(Asking(t)') = Cardinality(Asking(t)) BY <1>5
    <3> QED BY <3>2, <3>3, <3>4
  <2>3. CASE (t = old) <=> (t = new.text)
    <3>1. answers'[t] = answers[t] BY <1>8, <2>3
    <3>2. RowsOf(t)' = RowsOf(t) BY <1>4, <1>6, <1>7, <2>3
    <3> QED BY <1>5, <3>1, <3>2, BudgetKept
  <2> QED BY <2>1, <2>2, <2>3
<1> QED BY <1>10, <1>11, <1>12, <1>14, <1>15 DEF IInv

\* A poller stores Google's answer.
LEMMA SaveStep ==
    ASSUME IInv, NEW p \in Pollers, NEW partial \in BOOLEAN, NEW sure \in BOOLEAN,
           SaveAnswer(p, partial, sure)
    PROVE  IInv'
<1>1. TypeOK /\ Fresh BY DEF IInv
<1>2. PICK t \in Texts : t = work[p].text /\ p \in Asking(t)
  <2>1. work[p] \in Works \cup {Idle} /\ work[p].step = "ask" BY <1>1 DEF TypeOK, SaveAnswer
  <2>2. work[p] \in [step: {"lookup", "ask", "verify"}, text: Texts] BY <2>1 DEF Works, Idle
  <2> QED BY <2>1, <2>2 DEF Asking
<1> DEFINE new == Googles(t, partial)
           w   == IF AutoVerify /\ ~partial /\ sure THEN [step |-> "verify", text |-> t] ELSE Idle
<1>3. new \in Rows /\ new.text = t BY <1>2 DEF Googles, Rows
<1>4. w \in Works \cup {Idle} /\ w.step # "ask" BY <1>2 DEF Works, Idle
<1>5. Upsert(t, new, {"verified"}) BY <1>2 DEF SaveAnswer
<1>6. Becomes(p, w) BY <1>2 DEF SaveAnswer, Then
<1>7. answers' = [answers EXCEPT ![t] = answers[t] + 1] /\ UNCHANGED <<aliases, confirmed>>
  BY <1>2 DEF SaveAnswer
<1> HIDE DEF new, w
<1>8. /\ cache' \in [Ids -> Rows \cup {NoRow}] /\ made' \in 0..MaxRows
      /\ Unique' /\ Fresh'
      /\ \A s \in Texts \ {t} : RowsOf(s)' = RowsOf(s) /\ \A j \in RowsOf(s) : cache'[j] = cache[j]
      /\ RowsOf(t)' # {}
  BY <1>1, <1>2, <1>3, <1>5, Upserted
<1>9. /\ work' \in [Pollers -> Works \cup {Idle}]
      /\ \A s \in Texts : Asking(s)' = Asking(s) \ {p}
  BY <1>1, <1>4, <1>6, WorkStep
<1>10. TypeOK' BY <1>1, <1>2, <1>7, <1>8, <1>9 DEF TypeOK, Unique
<1>11. NotAsked' BY <1>1, <1>7, <1>9 DEF IInv, NotAsked, TypeOK
<1>12. ConfirmedStays'
  <2> SUFFICES ASSUME NEW s \in confirmed
               PROVE  /\ RowsOf(s)' # {}
                      /\ \A i \in RowsOf(s)' : cache'[i].verified /\ cache'[i].fix = "admin"
    BY <1>7 DEF ConfirmedStays
  <2>1. s \in Texts \ {t} BY <1>1, <1>2 DEF IInv, NotAsked, TypeOK
  <2>2. RowsOf(s) # {} /\ \A i \in RowsOf(s) : cache[i].verified /\ cache[i].fix = "admin"
    BY DEF IInv, ConfirmedStays
  <2> QED BY <1>8, <2>1, <2>2
<1>13. Budget'
  <2> SUFFICES ASSUME NEW s \in Texts
               PROVE  IF RowsOf(s)' = {} THEN answers'[s] = 0
                      ELSE answers'[s] + Cardinality(Asking(s)') <= Cardinality(Pollers)
    BY DEF Budget
  <2>1. CASE s # t
    <3>1. answers'[s] = answers[s] BY <1>7, <2>1
    <3>2. RowsOf(s)' = RowsOf(s) BY <1>8, <2>1
    <3> QED BY <1>9, <3>1, <3>2, BudgetKept
  <2>2. CASE s = t
    <3>1. answers[t] \in Nat /\ answers'[t] = answers[t] + 1 BY <1>1, <1>2, <1>7 DEF TypeOK
    <3>2. IF RowsOf(t) = {} THEN answers[t] = 0
                            ELSE answers[t] + Cardinality(Asking(t)) <= Cardinality(Pollers)
      BY <1>2 DEF IInv, Budget
    <3>3. /\ Cardinality(Asking(t)) \in Nat /\ Cardinality(Asking(t)) <= Cardinality(Pollers)
          /\ Cardinality(Pollers) \in Nat
      BY <1>2, AskingFinite
    <3>4. Cardinality(Asking(t)') = Cardinality(Asking(t)) - 1 BY <1>2, <1>9, AskingLess
    <3> QED BY <1>8, <2>2, <3>1, <3>2, <3>3, <3>4
  <2> QED BY <2>1, <2>2
<1> QED BY <1>8, <1>10, <1>11, <1>12, <1>13 DEF IInv

\* Only the aliases change, or nothing does.
LEMMA AliasStep ==
    ASSUME IInv, aliases' \subseteq Texts, UNCHANGED <<cache, made, work, confirmed, answers>>
    PROVE  IInv'
<1>1. \A t \in Texts \cup confirmed : RowsOf(t)' = RowsOf(t) /\ Asking(t)' = Asking(t)
  BY DEF RowsOf, Live, Asking
<1>2. TypeOK' /\ Fresh' BY DEF IInv, TypeOK, Fresh
<1>3. NotAsked' /\ ConfirmedStays' BY <1>1 DEF IInv, NotAsked, ConfirmedStays
<1>4. Budget' BY <1>1 DEF IInv, Budget
<1> QED BY <1>2, <1>3, <1>4 DEF IInv

LEMMA NextIInv == IInv /\ [Next]_vars => IInv'
<1> SUFFICES ASSUME IInv, [Next]_vars PROVE IInv' OBVIOUS
<1>1. TypeOK BY DEF IInv
<1>2. ASSUME NEW p \in Pollers, NEW t \in Texts, FindAlias(p, t) PROVE IInv'
  <2> DEFINE w == [step |-> "lookup", text |-> t]
  <2>1. w \in Works \cup {Idle} /\ w.step # "ask" BY DEF Works
  <2>2. Becomes(p, w) /\ UNCHANGED <<cache, made, aliases, confirmed, answers>> BY <1>2 DEF FindAlias
  <2> HIDE DEF w
  <2> QED BY <2>1, <2>2, LooksOnly
<1>3. ASSUME NEW p \in Pollers, FindCached(p) PROVE IInv'
  <2> DEFINE t == work[p].text
  <2>1. t \in Texts
    <3>1. work[p] \in Works \cup {Idle} /\ work[p].step = "lookup" BY <1>1, <1>3 DEF TypeOK, FindCached
    <3> QED BY <3>1 DEF Works, Idle
  <2>2. \E w \in Works \cup {Idle} : Becomes(p, w) /\ (w.step = "ask" => RowsOf(w.text) = {})
    <3>1. CASE RowsOf(t) = {} /\ Becomes(p, [step |-> "ask", text |-> t])
      <4>1. [step |-> "ask", text |-> t] \in Works BY <2>1 DEF Works
      <4> QED BY <3>1, <4>1
    <3>2. ASSUME NEW i \in RowsOf(t), NEW sure \in BOOLEAN,
                 Then(p, t, cache[i].partial, sure /\ ~cache[i].verified)
          PROVE  \E w \in Works \cup {Idle} : Becomes(p, w) /\ (w.step = "ask" => RowsOf(w.text) = {})
      <4>1. [step |-> "verify", text |-> t] \in Works /\ [step |-> "verify", text |-> t].step # "ask"
        BY <2>1 DEF Works
      <4>2. Idle.step # "ask" BY DEF Idle
      <4>3. Becomes(p, [step |-> "verify", text |-> t]) \/ Becomes(p, Idle) BY <3>2 DEF Then
      <4> QED BY <4>1, <4>2, <4>3
    <3> QED BY <1>3, <3>1, <3>2 DEF FindCached
  <2> QED BY <1>3, <2>2, LooksOnly DEF FindCached
<1>4. ASSUME NEW p \in Pollers, MarkAsVerified(p) PROVE IInv'
  <2>1. Becomes(p, Idle) /\ UNCHANGED <<aliases, confirmed, answers>> BY <1>4 DEF MarkAsVerified
  <2>2. CASE UNCHANGED <<cache, made>>
    <3>1. Idle \in Works \cup {Idle} /\ Idle.step # "ask" BY DEF Idle
    <3> QED BY <2>1, <2>2, <3>1, LooksOnly
  <2>3. ASSUME NEW i \in RowsOf(work[p].text), Write(i, [cache[i] EXCEPT !.verified = TRUE])
        PROVE  IInv'
    <3>1. i \in Ids /\ cache[i] \in Rows BY <1>1 DEF TypeOK, RowsOf, Live
    <3> DEFINE new == [cache[i] EXCEPT !.verified = TRUE]
    <3>2. /\ new \in Rows /\ new.text = cache[i].text /\ new.fix = cache[i].fix
          /\ new.verified = TRUE
      BY <3>1 DEF Rows
    <3>3. cache' = [cache EXCEPT ![i] = new] /\ made' = made BY <2>3 DEF Write
    <3> HIDE DEF new
    <3>4. /\ cache' \in [Ids -> Rows \cup {NoRow}] /\ cache'[i] = new
          /\ \A j \in Ids \ {i} : cache'[j] = cache[j]
      BY <1>1, <3>1, <3>2, <3>3, RowStep
    <3>5. \A j \in Ids : /\ cache'[j] = NoRow <=> cache[j] = NoRow
                         /\ cache'[j].text = cache[j].text
                         /\ cache[j] # NoRow =>
                               /\ cache'[j].fix = cache[j].fix
                               /\ cache[j].verified => cache'[j].verified
      BY <3>1, <3>2, <3>4, NoRowText
    <3> QED BY <2>1, <3>3, <3>4, <3>5, VerifiesOnly
  <2> QED BY <1>4, <2>2, <2>3 DEF MarkAsVerified
<1>5. ASSUME NEW p \in Pollers, NEW S \in SUBSET Ids, ReadVotes(p, S) PROVE IInv'
  <2> DEFINE w == [step |-> "promote", ids |-> S]
  <2>1. w \in Works \cup {Idle} /\ w.step # "ask" BY DEF Works
  <2>2. Becomes(p, w) /\ UNCHANGED <<cache, made, aliases, confirmed, answers>> BY <1>5 DEF ReadVotes
  <2> HIDE DEF w
  <2> QED BY <2>1, <2>2, LooksOnly
<1>6. ASSUME NEW p \in Pollers, Promote(p) PROVE IInv'
  <2>1. Becomes(p, Idle) /\ UNCHANGED <<made, aliases, confirmed, answers>> BY <1>6 DEF Promote
  <2>2. cache' = [i \in Ids |-> IF i \in work[p].ids /\ Live(i)
                                THEN [cache[i] EXCEPT !.verified = TRUE] ELSE cache[i]]
    BY <1>6 DEF Promote
  <2>3. ASSUME NEW j \in Ids
        PROVE  /\ cache'[j] \in Rows \cup {NoRow}
               /\ cache'[j] = NoRow <=> cache[j] = NoRow
               /\ cache'[j].text = cache[j].text
               /\ cache[j] # NoRow =>
                     /\ cache'[j].fix = cache[j].fix
                     /\ cache[j].verified => cache'[j].verified
    <3>1. cache[j] \in Rows \cup {NoRow} BY <1>1 DEF TypeOK
    <3>2. CASE cache'[j] = cache[j] BY <3>1, <3>2
    <3>3. CASE Live(j) /\ cache'[j] = [cache[j] EXCEPT !.verified = TRUE]
      <4>1. cache[j] \in Rows BY <3>1, <3>3 DEF Live
      <4>2. /\ cache'[j] \in Rows /\ cache'[j].text = cache[j].text
            /\ cache'[j].fix = cache[j].fix /\ cache'[j].verified = TRUE
        BY <3>3, <4>1 DEF Rows
      <4> QED BY <4>1, <4>2, NoRowText
    <3> QED BY <2>2, <3>2, <3>3
  <2>4. cache' \in [Ids -> Rows \cup {NoRow}] BY <2>2, <2>3
  <2> QED BY <2>1, <2>3, <2>4, VerifiesOnly
<1>7. ASSUME NEW p \in Pollers, BreakOff(p) PROVE IInv'
  <2>1. Idle \in Works \cup {Idle} /\ Idle.step # "ask" BY DEF Idle
  <2> QED BY <1>7, <2>1, LooksOnly DEF BreakOff
<1>8. ASSUME NEW t \in Texts, ConfirmLocation(t) \/ BulkConfirmLocation(t) PROVE IInv'
  <2>1. CASE ConfirmLocation(t) BY <2>1, ConfirmStep DEF ConfirmLocation
  <2>2. CASE BulkConfirmLocation(t) BY <2>2, ConfirmStep DEF BulkConfirmLocation
  <2> QED BY <1>8, <2>1, <2>2
<1>9. ASSUME NEW t \in Texts, CreateAlias(t) \/ DeleteAlias(t) PROVE IInv'
  <2>1. aliases' \subseteq Texts /\ UNCHANGED <<cache, made, work, confirmed, answers>>
    BY <1>1, <1>9 DEF CreateAlias, DeleteAlias, TypeOK
  <2> QED BY <2>1, AliasStep
<1>10. ASSUME NEW i \in Ids, NEW t \in Texts, NEW moved \in BOOLEAN, NEW verified \in BOOLEAN,
              UpdateEntry(i, t, moved, verified)
       PROVE  IInv'
  <2> DEFINE fix == IF moved THEN "admin" ELSE cache[i].fix
             new == [cache[i] EXCEPT !.text = t, !.verified = verified, !.fix = fix]
  <2>1. Live(i) /\ RowsOf(t) \subseteq {i} /\ UNCHANGED <<aliases, work>> BY <1>10 DEF UpdateEntry
  <2>2. cache[i] \in Rows BY <1>1, <2>1 DEF TypeOK, Live
  <2>3. Write(i, new) BY <1>10 DEF UpdateEntry
  <2>4. fix \in {"google", "admin"} BY <2>2 DEF Rows
  <2>5. Forget({cache[i].text} \ {t}, {cache[i].text, t}) BY <1>10 DEF UpdateEntry
  <2> HIDE DEF fix
  <2>6. new \in Rows /\ new.text = t BY <2>2, <2>4 DEF Rows
  <2> HIDE DEF new
  <2> QED BY <2>1, <2>3, <2>5, <2>6, RowTouched
<1>11. ASSUME NEW i \in Ids, DeleteEntry(i) PROVE IInv'
  <2>1. Live(i) /\ Write(i, NoRow) /\ UNCHANGED <<aliases, work>> BY <1>11 DEF DeleteEntry
  <2>2. cache[i].text \in Texts BY <1>1, <2>1 DEF TypeOK, Live, Rows
  <2>3. Forget({cache[i].text} \ {NoRow.text}, {cache[i].text, NoRow.text})
    <3>1. NoRow.text \notin confirmed BY <1>1, NoRowText DEF TypeOK
    <3>2. {cache[i].text} \ {NoRow.text} = {cache[i].text} BY <2>2, NoRowText
    <3>3. confirmed \ {cache[i].text, NoRow.text} = confirmed \ {cache[i].text} BY <3>1
    <3>4. Forget({cache[i].text}, {cache[i].text}) BY <1>11 DEF DeleteEntry
    <3> QED BY <3>2, <3>3, <3>4 DEF Forget
  <2> QED BY <2>1, <2>3, RowTouched
<1>12. CASE UNCHANGED vars BY <1>1, <1>12, AliasStep DEF vars, TypeOK
<1> QED BY <1>2, <1>3, <1>4, <1>5, <1>6, <1>7, <1>8, <1>9, <1>10, <1>11, <1>12, SaveStep DEF Next

LEMMA Invariant == Spec => []IInv
  BY InitIInv, NextIInv, PTL DEF Spec

-----------------------------------------------------------------------------
(* TypeOK holds in every behaviour: no two rows have one normalized text,  *)
(* whatever inserts, upserts and edits interleave.                         *)
THEOREM TypeCorrect == Spec => []TypeOK
<1>1. IInv => TypeOK BY DEF IInv
<1> QED BY Invariant, <1>1, PTL

(* Confirmed coordinates stay, as verified, until an administrator changes *)
(* them: the cache is not asked past a row, so nobody who started after    *)
(* the confirmation can bring an answer to overwrite it.                   *)
THEOREM ConfirmedCorrect == Spec => []ConfirmedStays
<1>1. IInv => ConfirmedStays BY DEF IInv
<1> QED BY Invariant, <1>1, PTL

(* While a text has its row no more answers are stored for it than there   *)
(* are pollers.                                                            *)
THEOREM AskedCorrect == Spec => []AskedOncePerPoller
<1>1. ASSUME IInv PROVE AskedOncePerPoller
  <2> SUFFICES ASSUME NEW t \in Texts PROVE answers[t] <= Cardinality(Pollers)
    BY DEF AskedOncePerPoller
  <2>1. answers[t] \in Nat BY <1>1 DEF IInv, TypeOK
  <2>2. IF RowsOf(t) = {} THEN answers[t] = 0
                          ELSE answers[t] + Cardinality(Asking(t)) <= Cardinality(Pollers)
    BY <1>1 DEF IInv, Budget
  <2>3. Cardinality(Asking(t)) \in Nat /\ Cardinality(Pollers) \in Nat BY AskingFinite
  <2> QED BY <2>1, <2>2, <2>3
<1> QED BY Invariant, <1>1, PTL

=============================================================================
