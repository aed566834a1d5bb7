--------------------------- MODULE RateLimitProofs ---------------------------
(***************************************************************************)
(* What the rate limits keep, for any clients, limits and windows: the     *)
(* table holds every request that still counts, so nothing is served or    *)
(* refused that a guard which forgets nothing would not.                   *)
(***************************************************************************)
EXTENDS RateLimit, FiniteSetTheorems, TLAPS

(* Nothing was served in the future. *)
Past == \A g \in Guards, c \in Clients : \A s \in served[g][c] : s.at <= now

(* The table holds only what was served, and all of it that counts. *)
Kept ==
    \A g \in Guards, c \in Clients :
        /\ table[g][c] \subseteq served[g][c]
        /\ Active(g, served[g][c]) \subseteq table[g][c]

Counted == \A g \in Guards, c \in Clients : IsFiniteSet(served[g][c])

LimitInv == LimitTypeOK /\ Past /\ Kept /\ Counted

USE RateAssumption

-----------------------------------------------------------------------------
(* The three forms a set of times takes. *)

(* What is active in the table is what is active of all that was served. *)
LEMMA ActiveKept ==
    ASSUME LimitInv, NEW g \in Guards, NEW c \in Clients
    PROVE  /\ Active(g, table[g][c]) = Active(g, served[g][c])
           /\ IsFiniteSet(Active(g, served[g][c]))
           /\ Cardinality(Active(g, served[g][c])) \in Nat
  <1>1. Active(g, table[g][c]) = Active(g, served[g][c])
    BY DEF LimitInv, Kept, Active
  <1>2. Active(g, served[g][c]) \subseteq served[g][c]
    BY DEF Active
  <1>3. IsFiniteSet(Active(g, served[g][c]))
    BY <1>2, FS_Subset DEF LimitInv, Counted
  <1>4. QED
    BY <1>1, <1>3, FS_CardinalityType

(* The stamp of a request is a stamp. *)
LEMMA StampType ==
    ASSUME LimitInv, NEW g \in Guards, NEW c \in Clients
    PROVE  Stamp(g, c) \in Stamps /\ Stamp(g, c).at = now
  <1>1. Cardinality(served[g][c]) \in Nat
    BY FS_CardinalityType DEF LimitInv, Counted
  <1>2. QED
    BY <1>1 DEF LimitInv, LimitTypeOK, Stamps, Stamp

(* What a served request changes, guard by guard and client by client. *)
LEMMA AdmitEffect ==
    ASSUME LimitInv, NEW g \in Guards, NEW c \in Clients, Admit(g, c),
           NEW h \in Guards, NEW d \in Clients
    PROVE  /\ ~(h = g /\ d = c) => served'[h][d] = served[h][d]
           /\ h = g /\ d = c => served'[h][d] = served[h][d] \cup {Stamp(g, c)}
           /\ h # g => table'[h] = table[h]
           /\ h = g => \/ table'[h][d] = Entered(g, c)[d]
                       \/ table'[h][d] = Active(h, Entered(g, c)[d])
           /\ h = g /\ d # c => Entered(g, c)[d] = table[h][d]
           /\ h = g /\ d = c => Entered(g, c)[d] = Active(h, table[h][d]) \cup {Stamp(g, c)}
  <1>1. /\ ~(h = g /\ d = c) => served'[h][d] = served[h][d]
        /\ h = g /\ d = c => served'[h][d] = served[h][d] \cup {Stamp(g, c)}
    BY DEF Admit, LimitInv, LimitTypeOK
  <1>2. /\ d # c => Entered(g, c)[d] = table[g][d]
        /\ d = c => Entered(g, c)[d] = Active(g, table[g][c]) \cup {Stamp(g, c)}
    BY DEF Entered, LimitInv, LimitTypeOK
  <1>3. h # g => table'[h] = table[h]
    BY DEF Admit, LimitInv, LimitTypeOK
  <1>4. ASSUME h = g PROVE table'[h] \in {Entered(g, c), Compact(g, Entered(g, c))}
    BY <1>4 DEF Admit, LimitInv, LimitTypeOK
  <1>5. Compact(g, Entered(g, c))[d] = Active(g, Entered(g, c)[d])
    BY DEF Compact
  <1>6. QED
    BY <1>1, <1>2, <1>3, <1>4, <1>5

-----------------------------------------------------------------------------
(* LimitInv is inductive. *)

LEMMA InitInv == LimitInit => LimitInv
  <1> SUFFICES ASSUME LimitInit PROVE LimitInv
    OBVIOUS
  <1>1. LimitTypeOK
    BY DEF LimitInit, LimitTypeOK, None, Nobody
  <1>2. Past /\ Kept
    BY DEF LimitInit, Past, Kept, None, Active
  <1>3. Counted
    BY FS_EmptySet DEF LimitInit, Counted, None
  <1>4. QED
    BY <1>1, <1>2, <1>3 DEF LimitInv

LEMMA AdmitInv ==
    ASSUME LimitInv, NEW g \in Guards, NEW c \in Clients, Admit(g, c)
    PROVE  LimitInv'
  <1>1. Stamp(g, c) \in Stamps /\ Stamp(g, c).at = now
    BY StampType
  <1>2. now' = now /\ now \in Nat
    BY DEF Admit, LimitInv, LimitTypeOK
  <1>3. ASSUME NEW h \in Guards, NEW d \in Clients
        PROVE  /\ served'[h][d] \in SUBSET Stamps
               /\ table'[h][d] \in SUBSET Stamps
               /\ \A s \in served'[h][d] : s.at <= now
               /\ table'[h][d] \subseteq served'[h][d]
               /\ Active(h, served[h][d])' \subseteq table'[h][d]
               /\ IsFiniteSet(served'[h][d])
    <2> DEFINE S == served[h][d]  T == table[h][d]
    <2>1. /\ S \in SUBSET Stamps /\ T \in SUBSET Stamps
          /\ \A s \in S : s.at <= now
          /\ T \subseteq S
          /\ Active(h, S) \subseteq T
          /\ IsFiniteSet(S)
      BY DEF LimitInv, LimitTypeOK, Past, Kept, Counted
    <2>2. Active(h, served[h][d])' = Active(h, served'[h][d])
      BY <1>2 DEF Active
    <2>6. /\ ~(h = g /\ d = c) => served'[h][d] = S
          /\ h = g /\ d = c => served'[h][d] = S \cup {Stamp(g, c)}
          /\ h # g => table'[h] = table[h]
          /\ h = g => \/ table'[h][d] = Entered(g, c)[d]
                      \/ table'[h][d] = Active(h, Entered(g, c)[d])
          /\ h = g /\ d # c => Entered(g, c)[d] = T
          /\ h = g /\ d = c => Entered(g, c)[d] = Active(h, T) \cup {Stamp(g, c)}
      BY AdmitEffect
    <2>3. CASE ~(h = g /\ d = c)
      <3>1. served'[h][d] = S
        BY <2>3, <2>6
      <3>2. table'[h][d] = T \/ (h = g /\ table'[h][d] = Active(h, T))
        BY <2>3, <2>6
      <3>3. Active(h, T) \subseteq T /\ Active(h, S) \subseteq Active(h, T)
        BY <2>1 DEF Active
      <3>4. QED
        BY <2>1, <2>2, <3>1, <3>2, <3>3
    <2>4. CASE h = g /\ d = c
      <3>1. served'[h][d] = S \cup {Stamp(g, c)}
        BY <2>4, <2>6
      <3>2. Entered(g, c)[d] = Active(h, T) \cup {Stamp(g, c)}
        BY <2>4, <2>6
      <3>3. table'[h][d] = Active(h, T) \cup {Stamp(g, c)}
            \/ table'[h][d] = Active(h, Active(h, T) \cup {Stamp(g, c)})
        BY <2>4, <3>2, <2>6
      <3>4. /\ Active(h, T) \subseteq T
            /\ Active(h, S \cup {Stamp(g, c)}) \subseteq Active(h, T) \cup {Stamp(g, c)}
            /\ Active(h, Active(h, T) \cup {Stamp(g, c)}) \subseteq Active(h, T) \cup {Stamp(g, c)}
            /\ Active(h, S \cup {Stamp(g, c)}) \subseteq Active(h, Active(h, T) \cup {Stamp(g, c)})
        BY <2>1 DEF Active
      <3>5. IsFiniteSet(S \cup {Stamp(g, c)})
        BY <2>1, FS_AddElement
      <3>6. \A s \in S \cup {Stamp(g, c)} : s.at <= now
        BY <1>1, <1>2, <2>1
      <3>7. QED
        BY <1>1, <2>1, <2>2, <3>1, <3>3, <3>4, <3>5, <3>6
    <2>5. QED
      BY <2>3, <2>4
  <1>4. DOMAIN served' = Guards /\ DOMAIN table' = Guards
    BY DEF Admit, LimitInv, LimitTypeOK
  <1>5. ASSUME NEW h \in Guards
        PROVE  /\ served'[h] \in [Clients -> SUBSET Stamps]
               /\ table'[h] \in [Clients -> SUBSET Stamps]
    <2>1. served'[h] = [d \in Clients |-> served'[h][d]]
      BY DEF Admit, LimitInv, LimitTypeOK
    <2>2. table'[h] = [d \in Clients |-> table'[h][d]]
      BY DEF Admit, LimitInv, LimitTypeOK, Entered, Compact
    <2>3. QED
      BY <1>3, <2>1, <2>2
  <1>6. /\ served' = [h \in Guards |-> served'[h]]
        /\ table'  = [h \in Guards |-> table'[h]]
    BY DEF Admit, LimitInv, LimitTypeOK
  <1>7. LimitTypeOK'
    <2>1. served' \in [Guards -> [Clients -> SUBSET Stamps]]
      BY <1>5, <1>6
    <2>2. table' \in [Guards -> [Clients -> SUBSET Stamps]]
      BY <1>5, <1>6
    <2>3. QED
      BY <2>1, <2>2 DEF Admit, LimitInv, LimitTypeOK
  <1>8. Past' /\ Kept' /\ Counted'
    BY <1>2, <1>3 DEF Past, Kept, Counted
  <1>9. QED
    BY <1>7, <1>8 DEF LimitInv

LEMMA StepInv == LimitInv /\ [LimitNext]_limitVars => LimitInv'
  <1> SUFFICES ASSUME LimitInv, [LimitNext]_limitVars PROVE LimitInv'
    OBVIOUS
  <1>1. ASSUME NEW g \in Guards, NEW c \in Clients, Admit(g, c) PROVE LimitInv'
    BY <1>1, AdmitInv
  <1>2. ASSUME NEW g \in Guards, NEW c \in Clients, Refuse(g, c) PROVE LimitInv'
    BY <1>2 DEF LimitInv, LimitTypeOK, Past, Kept, Counted, Refuse, Active
  <1>3. CASE Tick
    <2>1. LimitTypeOK'
      BY <1>3 DEF LimitInv, LimitTypeOK, Tick, Nobody
    <2>2. now' = now + 1 /\ now \in Nat /\ UNCHANGED <<table, served>>
      BY <1>3 DEF LimitInv, LimitTypeOK, Tick
    <2>3. Past' /\ Kept' /\ Counted'
      <3>1. Past'
        BY <2>2 DEF LimitInv, LimitTypeOK, Past, Stamps
      <3>2. ASSUME NEW g \in Guards, NEW c \in Clients
            PROVE  Active(g, served[g][c])' \subseteq Active(g, served[g][c])
        BY <2>2, <3>2 DEF LimitInv, LimitTypeOK, Past, Active, Stamps
      <3>3. Kept'
        BY <2>2, <3>2 DEF LimitInv, Kept
      <3>4. QED
        BY <2>2, <3>1, <3>3 DEF LimitInv, Counted
    <2>4. QED
      BY <2>1, <2>3 DEF LimitInv
  <1>4. CASE Restart
    <2>1. LimitTypeOK'
      BY <1>4 DEF LimitInv, LimitTypeOK, Restart, None, Nobody
    <2>2. \A g \in Guards, c \in Clients : served'[g][c] = {} /\ table'[g][c] = {}
      BY <1>4 DEF Restart, None
    <2>4. Past' /\ Kept'
      BY <2>2 DEF Past, Kept, Active
    <2>5. Counted'
      BY <2>2, FS_EmptySet DEF Counted
    <2>3. QED
      BY <2>1, <2>4, <2>5 DEF LimitInv
  <1>5. CASE UNCHANGED limitVars
    BY <1>5 DEF LimitInv, LimitTypeOK, Past, Kept, Counted, limitVars, Active
  <1>6. QED
    BY <1>1, <1>2, <1>3, <1>4, <1>5 DEF LimitNext

THEOREM LimitInvariant == LimitSpec => []LimitInv
  BY InitInv, StepInv, PTL DEF LimitSpec

(* Every table, every time and every request is of its type.               *)
THEOREM LimitTypeCorrect == LimitSpec => []LimitTypeOK
  <1>1. LimitInv => LimitTypeOK
    BY DEF LimitInv
  <1>2. QED
    BY <1>1, LimitInvariant, PTL

-----------------------------------------------------------------------------
(* WindowKept. *)

LEMMA WindowInit == LimitInit => WindowKept
  <1> SUFFICES ASSUME LimitInit, NEW g \in Guards, NEW c \in Clients, NEW t \in 0..MaxTime
               PROVE  Cardinality({s \in served[g][c] : t <= s.at /\ s.at < t + Window[g]})
                      <= Limit[g]
    BY DEF WindowKept
  <1> DEFINE In == {s \in served[g][c] : t <= s.at /\ s.at < t + Window[g]}
  <1>1. In = {}
    BY DEF LimitInit, None
  <1>2. Limit[g] \in Nat
    OBVIOUS
  <1> HIDE DEF In
  <1>3. Cardinality(In) <= Limit[g]
    BY <1>1, <1>2, FS_EmptySet
  <1>4. QED
    BY <1>3 DEF In

LEMMA WindowStep == LimitInv /\ WindowKept /\ [LimitNext]_limitVars => WindowKept'
  <1> SUFFICES ASSUME LimitInv, WindowKept, [LimitNext]_limitVars,
                      NEW h \in Guards, NEW d \in Clients, NEW t \in 0..MaxTime
               PROVE  Cardinality({s \in served'[h][d] : t <= s.at /\ s.at < t + Window[h]})
                      <= Limit[h]
    BY DEF WindowKept
  <1> DEFINE In(S) == {s \in S : t <= s.at /\ s.at < t + Window[h]}
  <1> SUFFICES Cardinality(In(served'[h][d])) <= Limit[h]
    OBVIOUS
  <1>1. Cardinality(In(served[h][d])) <= Limit[h]
    BY DEF WindowKept
  <1>0. Limit[h] \in Nat
    OBVIOUS
  <1>2. CASE served'[h][d] = served[h][d]
    BY <1>1, <1>2
  <1>3. ASSUME NEW g \in Guards, NEW c \in Clients, Admit(g, c)
        PROVE  Cardinality(In(served'[h][d])) <= Limit[h]
    <2>1. CASE ~(h = g /\ d = c)
      <3>1. served'[h][d] = served[h][d]
        BY <1>3, <2>1, AdmitEffect
      <3>2. QED
        BY <1>1, <3>1
    <2>2. CASE h = g /\ d = c
      <3>1. served'[h][d] = served[h][d] \cup {Stamp(g, c)}
        BY <1>3, <2>2, AdmitEffect
      <3>2. CASE ~(t <= now /\ now < t + Window[h])
        <4>1. In(served'[h][d]) = In(served[h][d])
          BY <3>1, <3>2, StampType
        <4>2. QED
          BY <1>1, <4>1
      <3>3. CASE t <= now /\ now < t + Window[h]
        <4> DEFINE A == Active(h, served[h][d])
        <4>1. In(served[h][d]) \subseteq A
          BY <3>3 DEF LimitInv, LimitTypeOK, Past, Active, Stamps
        <4>2. IsFiniteSet(A) /\ Cardinality(A) \in Nat /\ Active(h, table[h][d]) = A
          BY ActiveKept
        <4>3. Cardinality(A) < Limit[h]
          BY <1>3, <2>2, <4>2 DEF Admit, AtLimit
        <4>4. In(served'[h][d]) \subseteq A \cup {Stamp(g, c)}
          BY <3>1, <4>1
        <4>5. /\ IsFiniteSet(A \cup {Stamp(g, c)})
              /\ Cardinality(A \cup {Stamp(g, c)}) = Cardinality(A)
                 \/ Cardinality(A \cup {Stamp(g, c)}) = Cardinality(A) + 1
          BY <4>2, FS_AddElement
        <4>6. /\ IsFiniteSet(In(served'[h][d]))
              /\ Cardinality(In(served'[h][d])) <= Cardinality(A \cup {Stamp(g, c)})
          BY <4>4, <4>5, FS_Subset
        <4>7. Cardinality(In(served'[h][d])) \in Nat
          BY <4>6, FS_CardinalityType
        <4> HIDE DEF A, In
        <4>8. QED
          BY <4>2, <4>3, <4>5, <4>6, <4>7
      <3>4. QED
        BY <3>2, <3>3
    <2>3. QED
      BY <2>1, <2>2
  <1>4. CASE Restart
    <2>1. In(served'[h][d]) = {}
      BY <1>4 DEF Restart, None
    <2> HIDE DEF In
    <2>2. QED
      BY <1>0, <2>1, FS_EmptySet
  <1>5. \/ served'[h][d] = served[h][d]
        \/ Restart
        \/ \E g \in Guards, c \in Clients : Admit(g, c)
    BY DEF LimitNext, Refuse, Tick, limitVars
  <1>6. QED
    BY <1>2, <1>3, <1>4, <1>5

(* No client is served more than its limit in any stretch of a window's    *)
(* length, from the start of the process on.                               *)
THEOREM WindowCorrect == LimitSpec => []WindowKept
  BY WindowInit, WindowStep, LimitInvariant, PTL DEF LimitSpec

-----------------------------------------------------------------------------
(* TableBounded. *)

LEMMA BoundedStep == LimitInv /\ TableBounded /\ [LimitNext]_limitVars => TableBounded'
  <1> SUFFICES ASSUME LimitInv, TableBounded, [LimitNext]_limitVars,
                      NEW h \in Guards, Full(h, table'[h])
               PROVE  \E t \in 0..now' : \A c \in Tracked(table'[h]) :
                          \E s \in table'[h][c] : s.at <= t /\ t - s.at < Window[h]
    BY DEF TableBounded, Full, Tracked
  <1>0. now \in Nat /\ now' \in Nat /\ now <= now'
    BY DEF LimitInv, LimitTypeOK, LimitNext, Admit, Refuse, Tick, Restart, limitVars
  <1>1. CASE table'[h] = table[h]
    <2>1. PICK t \in 0..now : \A c \in Tracked(table[h]) :
                 \E s \in table[h][c] : s.at <= t /\ t - s.at < Window[h]
      BY <1>1 DEF TableBounded
    <2>2. t \in 0..now'
      BY <1>0
    <2>3. QED
      BY <1>1, <2>1, <2>2
  <1>2. CASE Restart
    <2>1. table'[h] = [c \in Clients |-> {}]
      BY <1>2 DEF Restart, None
    <2>2. Tracked(table'[h]) = {}
      BY <2>1 DEF Tracked
    <2>3. QED
      BY <2>2, FS_EmptySet DEF Full
  <1>3. ASSUME NEW g \in Guards, NEW c \in Clients, Admit(g, c), h = g
        PROVE  \E t \in 0..now' : \A d \in Tracked(table'[h]) :
                   \E s \in table'[h][d] : s.at <= t /\ t - s.at < Window[h]
    <2>1. table'[g] = IF Full(g, Entered(g, c)) THEN Compact(g, Entered(g, c))
                                                ELSE Entered(g, c)
      BY <1>3 DEF Admit, LimitInv, LimitTypeOK
    <2>2. table'[g] = Compact(g, Entered(g, c))
      BY <1>3, <2>1
    <2>3. ASSUME NEW d \in Tracked(table'[h])
          PROVE  \E s \in table'[h][d] : s.at <= now /\ now - s.at < Window[h]
      <3>1. d \in Clients /\ table'[h][d] # {}
        BY DEF Tracked
      <3>2. table'[h][d] = Active(g, Entered(g, c)[d])
        BY <1>3, <2>2, <3>1 DEF Compact
      <3>3. PICK s \in table'[h][d] : TRUE
        BY <3>1
      <3>4. now - s.at < Window[h]
        BY <1>3, <3>2 DEF Active
      <3>5. LimitInv'
        BY <1>3, AdmitInv
      <3>6. s \in served'[h][d]
        BY <3>1, <3>5 DEF LimitInv, Kept
      <3>7. s.at <= now'
        BY <3>1, <3>5, <3>6 DEF LimitInv, Past
      <3>8. QED
        BY <1>3, <3>4, <3>7 DEF Admit
    <2>4. now \in 0..now'
      BY <1>0
    <2>5. QED
      BY <2>3, <2>4
  <1>4. \/ table'[h] = table[h]
        \/ Restart
        \/ \E g \in Guards, c \in Clients : Admit(g, c) /\ h = g
    BY DEF LimitNext, Admit, Refuse, Tick, limitVars, LimitInv, LimitTypeOK
  <1>5. QED
    BY <1>1, <1>2, <1>3, <1>4

LEMMA BoundedInit == LimitInit => TableBounded
  <1> SUFFICES ASSUME LimitInit, NEW g \in Guards, Full(g, table[g]) PROVE FALSE
    BY DEF TableBounded
  <1>1. Tracked(table[g]) = {}
    BY DEF LimitInit, None, Tracked
  <1>2. QED
    BY <1>1, FS_EmptySet DEF Full

(* A table over its maximum holds only clients that were active together.  *)
THEOREM TableCorrect == LimitSpec => []TableBounded
  BY BoundedInit, BoundedStep, LimitInvariant, PTL DEF LimitSpec

-----------------------------------------------------------------------------
(* The refinement of SlidingWindow. *)

LEMMA SameCardinality == ASSUME NEW S PROVE Promise!Cardinality(S) = Cardinality(S)
  BY DEF Cardinality, Promise!Cardinality

LEMMA PromiseStep == LimitInv /\ [LimitNext]_limitVars => [Promise!Next]_(Promise!vars)
  <1> SUFFICES ASSUME LimitInv, [LimitNext]_limitVars PROVE [Promise!Next]_(Promise!vars)
    OBVIOUS
  <1>1. ASSUME NEW g \in Guards, NEW c \in Clients
        PROVE  Promise!Recent(g, c) = Active(g, table[g][c])
    BY ActiveKept DEF Active, Promise!Recent
  <1>2. ASSUME NEW g \in Guards, NEW c \in Clients
        PROVE  /\ Limit[g] \in Nat
               /\ Cardinality(Promise!Recent(g, c)) \in Nat
    BY <1>1, ActiveKept
  <1>3. ASSUME NEW g \in Guards, NEW c \in Clients, Admit(g, c)
        PROVE  Promise!Serve(g, c)
    <2>1. Promise!Cardinality(Promise!Recent(g, c)) < Limit[g]
      BY <1>1, <1>2, <1>3, SameCardinality DEF Admit, AtLimit
    <2>2. Promise!Stamp(g, c) = Stamp(g, c)
      BY SameCardinality DEF Stamp, Promise!Stamp
    <2>3. QED
      BY <1>3, <2>1, <2>2 DEF Admit, Promise!Serve, Nobody, Promise!Nobody
  <1>4. ASSUME NEW g \in Guards, NEW c \in Clients, Refuse(g, c)
        PROVE  Promise!Refuse(g, c)
    BY <1>1, <1>4, SameCardinality DEF Refuse, AtLimit, Promise!Refuse
  <1>5. CASE Tick
    BY <1>5 DEF Tick, Promise!Next, Promise!Tick, Nobody, Promise!Nobody
  <1>6. CASE Restart
    BY <1>6 DEF Restart, None, Promise!Next, Promise!Restart, Nobody, Promise!Nobody
  <1>7. CASE UNCHANGED limitVars
    BY <1>7 DEF limitVars, Promise!vars
  <1>8. QED
    BY <1>3, <1>4, <1>5, <1>6, <1>7 DEF LimitNext, Promise!Next

(* The pruned and swept table serves and refuses exactly as a guard that   *)
(* keeps everything.                                                       *)
THEOREM ImplementsPromise == LimitSpec => PromiseKept
  <1>1. LimitInit => Promise!Init
    BY DEF LimitInit, None, Nobody, Promise!Init, Promise!Nobody
  <1>2. QED
    BY <1>1, PromiseStep, LimitInvariant, PTL DEF LimitSpec, PromiseKept, Promise!Spec
=============================================================================
