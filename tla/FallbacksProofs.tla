-------------------------- MODULE FallbacksProofs --------------------------
(***************************************************************************)
(* Proofs about the retry loop and the fallback chain, for any keys, any   *)
(* retry budget and any number of fallbacks.                               *)
(*                                                                         *)
(* The argument: the trail decides which keys are dead and which key is    *)
(* current (KeyInv).  A key is chosen among the live ones, or kept after a *)
(* failure that did not kill it, so that no attempt uses a dead key; the   *)
(* verdicts and the selected key are then read off the trail.              *)
(***************************************************************************)
EXTENDS Fallbacks, TLAPS

Inv ==
    /\ TypeOK
    /\ KeyInv
    /\ DeadKeysStayDead /\ WaitsWhenItHelps /\ BudgetHolds
    /\ SelectedServed /\ VerdictIsTrue

-----------------------------------------------------------------------------
(* The trail *)

\* What a failed attempt writes into its record.
LEMMA FailedRecord ==
  ASSUME trail \in Seq(Record), NEW o
  PROVE  LET r == FailTrail(o) IN
         /\ r \in Seq(Record)
         /\ Len(r) = Len(trail)
         /\ \A i \in 1..Len(trail) :
              /\ r[i].key = trail[i].key
              /\ i < Len(trail) => r[i] = trail[i]
              /\ i = Len(trail) => r[i].fail = IF o \in Failures THEN o ELSE trail[i].fail
<1>1. CASE trail = <<>> \/ o \notin Failures
  BY <1>1 DEF FailTrail
<1>2. CASE trail # <<>> /\ o \in Failures
  <2> DEFINE n == Len(trail)
             r == [trail EXCEPT ![n].fail = o]
  <2>1. n \in Nat /\ n > 0 /\ n \in 1..n /\ DOMAIN trail = 1..n
    BY <1>2
  <2>2. trail[n] \in Record
    BY <2>1
  <2>3. r = [trail EXCEPT ![n] = [trail[n] EXCEPT !.fail = o]]
    OBVIOUS
  <2>4. [trail[n] EXCEPT !.fail = o] \in Record
    BY <2>2, <1>2 DEF Record
  <2>5. r \in Seq(Record) /\ Len(r) = n
    BY <2>1, <2>3, <2>4
  <2>6. \A i \in 1..n : i # n => r[i] = trail[i]
    BY <2>1
  <2>7. r[n].key = trail[n].key /\ r[n].fail = o
    BY <2>1, <2>2 DEF Record
  <2> QED
    BY <1>2, <2>1, <2>5, <2>6, <2>7 DEF FailTrail
<1> QED
  BY <1>1, <1>2

\* What resolving the rotation of the previous attempt writes into its record.
LEMMA ResolvedRecord ==
  ASSUME trail \in Seq(Record), trail # <<>>, NEW k
  PROVE  LET r == Resolved(k) IN
         /\ r \in Seq(Record)
         /\ Len(r) = Len(trail)
         /\ \A i \in 1..Len(trail) : r[i].key = trail[i].key /\ r[i].fail = trail[i].fail
<1> DEFINE n == Len(trail)
           r == [trail EXCEPT ![n].rotated = TRUE]
<1>1. n \in Nat /\ n \in 1..n /\ DOMAIN trail = 1..n
  OBVIOUS
<1>2. trail[n] \in Record
  BY <1>1
<1>3. r = [trail EXCEPT ![n] = [trail[n] EXCEPT !.rotated = TRUE]]
  OBVIOUS
<1>4. [trail[n] EXCEPT !.rotated = TRUE] \in Record
  BY <1>2 DEF Record
<1>5. r \in Seq(Record) /\ Len(r) = n
  BY <1>1, <1>3, <1>4
<1>6. \A i \in 1..n : i # n => r[i] = trail[i]
  BY <1>1
<1>7. r[n].key = trail[n].key /\ r[n].fail = trail[n].fail
  BY <1>1, <1>2 DEF Record
<1> QED
  BY <1>1, <1>5, <1>6, <1>7 DEF Resolved

-----------------------------------------------------------------------------
(* The steps of the worker *)

\* What WorkerStep says of the variables the worker does not touch.
Outside ==
    /\ sealedReq' \in BOOLEAN
    /\ UNCHANGED <<answers, skipped, returned, stream, reported>>

LEMMA InvInit == Init => Inv
<1> SUFFICES ASSUME Init PROVE Inv
  OBVIOUS
<1>1. trail = <<>> /\ Len(trail) = 0 /\ pc = "try" /\ FreshLocals
  BY DEF Init
<1>2. TypeOK
  <2>1. trail \in Seq(Record) /\ answers \in Seq([index : 0..NumFallbacks, verdict : Verdicts])
    BY DEF Init
  <2>2. RotationTypeOK
    BY <2>1, RotationAssumption DEF Init, RotationTypeOK, FreshLocals, Places
  <2>3. sealedReq \in BOOLEAN
    BY Zenon DEF Init
  <2>4. /\ fallbackIndex = 0 /\ skipped = {} /\ returned = 0 /\ stream = "none"
        /\ reported \in BOOLEAN
    BY DEF Init
  <2> QED
    BY <2>1, <2>2, <2>3, <2>4, FallbacksAssumption DEF TypeOK
<1>3. KeyInv
  BY <1>1 DEF KeyInv, DeadInv, FreshInv, CurrentInv, FreshLocals
<1> QED
  BY <1>1, <1>2, <1>3 DEF Inv, DeadKeysStayDead, WaitsWhenItHelps, BudgetHolds,
     SelectedServed, VerdictIsTrue

\* An attempt begins with a key that is not dead.
LEMMA BeginInv ==
  ASSUME Inv, Outside, pc = "loop", NEW k \in Keys \cup {NoKey}, NEW u \in SUBSET Keys,
         Begin(k, u),
         mode # "none" => k \in Keys \ dead,
         ~AsksForKey => k = current
  PROVE  Inv'
<1> DEFINE base == IF attempts = 0 THEN <<>> ELSE Resolved(k)
           rec == [key |-> k, fail |-> "none", rotated |-> FALSE]
           n == Len(trail)
<1>0. /\ pc' = "call" /\ current' = k /\ used' = u
      /\ selected' = IF AsksForKey THEN k ELSE selected
      /\ trail' = IF mode = "none" THEN trail ELSE Append(base, rec)
      /\ waited' = (attempts > 0 /\ last # "stripped" /\ ~(last = "permanent" /\ mode # "none" /\ k # current))
      /\ UNCHANGED <<request, keyring, flags, attempts, dead, last, stripped, sealed, outcome>>
  BY DEF Begin, BeginCall
<1>1. trail \in Seq(Record) /\ n \in Nat
  BY DEF Inv, TypeOK, RotationTypeOK
<1>2. CASE mode = "none"
  <2>1. trail = <<>> /\ trail' = <<>> /\ dead = {} /\ dead' = {} /\ mode' = "none"
    BY <1>0, <1>2 DEF Inv, KeyInv, FreshInv, keyring
  <2>2. TypeOK'
    BY <1>0, <1>2, <2>1 DEF Inv, TypeOK, RotationTypeOK, Outside, request, keyring, flags, AsksForKey, Places
  <2>3. KeyInv'
    BY <1>0, <2>1 DEF KeyInv, DeadInv, FreshInv, CurrentInv
  <2>4. BudgetHolds'
    BY <1>0 DEF Inv, BudgetHolds
  <2>5. WaitsWhenItHelps'
    BY <1>0, <1>2, <2>1 DEF WaitsWhenItHelps
  <2> QED
    BY <1>0, <2>1, <2>2, <2>3, <2>4, <2>5 DEF Inv, DeadKeysStayDead, SelectedServed, VerdictIsTrue
<1>3. CASE mode # "none"
  <2>1. /\ trail' = Append(base, rec)
        /\ base \in Seq(Record)
        /\ Len(base) = n
        /\ \A i \in 1..n : base[i].key = trail[i].key /\ base[i].fail = trail[i].fail
    <3>1. CASE attempts = 0
      BY <3>1, <1>0, <1>3, <1>1 DEF Inv, KeyInv, FreshInv
    <3>2. CASE attempts # 0
      <4>1. attempts > 0 /\ trail # <<>>
        BY <3>2, <1>3 DEF Inv, TypeOK, RotationTypeOK, KeyInv, CurrentInv
      <4> QED
        BY <4>1, <3>2, <1>0, <1>1, <1>3, ResolvedRecord
    <3> QED
      BY <3>1, <3>2
  <2> HIDE DEF base
  <2>2. rec \in Record
    BY <1>3 DEF Record
  <2>3. /\ trail' \in Seq(Record) /\ Len(trail') = n + 1 /\ trail'[n + 1] = rec
        /\ \A i \in 1..n : trail'[i].key = trail[i].key /\ trail'[i].fail = trail[i].fail
    BY <2>1, <2>2, <1>1
  <2>4. rec.key = k /\ rec.fail = "none" /\ k \notin dead /\ k \in Keys
    BY <1>3
  <2> HIDE DEF rec
  <2>5. selected' = k
    BY <1>0, <1>3 DEF Inv, TypeOK, RotationTypeOK, KeyInv, CurrentInv, AsksForKey
  <2>6. /\ dead' = dead /\ mode' = mode /\ attempts' = attempts /\ last' = last
        /\ stripped' = stripped /\ sealed' = sealed
    BY <1>0 DEF keyring
  <2>7. TypeOK'
    BY <1>0, <2>3 DEF Inv, TypeOK, RotationTypeOK, Outside, request, keyring, flags, Places
  <2>8. DeadInv'
    <3>1. \A i \in 1..Len(trail') : trail'[i].fail = "permanent" => i \in 1..n /\ trail[i].key = trail'[i].key /\ trail[i].fail = "permanent"
      BY <2>3, <2>4, <1>1
    <3>2. \A i \in 1..n : i \in 1..Len(trail')
      BY <2>3, <1>1
    <3> QED
      BY <3>1, <3>2, <2>3, <2>6 DEF Inv, KeyInv, DeadInv
  <2>9. FreshInv' /\ CurrentInv'
    <3>1. trail' # <<>>
      BY <2>3, <1>1
    <3> QED
      BY <3>1, <1>0, <1>1, <1>3, <2>3, <2>4, <2>5, <2>6 DEF FreshInv, CurrentInv
  <2>10. DeadKeysStayDead'
    <3> SUFFICES ASSUME NEW i \in 1..Len(trail'), NEW j \in 1..Len(trail'), i < j,
                        trail'[i].fail = "permanent"
                 PROVE  trail'[j].key # trail'[i].key
      BY DEF DeadKeysStayDead
    <3>1. i \in 1..n /\ trail[i].fail = "permanent" /\ trail[i].key = trail'[i].key
      BY <2>3, <2>4, <1>1
    <3>2. CASE j = n + 1
      <4>1. trail[i].key \in dead
        BY <3>1 DEF Inv, KeyInv, DeadInv
      <4> QED
        BY <4>1, <3>1, <3>2, <2>3, <2>4
    <3>3. CASE j \in 1..n
      BY <3>1, <3>3, <2>3 DEF Inv, DeadKeysStayDead
    <3> QED
      BY <3>2, <3>3, <2>3, <1>1
  <2>11. WaitsWhenItHelps'
    <3>1. attempts > 0 /\ last = "permanent" => k # current
      BY <1>3, <2>4 DEF Inv, KeyInv, CurrentInv
    <3> QED
      BY <3>1, <1>0, <1>3, <2>6 DEF WaitsWhenItHelps
  <2>12. BudgetHolds'
    BY <1>0, <2>6 DEF Inv, BudgetHolds
  <2> QED
    BY <1>0, <2>7, <2>8, <2>9, <2>10, <2>11, <2>12 DEF Inv, KeyInv, SelectedServed, VerdictIsTrue
<1> QED
  BY <1>2, <1>3

\* A key selection error ends the loop.
LEMMA SelectionFailsInv ==
  ASSUME Inv, Outside, AsksForKey, NEW e \in KeyErrors, SelectionFails(e),
         used' \in SUBSET Keys,
         e = "exhausted" => Live = {},
         e = "suppressed" => hasFilter /\ Live # {}
  PROVE  Inv'
<1>1. /\ pc = "loop" /\ mode # "none"
      /\ pc' = "done" /\ outcome' = e /\ selected' = NoKey
      /\ UNCHANGED <<request, keyring, flags, attempts, current, dead, last, stripped, waited, sealed>>
  BY DEF SelectionFails, AsksForKey
<1>2. trail' = trail
  BY DEF SelectionFails, AsksForKey, Inv, KeyInv, FreshInv
<1>3. TypeOK'
  BY <1>1, <1>2 DEF Inv, TypeOK, RotationTypeOK, Outside, request, keyring, flags, Places
<1>4. KeyInv'
  BY <1>1, <1>2 DEF Inv, KeyInv, DeadInv, FreshInv, CurrentInv, keyring
<1>5. SelectedServed' /\ BudgetHolds' /\ WaitsWhenItHelps'
  BY <1>1 DEF SelectedServed, BudgetHolds, WaitsWhenItHelps, KeyErrors
<1>6. DeadKeysStayDead'
  BY <1>2 DEF Inv, DeadKeysStayDead
<1>7. VerdictIsTrue'
  BY <1>1, <1>2 DEF Inv, KeyInv, DeadInv, VerdictIsTrue, Live, keyring, request
<1> QED
  BY <1>3, <1>4, <1>5, <1>6, <1>7 DEF Inv

\* The pool is built, and the loop starts with it.
LEMMA StartLoopInv ==
  ASSUME Inv, Outside, pc = "pool", NEW m \in {"none", "fixed", "rotate"}, NEW p \in SUBSET Keys,
         StartLoop(m, p)
  PROVE  Inv'
<1>1. /\ mode' = m /\ pool' = p /\ pc' = "loop"
      /\ UNCHANGED <<request, flags, loopVars, sealed, trail, selected, outcome>>
  BY DEF StartLoop
<1>2. /\ FreshLocals /\ trail = <<>> /\ trail' = <<>> /\ Len(trail') = 0
      /\ attempts' = 0 /\ dead' = {} /\ last' = "none"
  BY <1>1 DEF Inv, KeyInv, FreshInv, FreshLocals, loopVars
<1>3. TypeOK'
  BY <1>1 DEF Inv, TypeOK, RotationTypeOK, Outside, request, flags, loopVars, Places
<1>4. KeyInv'
  BY <1>1, <1>2 DEF KeyInv, DeadInv, FreshInv, CurrentInv
<1>5. BudgetHolds'
  BY <1>1, <1>2, RotationAssumption DEF BudgetHolds
<1> QED
  BY <1>1, <1>2, <1>3, <1>4, <1>5 DEF Inv, DeadKeysStayDead, WaitsWhenItHelps, SelectedServed, VerdictIsTrue

LEMMA PoolErrorInv ==
  ASSUME Inv, Outside, pc = "pool", PoolError
  PROVE  Inv'
<1>1. /\ pc' = "done" /\ outcome' = "noKeys" /\ mode' = "none" /\ pool' = {}
      /\ UNCHANGED <<request, flags, loopVars, sealed, trail, selected>>
  BY DEF PoolError
<1>2. FreshLocals /\ trail = <<>> /\ trail' = <<>> /\ Len(trail') = 0 /\ dead' = {}
  BY <1>1 DEF Inv, KeyInv, FreshInv, FreshLocals, loopVars
<1>3. TypeOK'
  BY <1>1 DEF Inv, TypeOK, RotationTypeOK, Outside, request, flags, loopVars, Places, KeyErrors
<1>4. KeyInv'
  BY <1>1, <1>2 DEF KeyInv, DeadInv, FreshInv, CurrentInv
<1> QED
  BY <1>1, <1>2, <1>3, <1>4 DEF Inv, DeadKeysStayDead, WaitsWhenItHelps, SelectedServed, VerdictIsTrue, BudgetHolds

LEMMA BuildPoolInv == ASSUME Inv, Outside, BuildPool PROVE Inv'
<1>1. CASE NoKeyProvider
  BY <1>1, StartLoopInv, PoolErrorInv DEF NoKeyProvider
<1>2. CASE DirectKey
  BY <1>2, StartLoopInv DEF DirectKey, Inv, TypeOK, RotationTypeOK
<1>3. CASE \E s \in SUBSET Keys : SelectPool(s)
  <2>1. PICK s \in SUBSET Keys : SelectPool(s)
    BY <1>3
  <2>2. pc = "pool"
    BY <2>1 DEF SelectPool
  <2>3. \/ PoolError
        \/ \E k \in s : StartLoop("fixed", {k})
        \/ StartLoop("fixed", s) \/ StartLoop("rotate", s)
    BY <2>1 DEF SelectPool
  <2>4. CASE PoolError
    BY <2>2, <2>4, PoolErrorInv
  <2>5. CASE \E p \in SUBSET Keys : StartLoop("fixed", p) \/ StartLoop("rotate", p)
    BY <2>2, <2>5, StartLoopInv
  <2>6. ASSUME NEW k \in s PROVE {k} \in SUBSET Keys
    BY <2>1
  <2> QED
    BY <2>1, <2>3, <2>4, <2>5, <2>6
<1> QED
  BY <1>1, <1>2, <1>3 DEF BuildPool

LEMMA SelectKeyInv == ASSUME Inv, Outside, SelectKey PROVE Inv'
<1> USE DEF Live
<1>0. used \in SUBSET Keys /\ current \in Keys \cup {NoKey} /\ pool \in SUBSET Keys /\ attempts \in Nat
  BY DEF Inv, TypeOK, RotationTypeOK
<1>1. CASE KeepKey
  <2>1. pc = "loop" /\ ~AsksForKey /\ Begin(current, used)
    BY <1>1 DEF KeepKey
  <2>2. mode # "none" => current \in Keys \ dead
    <3> SUFFICES ASSUME mode # "none" PROVE current \in Keys \ dead
      OBVIOUS
    <3>1. attempts > 0 /\ last \notin PerKey
      BY <2>1, <1>0 DEF AsksForKey
    <3>2. trail # <<>> /\ selected = current /\ current \notin dead
      BY <3>1, <2>1 DEF Inv, KeyInv, CurrentInv, PerKey
    <3>3. trail \in Seq(Record) /\ trail[Len(trail)].key = current
      BY <2>1, <3>1 DEF Inv, TypeOK, RotationTypeOK, KeyInv, CurrentInv
    <3>4. trail[Len(trail)] \in Record
      BY <3>2, <3>3
    <3> QED
      BY <3>2, <3>3, <3>4 DEF Record
  <2> QED
    BY <2>1, <2>2, <1>0, BeginInv
<1>2. ASSUME NEW k \in Keys, FixedKey(k) \/ RotateKey(k) \/ FreshRound(k)
      PROVE  Inv'
  <2>1. AsksForKey /\ pc = "loop" /\ k \in Keys \ dead
    BY <1>2 DEF FixedKey, RotateKey, FreshRound, AsksForKey, KeyPoolFilter, Unused
  <2>2. Begin(k, used) \/ Begin(k, {})
    BY <1>2 DEF FixedKey, RotateKey, FreshRound
  <2> QED
    BY <2>1, <2>2, <1>0, BeginInv
<1>3. CASE KeysExhausted
  <2>1. AsksForKey /\ Live = {} /\ SelectionFails("exhausted") /\ used' \in SUBSET Keys
    BY <1>3, <1>0 DEF KeysExhausted
  <2>2. "exhausted" \in KeyErrors
    BY DEF KeyErrors
  <2> QED
    BY <2>1, <2>2, SelectionFailsInv
<1>4. CASE KeysSuppressed
  <2>1. /\ AsksForKey /\ Live # {} /\ {} \in KeyPoolFilter(Live)
        /\ SelectionFails("suppressed") /\ used' \in SUBSET Keys
    BY <1>4, <1>0 DEF KeysSuppressed
  <2>2. hasFilter
    BY <2>1 DEF KeyPoolFilter
  <2>3. "suppressed" \in KeyErrors
    BY DEF KeyErrors
  <2> QED
    BY <2>1, <2>2, <2>3, SelectionFailsInv
<1>5. CASE SelectorFails
  <2>1. AsksForKey /\ SelectionFails("selector") /\ used' \in SUBSET Keys
    BY <1>5, <1>0 DEF SelectorFails
  <2>2. "selector" \in KeyErrors
    BY DEF KeyErrors
  <2> QED
    BY <2>1, <2>2, SelectionFailsInv
<1> QED
  BY <1>1, <1>2, <1>3, <1>4, <1>5 DEF SelectKey

\* The provider's error is judged, after the call or after the first chunk.
LEMMA JudgeInv ==
  ASSUME Inv, Outside, pc \in {"call", "drain"}, NEW o, Judge(o),
         UNCHANGED <<request, keyring>>, connClosed' \in BOOLEAN, streamEnd' \in BOOLEAN
  PROVE  Inv'
<1> DEFINE n == Len(trail)
<1>1. /\ trail' = FailTrail(o) /\ outcome' = o /\ UNCHANGED <<current, waited>>
      /\ mode' = mode /\ pool' = pool
  BY DEF Judge, Retry, Strip, GiveUp, Leave, keyring
<1>2. /\ trail \in Seq(Record) /\ n \in Nat /\ attempts \in Nat /\ MaxRetries \in Nat
      /\ current \in Keys \cup {NoKey} /\ dead \in SUBSET Keys /\ used \in SUBSET Keys
  BY RotationAssumption DEF Inv, TypeOK, RotationTypeOK
<1>3. /\ trail' \in Seq(Record) /\ Len(trail') = n
      /\ \A i \in 1..n :
           /\ trail'[i].key = trail[i].key
           /\ i < n => trail'[i] = trail[i]
           /\ i = n => trail'[i].fail = IF o \in Failures THEN o ELSE trail[i].fail
  BY <1>1, <1>2, FailedRecord
<1>4. mode # "none" => /\ n > 0 /\ trail # <<>> /\ trail[n].key = current /\ trail[n].fail = "none"
                       /\ current \notin dead /\ selected = current /\ current \in Keys
  <2> SUFFICES ASSUME mode # "none"
               PROVE  /\ n > 0 /\ trail # <<>> /\ trail[n].key = current /\ trail[n].fail = "none"
                      /\ current \notin dead /\ selected = current /\ current \in Keys
    OBVIOUS
  <2>1. /\ trail # <<>> /\ trail[n].key = current /\ trail[n].fail = "none"
        /\ current \notin dead /\ selected = current
    BY DEF Inv, KeyInv, CurrentInv
  <2>2. n > 0 /\ trail[n] \in Record
    BY <2>1, <1>2
  <2> QED
    BY <2>1, <2>2 DEF Record
<1>5. mode = "none" => trail = <<>> /\ n = 0 /\ dead = {} /\ trail' = <<>>
  <2>1. mode = "none" => trail = <<>> /\ dead = {}
    BY DEF Inv, KeyInv, FreshInv
  <2> QED
    BY <2>1, <1>1 DEF FailTrail
<1>6. dead' = IF o = "permanent" /\ mode # "none" THEN dead \cup {current} ELSE dead
  BY DEF Judge, Retry, Strip, GiveUp, MarkKey
<1>7. /\ used' \in SUBSET Keys /\ dead' \in SUBSET Keys
      /\ o \in {"rateLimit", "permanent", "transient", "encrypted", "halt", "other"}
  <2>1. used' = used \/ (used' = used \cup {current} /\ mode # "none")
    BY DEF Judge, Retry, Strip, GiveUp, MarkKey
  <2> QED
    BY <2>1, <1>2, <1>4, <1>6 DEF Judge, Retry, Strip, GiveUp, Retryable, PerKey
<1>8. TypeOK'
  <2>1. /\ pc' \in {"loop", "done"} /\ attempts' \in Nat
        /\ last' \in Retryable \cup {"none", "stripped"}
        /\ selected' \in Keys \cup {NoKey}
    BY <1>2 DEF Inv, TypeOK, RotationTypeOK, Judge, Retry, Strip, GiveUp, Leave
  <2>3. (UNCHANGED <<stripped, sealed>>) \/ (stripped' = TRUE /\ sealed' = FALSE)
    BY Zenon DEF Judge, Retry, Strip, GiveUp, Leave
  <2>4. stripped' \in BOOLEAN /\ sealed' \in BOOLEAN
    BY <2>3 DEF Inv, TypeOK, RotationTypeOK
  <2>2. outcome' \in Outcomes
    BY <1>1, <1>7 DEF Outcomes, Failures, Retryable, PerKey
  <2> QED
    BY <1>1, <1>2, <1>3, <1>7, <2>1, <2>2, <2>4
       DEF Inv, TypeOK, RotationTypeOK, Outside, request, keyring, Places
<1>9. DeadInv'
  <2>1. ASSUME NEW i \in 1..Len(trail'), trail'[i].fail = "permanent" PROVE trail'[i].key \in dead'
    <3>1. n > 0 /\ mode # "none" /\ i \in 1..n
      BY <1>3, <1>5, <1>2, <2>1
    <3>2. CASE i < n
      BY <3>1, <3>2, <2>1, <1>3, <1>6 DEF Inv, KeyInv, DeadInv
    <3>3. CASE i = n
      BY <3>1, <3>3, <2>1, <1>3, <1>4, <1>6, <1>7 DEF Failures, Retryable, PerKey
    <3> QED
      BY <3>1, <3>2, <3>3, <1>2
  <2>2. ASSUME NEW k \in dead' PROVE \E i \in 1..Len(trail') : trail'[i].key = k /\ trail'[i].fail = "permanent"
    <3>1. CASE k \in dead
      <4>1. mode # "none"
        BY <3>1, <1>5
      <4>2. PICK i \in 1..n : trail[i].key = k /\ trail[i].fail = "permanent"
        BY <3>1 DEF Inv, KeyInv, DeadInv
      <4>3. i < n
        BY <4>1, <4>2, <1>4, <1>2
      <4> QED
        BY <4>2, <4>3, <1>3
    <3>2. CASE k \notin dead
      <4>1. o = "permanent" /\ mode # "none" /\ k = current
        BY <2>2, <3>2, <1>6
      <4>2. n \in 1..n /\ trail'[n].key = k /\ trail'[n].fail = "permanent"
        BY <4>1, <1>2, <1>3, <1>4 DEF Failures, Retryable, PerKey
      <4> QED
        BY <4>2, <1>3
    <3> QED
      BY <3>1, <3>2
  <2> QED
    BY <2>1, <2>2 DEF DeadInv
<1>10. FreshInv'
  <2>1. pc' = "loop" => attempts' > 0
    BY <1>2 DEF Judge, Retry, Strip, GiveUp, Leave
  <2>2. pc' \in {"loop", "done"}
    BY DEF Judge, Retry, Strip, GiveUp, Leave
  <2> QED
    BY <2>1, <2>2, <1>1, <1>5, <1>6, <1>8 DEF FreshInv, TypeOK, RotationTypeOK
<1>11. CurrentInv'
  <2> SUFFICES ASSUME mode' # "none", pc' = "loop"
               PROVE  /\ trail' # <<>> /\ trail'[Len(trail')].key = current'
                      /\ selected' = current' /\ last' # "none"
                      /\ current' \in dead' <=> last' = "permanent"
    BY DEF CurrentInv, Judge, Retry, Strip, GiveUp, Leave
  <2>1. trail' # <<>> /\ trail'[Len(trail')].key = current'
    BY <1>1, <1>2, <1>3, <1>4
  <2>2. selected' = selected
    BY DEF Judge, Retry, Strip, GiveUp, Leave
  <2>3. last' = IF o \in Retryable THEN o ELSE "stripped"
    BY DEF Judge, Retry, Strip, GiveUp, Leave, Retryable, PerKey
  <2> QED
    BY <2>1, <2>2, <2>3, <1>1, <1>4, <1>6 DEF Retryable, PerKey
<1>12. DeadKeysStayDead'
  <2> SUFFICES ASSUME NEW i \in 1..Len(trail'), NEW j \in 1..Len(trail'), i < j,
                      trail'[i].fail = "permanent"
               PROVE  trail'[j].key # trail'[i].key
    BY DEF DeadKeysStayDead
  <2>1. i \in 1..n /\ j \in 1..n /\ i < n /\ trail[i].fail = "permanent"
    BY <1>2, <1>3
  <2> QED
    BY <2>1, <1>3 DEF Inv, DeadKeysStayDead
<1>13. BudgetHolds'
  <2>1. attempts <= MaxRetries + (IF stripped THEN 1 ELSE 0)
    BY DEF Inv, BudgetHolds
  <2>2. CASE Retry(o)
    BY <2>1, <2>2, <1>2 DEF Retry, Leave, LastAttempt, BudgetHolds, Retryable, PerKey
  <2>3. CASE Strip(o)
    BY <2>1, <2>3, <1>2 DEF Strip, BudgetHolds
  <2>4. CASE GiveUp(o)
    BY <2>4 DEF GiveUp, Leave, BudgetHolds
  <2> QED
    BY <2>2, <2>3, <2>4 DEF Judge
<1>14. WaitsWhenItHelps' /\ SelectedServed' /\ VerdictIsTrue'
  <2>1. pc' \in {"loop", "done"} /\ (pc' = "done" /\ mode # "none" => selected' = NoKey)
    BY DEF Judge, Retry, Strip, GiveUp, Leave
  <2> QED
    BY <2>1, <1>1, <1>7 DEF WaitsWhenItHelps, SelectedServed, VerdictIsTrue
<1> QED
  BY <1>8, <1>9, <1>10, <1>11, <1>12, <1>13, <1>14 DEF Inv, KeyInv

LEMMA AttemptInv == ASSUME Inv, Outside, Attempt PROVE Inv'
<1>0. connClosed \in BOOLEAN /\ streamEnd \in BOOLEAN
  BY DEF Inv, TypeOK, RotationTypeOK
<1>1. CASE CallSucceeds
  <2>1. /\ pc = "call" /\ pc' = "done" /\ outcome' = "ok"
        /\ UNCHANGED <<request, keyring, flags, loopVars, sealed, trail, selected>>
    BY <1>1 DEF CallSucceeds
  <2>2. TypeOK'
    BY <2>1 DEF Inv, TypeOK, RotationTypeOK, Outside, request, keyring, flags, loopVars, Places, Outcomes
  <2>3. KeyInv'
    BY <2>1 DEF Inv, KeyInv, DeadInv, FreshInv, CurrentInv, keyring, loopVars
  <2>4. SelectedServed'
    BY <2>1 DEF Inv, KeyInv, CurrentInv, SelectedServed, keyring
  <2>5. DeadKeysStayDead'
    BY <2>1 DEF Inv, DeadKeysStayDead
  <2> QED
    BY <2>1, <2>2, <2>3, <2>4, <2>5 DEF Inv, WaitsWhenItHelps, BudgetHolds, VerdictIsTrue
<1>2. CASE Drained
  <2>1. /\ pc \in {"call", "drain"} /\ Judge(outcome)
        /\ UNCHANGED <<request, keyring>> /\ connClosed' \in BOOLEAN /\ streamEnd' \in BOOLEAN
    BY <1>2, <1>0 DEF Drained
  <2> QED
    BY <2>1, JudgeInv
<1>3. ASSUME NEW o \in Errors, CallFails(o) PROVE Inv'
  <2>1. /\ pc \in {"call", "drain"} /\ Judge(o)
        /\ UNCHANGED <<request, keyring>> /\ connClosed' \in BOOLEAN /\ streamEnd' \in BOOLEAN
    BY <1>3, <1>0 DEF CallFails, flags
  <2> QED
    BY <2>1, JudgeInv
<1>4. ASSUME NEW o \in Errors, FirstChunkFails(o) PROVE Inv'
  <2>1. /\ pc = "call" /\ pc' = "drain" /\ outcome' = o /\ connClosed' = TRUE /\ streamEnd' = TRUE
        /\ UNCHANGED <<request, keyring, loopVars, sealed, trail, selected>>
    BY <1>4 DEF FirstChunkFails
  <2>2. TypeOK'
    BY <2>1 DEF Inv, TypeOK, RotationTypeOK, Outside, request, keyring, loopVars, Places, Errors
  <2>3. KeyInv'
    BY <2>1 DEF Inv, KeyInv, DeadInv, FreshInv, CurrentInv, keyring, loopVars
  <2>4. DeadKeysStayDead' /\ BudgetHolds'
    BY <2>1 DEF Inv, DeadKeysStayDead, BudgetHolds, loopVars
  <2> QED
    BY <2>1, <2>2, <2>3, <2>4 DEF Inv, WaitsWhenItHelps, SelectedServed, VerdictIsTrue
<1> QED
  BY <1>1, <1>2, <1>3, <1>4 DEF Attempt

-----------------------------------------------------------------------------
(* The steps around the worker *)

\* A step that leaves the worker's variables alone.
LEMMA AsideInv ==
  ASSUME Inv, TypeOK',
         \/ pc' = pc \/ pc' \in {"answered", "returned"}
         \/ pc = "try" /\ pc' = "pool",
         UNCHANGED <<request, keyring, loopVars, sealed, trail, selected, outcome>>
  PROVE  Inv'
<1> USE DEF keyring, loopVars, request
<1>1. KeyInv'
  BY DEF Inv, KeyInv, DeadInv, FreshInv, FreshLocals, CurrentInv
<1>2. DeadKeysStayDead' /\ WaitsWhenItHelps' /\ BudgetHolds'
  BY DEF Inv, DeadKeysStayDead, WaitsWhenItHelps, BudgetHolds
<1>3. SelectedServed' /\ VerdictIsTrue'
  BY DEF Inv, SelectedServed, VerdictIsTrue
<1> QED
  BY <1>1, <1>2, <1>3 DEF Inv

LEMMA AnswerType ==
  ASSUME TypeOK, NEW v \in Verdicts, Answer(v)
  PROVE  /\ answers' \in Seq([index : 0..NumFallbacks, verdict : Verdicts])
         /\ pc' = "answered" /\ Len(answers') = Len(answers) + 1
         /\ answers'[Len(answers) + 1] = [index |-> fallbackIndex, verdict |-> v]
         /\ \A a \in 1..Len(answers) : answers'[a] = answers[a]
<1> DEFINE rec == [index |-> fallbackIndex, verdict |-> v]
<1>1. rec \in [index : 0..NumFallbacks, verdict : Verdicts]
  BY FallbacksAssumption DEF TypeOK, RotationTypeOK
<1> HIDE DEF rec
<1>2. answers' = Append(answers, rec) /\ pc' = "answered"
  BY DEF Answer, rec
<1> QED
  BY <1>1, <1>2 DEF TypeOK, rec

LEMMA NextInv == ASSUME Inv, Next PROVE Inv'
<1> USE DEF request, keyring, loopVars, flags
<1>0. TypeOK
  BY DEF Inv
<1>1. ASSUME NEW v \in Verdicts, AnswerEarly(v) \/ AnswerAfterHooks(v) PROVE Inv'
  <2>1. Answer(v)
    BY <1>1 DEF AnswerEarly, AnswerAfterHooks
  <2>2. /\ UNCHANGED <<request, keyring, connClosed, loopVars, sealed, trail, selected, outcome,
                       sealedReq, skipped, returned, stream, reported>>
        /\ streamEnd' = streamEnd \/ streamEnd' = (streamEnd \/ streaming)
    BY <1>1 DEF AnswerEarly, AnswerAfterHooks
  <2>3. streamEnd' \in BOOLEAN
    BY <2>2 DEF Inv, TypeOK, RotationTypeOK
  <2>5. answers' \in Seq([index : 0..NumFallbacks, verdict : Verdicts]) /\ pc' = "answered"
    BY <1>0, <2>1, AnswerType
  <2>4. TypeOK'
    BY <1>0, <2>5, <2>2, <2>3 DEF TypeOK, RotationTypeOK, Places
  <2> QED
    BY <2>1, <2>2, <2>4, AsideInv DEF Answer
<1>2. CASE Enqueue
  <2>1. /\ pc = "try" /\ pc' = "pool"
        /\ UNCHANGED <<request, keyring, flags, loopVars, sealed, trail, selected, outcome, fallbackVars>>
    BY <1>2 DEF Enqueue
  <2>2. TypeOK'
    BY <1>0, <2>1 DEF TypeOK, RotationTypeOK, Places, fallbackVars
  <2> QED
    BY <2>1, <2>2, AsideInv
<1>3. CASE AnswerStream \/ CallerLeaves
  <2>1. PICK v \in Verdicts : Answer(v)
    BY <1>3 DEF AnswerStream, CallerLeaves, Verdicts
  <2>2. /\ UNCHANGED <<request, keyring, flags, loopVars, sealed, trail, selected, outcome,
                       sealedReq, skipped, returned, reported>>
        /\ stream' \in {stream, "open", "none"}
    BY <1>3 DEF AnswerStream, CallerLeaves
  <2>4. answers' \in Seq([index : 0..NumFallbacks, verdict : Verdicts]) /\ pc' = "answered"
    BY <1>0, <2>1, AnswerType
  <2>3. TypeOK'
    BY <1>0, <2>2, <2>4 DEF TypeOK, RotationTypeOK, Places
  <2> QED
    BY <2>1, <2>2, <2>3, AsideInv DEF Answer
<1>4. CASE WorkerStep
  <2>1. Outside
    BY <1>4, <1>0 DEF WorkerStep, Outside, TypeOK
  <2>2. BuildPool \/ SelectKey \/ Attempt
    BY <1>4 DEF WorkerStep, RotationNext
  <2> QED
    BY <2>1, <2>2, BuildPoolInv, SelectKeyInv, AttemptInv
<1>5. CASE ReturnAnswer \/ ReturnPrimary
  <2>1. /\ pc' = "returned" /\ returned' \in {1, Len(answers)}
        /\ UNCHANGED <<request, keyring, flags, loopVars, sealed, trail, selected, outcome,
                       sealedReq, answers, skipped, stream, reported>>
    BY <1>5 DEF ReturnAnswer, ReturnPrimary, Return
  <2>2. TypeOK'
    BY <1>0, <2>1 DEF TypeOK, RotationTypeOK, Places
  <2> QED
    BY <2>1, <2>2, AsideInv
<1>6. ASSUME NEW skip \in BOOLEAN, NextFallback(skip) PROVE Inv'
  <2>1. /\ fallbackIndex < NumFallbacks /\ fallbackIndex' = fallbackIndex + 1
        /\ pinned' = NoKey /\ trail' = <<>> /\ streamEnd' = FALSE /\ connClosed' = FALSE
        /\ pc' \in {"answered", "try"} /\ skipped' \in {skipped, skipped \cup {fallbackIndex + 1}}
        /\ sealed' = sealed \/ sealed' = sealedReq
        /\ DropLocals
        /\ UNCHANGED <<streaming, hasFilter, direct, session, selected,
                       sealedReq, answers, returned, stream, reported>>
    BY <1>6 DEF NextFallback, PrepareFallback
  <2>2. sealed' \in BOOLEAN
    BY <2>1, <1>0 DEF TypeOK, RotationTypeOK
  <2>3. trail' \in Seq(Record) /\ Len(trail') = 0
    BY <2>1
  <2>4. fallbackIndex' \in Nat /\ fallbackIndex' <= NumFallbacks /\ skipped' \in SUBSET (1..NumFallbacks)
    BY <2>1, <1>0, FallbacksAssumption DEF TypeOK, RotationTypeOK
  <2>5. TypeOK'
    <3>1. /\ mode' \in {"none", "fixed", "rotate"} /\ pool' \in SUBSET Keys
          /\ attempts' \in Nat /\ current' \in Keys \cup {NoKey}
          /\ used' \in SUBSET Keys /\ dead' \in SUBSET Keys
          /\ last' \in Retryable \cup {"none", "stripped"}
          /\ stripped' \in BOOLEAN /\ waited' \in BOOLEAN
          /\ outcome' \in Outcomes \cup KeyErrors \cup {"none"}
      BY <2>1 DEF DropLocals
    <3>2. /\ pc' \in Places /\ pinned' \in Keys \cup {NoKey}
          /\ streamEnd' \in BOOLEAN /\ connClosed' \in BOOLEAN
      BY <2>1 DEF Places
    <3>3. RotationTypeOK'
      BY <1>0, <2>1, <2>2, <2>3, <2>4, <3>1, <3>2 DEF TypeOK, RotationTypeOK
    <3> QED
      BY <1>0, <2>1, <2>4, <3>3 DEF TypeOK
  <2>6. KeyInv'
    BY <2>1 DEF KeyInv, DeadInv, FreshInv, FreshLocals, CurrentInv, DropLocals
  <2>7. DeadKeysStayDead'
    BY <2>3 DEF DeadKeysStayDead
  <2>8. (WaitsWhenItHelps /\ BudgetHolds /\ SelectedServed /\ VerdictIsTrue)'
    <3>1. pc' \notin {"loop", "call", "drain", "done"}
      BY <2>1
    <3> QED
      BY <3>1, Zenon DEF WaitsWhenItHelps, BudgetHolds, SelectedServed, VerdictIsTrue
  <2> QED
    BY <2>5, <2>6, <2>7, <2>8 DEF Inv
<1>7. CASE StreamEnds \/ StreamCancelled
  <2>1. /\ stream' \in {"ended", "cut"} /\ streamEnd' = TRUE
        /\ reported' = TRUE \/ reported' = ~streamEnd
        /\ UNCHANGED <<pc, request, keyring, connClosed, loopVars, sealed, trail, selected, outcome,
                       sealedReq, answers, skipped, returned>>
    BY <1>7 DEF StreamEnds, StreamCancelled
  <2>2. reported' \in BOOLEAN
    BY <2>1
  <2>3. TypeOK'
    BY <1>0, <2>1, <2>2 DEF TypeOK, RotationTypeOK
  <2> QED
    BY <2>1, <2>3, AsideInv
<1> QED
  BY <1>1, <1>2, <1>3, <1>4, <1>5, <1>6, <1>7 DEF Next, Try, Orchestrate

-----------------------------------------------------------------------------
(* The chain of answers *)

LEMMA ChainInit == Init => ChainInv
BY FallbacksAssumption DEF Init, ChainInv, Pending

\* A step that neither answers nor goes on in the chain.
LEMMA SameChain ==
  ASSUME ChainInv, UNCHANGED <<answers, skipped, returned, fallbackIndex>>,
         Pending' = Pending, pc' = "returned" => pc = "returned"
  PROVE  ChainInv'
BY DEF ChainInv

\* The worker stays inside its try.
LEMMA WorkerStays ==
  ASSUME RotationNext
  PROVE  Pending /\ Pending' /\ fallbackIndex' = fallbackIndex
<1> USE DEF request
<1>1. CASE BuildPool
  BY <1>1 DEF BuildPool, NoKeyProvider, DirectKey, SelectPool, StartLoop, PoolError, Pending
<1>2. CASE SelectKey
  BY <1>2 DEF SelectKey, KeepKey, FixedKey, RotateKey, FreshRound, KeysExhausted, KeysSuppressed,
     SelectorFails, SelectionFails, Begin, BeginCall, AsksForKey, Pending
<1>3. CASE Attempt
  BY <1>3 DEF Attempt, CallSucceeds, CallFails, FirstChunkFails, Drained, Judge, Retry, Strip, GiveUp,
     Leave, Pending
<1> QED
  BY <1>1, <1>2, <1>3 DEF RotationNext

\* An answer takes the place of the chain that was open.
LEMMA AnswerChain ==
  ASSUME TypeOK, ChainInv, Pending, NEW v \in Verdicts, Answer(v),
         UNCHANGED <<skipped, returned, fallbackIndex>>
  PROVE  ChainInv'
<1> DEFINE n == Len(answers)
<1>1. /\ pc' = "answered" /\ Len(answers') = n + 1 /\ n \in Nat /\ fallbackIndex \in Nat
      /\ answers'[n + 1].index = fallbackIndex
      /\ \A a \in 1..n : answers'[a] = answers[a]
  <2>1. answers \in Seq([index : 0..NumFallbacks, verdict : Verdicts]) /\ fallbackIndex \in Nat
    BY DEF TypeOK, RotationTypeOK
  <2>2. /\ pc' = "answered" /\ Len(answers') = n + 1
        /\ answers'[n + 1] = [index |-> fallbackIndex, verdict |-> v]
        /\ \A a \in 1..n : answers'[a] = answers[a]
    BY AnswerType
  <2> QED
    BY <2>1, <2>2
<1>2. ~Pending' /\ pc' # "returned"
  BY <1>1 DEF Pending
<1>3. \A a \in 1..n : /\ answers[a].verdict = "error"
                      /\ answers[a].index \in (0..fallbackIndex) \ skipped
                      /\ answers[a].index # fallbackIndex
  BY DEF ChainInv
<1>4. \A a \in 1..n + 1 : a \in 1..n \/ a = n + 1
  BY <1>1
<1>5. \A a, b \in 1..n + 1 : a < b => answers'[a].index < answers'[b].index
  <2> SUFFICES ASSUME NEW a \in 1..n + 1, NEW b \in 1..n + 1, a < b
               PROVE  answers'[a].index < answers'[b].index
    OBVIOUS
  <2>1. a \in 1..n
    BY <1>1
  <2>2. CASE b \in 1..n
    BY <2>1, <2>2, <1>1 DEF ChainInv
  <2>3. CASE b = n + 1
    BY <2>1, <2>3, <1>1, <1>3
  <2> QED
    BY <2>2, <2>3, <1>4
<1>6. \A a \in 1..n + 1 : /\ a < n + 1 => answers'[a].verdict = "error"
                          /\ answers'[a].index \in (0..fallbackIndex) \ skipped
  <2>1. fallbackIndex \in (0..fallbackIndex) \ skipped
    BY <1>1 DEF ChainInv
  <2> QED
    BY <2>1, <1>1, <1>3, <1>4
<1>7. \A i \in (0..fallbackIndex) \ skipped : \E a \in 1..n + 1 : answers'[a].index = i
  <2> SUFFICES ASSUME NEW i \in (0..fallbackIndex) \ skipped
               PROVE  \E a \in 1..n + 1 : answers'[a].index = i
    OBVIOUS
  <2>1. CASE i = fallbackIndex
    BY <2>1, <1>1
  <2>2. CASE i # fallbackIndex
    <3>1. PICK a \in 1..n : answers[a].index = i
      BY <2>2 DEF ChainInv
    <3> QED
      BY <3>1, <1>1
  <2> QED
    BY <2>1, <2>2
<1>8. skipped' \subseteq 1..fallbackIndex'
  BY DEF ChainInv
<1>9. /\ \A a \in 1..Len(answers') :
            /\ a < Len(answers') \/ Pending' => answers'[a].verdict = "error"
            /\ answers'[a].index \in (0..fallbackIndex') \ skipped'
            /\ Pending' => answers'[a].index # fallbackIndex'
      /\ \A a, b \in 1..Len(answers') : a < b => answers'[a].index < answers'[b].index
  <2>1. Len(answers') = n + 1 /\ fallbackIndex' = fallbackIndex /\ skipped' = skipped
    BY <1>1
  <2> QED
    BY <2>1, <1>2, <1>5, <1>6
<1>10. \A i \in (0..fallbackIndex') \ skipped' : \E a \in 1..Len(answers') : answers'[a].index = i
  <2>1. Len(answers') = n + 1 /\ fallbackIndex' = fallbackIndex /\ skipped' = skipped
    BY <1>1
  <2> QED
    BY <2>1, <1>7
<1>11. Len(answers') > 0
  BY <1>1
<1> HIDE DEF n
<1> QED
  BY <1>2, <1>8, <1>9, <1>10, <1>11, Zenon DEF ChainInv

LEMMA ChainNext == ASSUME Inv, ChainInv, Next PROVE ChainInv'
<1>0. TypeOK /\ fallbackIndex \in Nat /\ Len(answers) \in Nat
  BY DEF Inv, TypeOK, RotationTypeOK
<1>1. ASSUME NEW v \in Verdicts, AnswerEarly(v) \/ AnswerAfterHooks(v) PROVE ChainInv'
  <2>1. Answer(v) /\ Pending /\ UNCHANGED <<skipped, returned, fallbackIndex>>
    BY <1>1 DEF AnswerEarly, AnswerAfterHooks, Pending, request
  <2> QED
    BY <2>1, <1>0, AnswerChain
<1>2. CASE Enqueue
  BY <1>2, SameChain DEF Enqueue, Pending, request, fallbackVars
<1>3. CASE AnswerStream \/ CallerLeaves
  <2>1. PICK v \in Verdicts : Answer(v)
    BY <1>3 DEF AnswerStream, CallerLeaves, Verdicts
  <2>2. Pending /\ UNCHANGED <<skipped, returned, fallbackIndex>>
    BY <1>3 DEF AnswerStream, CallerLeaves, Pending, request
  <2> QED
    BY <2>1, <2>2, <1>0, AnswerChain
<1>4. CASE WorkerStep
  <2>1. RotationNext /\ UNCHANGED <<answers, skipped, returned>>
    BY <1>4 DEF WorkerStep
  <2>2. Pending /\ Pending' /\ fallbackIndex' = fallbackIndex
    BY <2>1, WorkerStays
  <2>3. Pending' = Pending /\ pc' # "returned"
    BY <2>2 DEF Pending
  <2> QED
    BY <2>1, <2>2, <2>3, SameChain
<1>5. CASE ReturnAnswer \/ ReturnPrimary
  <2>1. /\ pc = "answered" /\ pc' = "returned"
        /\ UNCHANGED <<answers, skipped, fallbackIndex>>
        /\ IF answers[Len(answers)].verdict = "error" THEN returned' = 1 /\ fallbackIndex = NumFallbacks
           ELSE returned' = Len(answers)
    BY <1>5 DEF ReturnAnswer, ReturnPrimary, Return, LastVerdict, request
  <2>2. ~Pending /\ ~Pending'
    BY <2>1 DEF Pending
  <2> QED
    BY <2>1, <2>2 DEF ChainInv
<1>6. ASSUME NEW skip \in BOOLEAN, NextFallback(skip) PROVE ChainInv'
  <2> DEFINE n == Len(answers)
  <2>1. /\ pc = "answered" /\ answers[n].verdict = "error"
        /\ fallbackIndex' = fallbackIndex + 1 /\ UNCHANGED <<answers, returned>>
        /\ \/ skipped' = skipped \cup {fallbackIndex + 1} /\ pc' = "answered"
           \/ skipped' = skipped /\ pc' = "try"
    BY <1>6 DEF NextFallback, PrepareFallback, LastVerdict
  <2>2. ~Pending /\ pc' # "returned" /\ (Pending' <=> pc' = "try")
    BY <2>1 DEF Pending
  <2>3. n > 0 /\ \A a \in 1..n : answers[a].verdict = "error"
    BY <2>1, <2>2, <1>0 DEF ChainInv
  <2>4. \A a \in 1..n : /\ answers[a].index \in (0..fallbackIndex') \ skipped'
                        /\ answers[a].index # fallbackIndex'
    BY <2>1, <1>0 DEF ChainInv
  <2>5. \A i \in (0..fallbackIndex') \ skipped' :
          (Pending' /\ i = fallbackIndex') \/ \E a \in 1..n : answers[a].index = i
    <3> SUFFICES ASSUME NEW i \in (0..fallbackIndex') \ skipped', ~(Pending' /\ i = fallbackIndex')
                 PROVE  \E a \in 1..n : answers[a].index = i
      OBVIOUS
    <3>1. i \in (0..fallbackIndex) \ skipped
      BY <2>1, <2>2, <1>0
    <3> QED
      BY <3>1, <2>2 DEF ChainInv
  <2>6. skipped \subseteq 1..fallbackIndex
    BY DEF ChainInv
  <2>7. skipped' \subseteq 1..fallbackIndex' /\ (Pending' => fallbackIndex' \notin skipped')
    <3>1. 1..fallbackIndex \subseteq 1..fallbackIndex' /\ fallbackIndex + 1 \in 1..fallbackIndex'
          /\ fallbackIndex' \notin 1..fallbackIndex
      BY <2>1, <1>0
    <3>2. Pending' => skipped' = skipped
      BY <2>1, <2>2
    <3>3. skipped' = skipped \/ skipped' = skipped \cup {fallbackIndex + 1}
      BY <2>1
    <3> QED
      BY <3>1, <3>2, <3>3, <2>6
  <2>8. \A a, b \in 1..n : a < b => answers[a].index < answers[b].index
    BY DEF ChainInv
  <2> QED
    BY <2>1, <2>2, <2>3, <2>4, <2>5, <2>7, <2>8 DEF ChainInv
<1>7. CASE StreamEnds \/ StreamCancelled
  BY <1>7, SameChain DEF StreamEnds, StreamCancelled, Pending, request
<1> QED
  BY <1>1, <1>2, <1>3, <1>4, <1>5, <1>6, <1>7 DEF Next, Try, Orchestrate

LEMMA ChainAnswers == ASSUME TypeOK, ChainInv PROVE RightAnswer
<1> DEFINE n == Len(answers)
           decisive == {a \in 1..n : answers[a].verdict # "error"}
           tried == {answers[a].index : a \in 1..n}
<1>0. n \in Nat
  BY DEF TypeOK
<1>1. decisive \subseteq {n}
  BY <1>0 DEF ChainInv
<1>2. \A a, b \in 1..n : a < b => answers[a].index < answers[b].index
  BY DEF ChainInv
<1>3. ASSUME pc = "returned"
      PROVE  IF decisive # {} THEN returned \in decisive
             ELSE returned = 1 /\ tried = (0..NumFallbacks) \ skipped
  <2>1. ~Pending /\ n > 0 /\ n \in 1..n
    BY <1>3, <1>0 DEF ChainInv, Pending
  <2>2. CASE answers[n].verdict # "error"
    BY <2>1, <2>2, <1>3 DEF ChainInv
  <2>3. CASE answers[n].verdict = "error"
    <3>1. decisive = {}
      BY <1>1, <2>3
    <3>2. returned = 1 /\ fallbackIndex = NumFallbacks
      BY <1>3, <2>3 DEF ChainInv
    <3>3. tried \subseteq (0..fallbackIndex) \ skipped
      BY DEF ChainInv
    <3>4. (0..fallbackIndex) \ skipped \subseteq tried
      BY <2>1 DEF ChainInv
    <3> QED
      BY <3>1, <3>2, <3>3, <3>4
  <2> QED
    BY <2>2, <2>3
<1> QED
  BY <1>1, <1>2, <1>3 DEF RightAnswer

-----------------------------------------------------------------------------
(* Theorems *)

\* The key rotation keeps its inductive invariant: trail, dead keys, current and
\* selected key of executeRequestWithRetries agree, in every try of the chain.
THEOREM RotationInvariance == Spec => []Inv
<1>1. Inv /\ UNCHANGED vars => Inv'
  <2> SUFFICES ASSUME Inv, UNCHANGED vars PROVE Inv'
    OBVIOUS
  <2> USE DEF vars, rotationVars, fallbackVars, request, keyring, flags, loopVars
  <2>1. TypeOK'
    BY DEF Inv, TypeOK, RotationTypeOK
  <2> QED
    BY <2>1, AsideInv
<1>2. Inv /\ [Next]_vars => Inv'
  BY <1>1, NextInv
<1> QED
  BY <1>2, InvInit, PTL DEF Spec

\* The variables of the loop and of the chain keep their types.
THEOREM FallbacksTypes == Spec => []TypeOK
<1>1. Inv => TypeOK
  BY DEF Inv
<1> QED
  BY <1>1, RotationInvariance, PTL

\* The trail, the dead keys and the selected key agree (KeyInv).
THEOREM KeysAgree == Spec => []KeyInv
<1>1. Inv => KeyInv
  BY DEF Inv
<1> QED
  BY <1>1, RotationInvariance, PTL

\* A key that failed with 401, 402 or 403 is never used again in the request, for
\* any pool, retry budget, filter and sequence of failures.
THEOREM NoDeadKeyReuse == Spec => []DeadKeysStayDead
<1>1. Inv => DeadKeysStayDead
  BY DEF Inv
<1> QED
  BY <1>1, RotationInvariance, PTL

\* "Credentials exhausted" is answered only when every key of the pool has failed for
\* good, "no eligible keys" only when the filter suppressed a live one.
THEOREM TrueVerdicts == Spec => []VerdictIsTrue
<1>1. Inv => VerdictIsTrue
  BY DEF Inv
<1> QED
  BY <1>1, RotationInvariance, PTL

\* The selected key after the loop is the one that served the response, or none.
THEOREM SelectedKeyServed == Spec => []SelectedServed
<1>1. Inv => SelectedServed
  BY DEF Inv
<1> QED
  BY <1>1, RotationInvariance, PTL

\* The loop makes MaxRetries + 1 attempts at most, and one more for a stripped request.
THEOREM RetryBudget == Spec => []BudgetHolds
<1>1. Inv => BudgetHolds
  BY DEF Inv
<1> QED
  BY <1>1, RotationInvariance, PTL

\* Retries wait, except with a new key after a permanent failure or a new payload.
THEOREM BackoffWhenUseful == Spec => []WaitsWhenItHelps
<1>1. Inv => WaitsWhenItHelps
  BY DEF Inv
<1> QED
  BY <1>1, RotationInvariance, PTL

\* The answers and the skipped fallbacks account for the chain passed so far.
THEOREM ChainInvariance == Spec => []ChainInv
<1>1. ChainInv /\ UNCHANGED vars => ChainInv'
  BY DEF ChainInv, Pending, vars, rotationVars, fallbackVars, request
<1>2. Inv /\ ChainInv /\ [Next]_vars => ChainInv'
  BY <1>1, ChainNext
<1> QED
  BY <1>2, ChainInit, RotationInvariance, PTL DEF Spec

\* The caller gets the first success or veto, or the primary's error once all
\* configured fallbacks were tried in order, for any number of fallbacks.
THEOREM ChainReturnsRightAnswer == Spec => []RightAnswer
<1>1. Inv /\ ChainInv => RightAnswer
  BY ChainAnswers DEF Inv
<1> QED
  BY <1>1, RotationInvariance, ChainInvariance, PTL
=============================================================================
