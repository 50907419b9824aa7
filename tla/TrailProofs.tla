---------------------------- MODULE TrailProofs ----------------------------
(***************************************************************************)
(* Proofs about the attempt trail of executeRequestWithRetries, for any    *)
(* keys, any retry budget and any number of fallbacks: the trail explains  *)
(* itself, rate limits are spread evenly over the live keys, and the trail *)
(* that a caller reads is that of the last try.                            *)
(*                                                                         *)
(* The argument: only two steps write the trail.  The choice of a key      *)
(* resolves the record before and appends one; the judgement of a failure  *)
(* fills in the reason of the last one.  The locals of the loop say which  *)
(* of the two comes next and what the last record looks like.              *)
(***************************************************************************)
EXTENDS FallbacksProofs, FiniteSetTheorems

(***************************************************************************)
(* The inductive invariant.                                                *)
(***************************************************************************)

InLoop == pc \in {"loop", "call", "drain"}

\* The reason of the last record is the class of the last failure, and an attempt was
\* repeated without its encrypted reasoning exactly when stripped is set.
ReasonInv ==
    LET n == Len(trail)
    IN  /\ pc = "loop" /\ attempts > 0 /\ trail # <<>> =>
              trail[n].fail = IF last = "stripped" THEN "encrypted" ELSE last
        /\ InLoop =>
              /\ ~stripped => \A i \in 1..n : trail[i].fail # "encrypted"
              /\ \A i, j \in 1..n :
                    trail[i].fail = "encrypted" /\ trail[j].fail = "encrypted" => i = j

\* All live keys have met m rate limits, those used in this round one more.
EvenAt(m) == \A k \in Live : RateLimited(k) = IF k \in used THEN m + 1 ELSE m

\* The current key has no rate limit in this round until it fails with one.
RoundInv ==
    mode = "rotate" /\ ~hasFilter /\ InLoop =>
        /\ \E m \in Nat : EvenAt(m)
        /\ pc \in {"call", "drain"} => current \notin used
        /\ pc = "loop" /\ attempts > 0 /\ last \notin PerKey => current \notin used

\* The trail is about keys of this try's pool, and so is the last answer.
TryInv ==
    /\ \A i \in 1..Len(trail) : trail[i].key \in pool
    /\ pc \in {"answered", "returned"} /\ trail # <<>> =>
          answers # <<>> /\ answers[Len(answers)].index = fallbackIndex

TrailInv ==
    /\ TrailIsCoherent /\ ReasonInv
    /\ RoundsAreFair /\ RoundInv
    /\ TryInv

-----------------------------------------------------------------------------
(* What the steps write into the trail.                                     *)

LEMMA TrailTypes ==
  ASSUME Inv
  PROVE  /\ trail \in Seq(Record) /\ Len(trail) \in Nat
         /\ trail = <<>> <=> Len(trail) = 0
         /\ \A i \in 1..Len(trail) : trail[i] \in Record
BY DEF Inv, TypeOK, RotationTypeOK

\* Nothing but the mark of the rotation changes in the record before, and nothing at all
\* in those before it.
LEMMA ResolvedMark ==
  ASSUME trail \in Seq(Record), trail # <<>>, NEW k
  PROVE  LET r == Resolved(k)
             n == Len(trail)
         IN  /\ \A i \in 1..n : i < n => r[i] = trail[i]
             /\ IF attempts > 0 /\ last \in PerKey /\ trail[n].key # k
                THEN r[n].rotated = TRUE ELSE r[n] = trail[n]
<1> DEFINE n == Len(trail)
           r == [trail EXCEPT ![n].rotated = TRUE]
<1>1. n \in Nat /\ n \in 1..n /\ DOMAIN trail = 1..n
  OBVIOUS
<1>2. trail[n] \in Record
  BY <1>1
<1>3. \A i \in 1..n : i < n => r[i] = trail[i]
  BY <1>1
<1>4. r[n].rotated = TRUE
  BY <1>1, <1>2 DEF Record
<1> QED
  BY <1>1, <1>3, <1>4 DEF Resolved

\* The trail when an attempt begins.
LEMMA BeginTrail ==
  ASSUME Inv, pc = "loop", mode # "none", NEW k \in Keys, NEW u, Begin(k, u),
         ~AsksForKey => k = current
  PROVE  LET n == Len(trail) IN
         /\ Len(trail') = n + 1
         /\ trail'[n + 1] = [key |-> k, fail |-> "none", rotated |-> FALSE]
         /\ \A i \in 1..n : trail'[i].key = trail[i].key /\ trail'[i].fail = trail[i].fail
         /\ \A i \in 1..n : i < n => trail'[i] = trail[i]
         /\ n > 0 => /\ attempts > 0
                     /\ k # trail[n].key => trail'[n].rotated = TRUE /\ last \in PerKey
                     /\ k = trail[n].key => trail'[n] = trail[n]
<1> DEFINE base == IF attempts = 0 THEN <<>> ELSE Resolved(k)
           rec == [key |-> k, fail |-> "none", rotated |-> FALSE]
           n == Len(trail)
<1>1. /\ trail \in Seq(Record) /\ n \in Nat /\ (trail = <<>> <=> n = 0)
      /\ attempts \in Nat /\ trail' = Append(base, rec)
  BY TrailTypes DEF Begin, BeginCall, Inv, TypeOK, RotationTypeOK
<1>2. rec \in Record
  BY DEF Record
<1>3. CASE attempts = 0
  <2>1. trail = <<>> /\ base = <<>>
    BY <1>3 DEF Inv, KeyInv, FreshInv
  <2>2. n = 0 /\ <<>> \in Seq(Record) /\ trail' = Append(<<>>, rec)
    BY <1>1, <2>1
  <2> HIDE DEF rec
  <2>3. Len(trail') = 1 /\ trail'[1] = rec
    BY <1>2, <2>2
  <2> QED
    BY <2>2, <2>3 DEF rec
<1>4. CASE attempts > 0
  <2>1. trail # <<>> /\ trail[n].key = current
    BY <1>4 DEF Inv, KeyInv, CurrentInv
  <2>2. base = Resolved(k)
    BY <1>1, <1>4
  <2>3. /\ base \in Seq(Record) /\ Len(base) = n
        /\ \A i \in 1..n : base[i].key = trail[i].key /\ base[i].fail = trail[i].fail
    BY <1>1, <2>1, <2>2, ResolvedRecord
  <2>4. /\ \A i \in 1..n : i < n => base[i] = trail[i]
        /\ IF attempts > 0 /\ last \in PerKey /\ trail[n].key # k
           THEN base[n].rotated = TRUE ELSE base[n] = trail[n]
    BY <1>1, <2>1, <2>2, ResolvedMark
  <2>5. last \notin PerKey => k = trail[n].key
    BY <1>4, <2>1 DEF AsksForKey
  <2> HIDE DEF base
  <2>6. /\ Len(trail') = n + 1 /\ trail'[n + 1] = rec
        /\ \A i \in 1..n : trail'[i] = base[i]
    BY <1>1, <1>2, <2>3
  <2>7. n \in 1..n
    BY <1>1, <2>1
  <2> QED
    BY <1>4, <2>3, <2>4, <2>5, <2>6, <2>7
<1>5. attempts = 0 \/ attempts > 0
  BY <1>1
<1> QED
  BY <1>3, <1>4, <1>5

\* The trail when a failure is judged.
LEMMA JudgeTrail ==
  ASSUME Inv, pc \in {"call", "drain"}, mode # "none", NEW o, Judge(o)
  PROVE  LET n == Len(trail) IN
         /\ n > 0 /\ Len(trail') = n
         /\ trail[n].key = current /\ trail[n].fail = "none" /\ current \in Keys \ dead
         /\ \A i \in 1..n : i < n => trail'[i] = trail[i]
         /\ trail'[n].key = current /\ trail'[n].rotated = trail[n].rotated
         /\ trail'[n].fail = IF o \in Failures THEN o ELSE "none"
<1> DEFINE n == Len(trail)
<1>1. /\ trail' = FailTrail(o)
      /\ trail \in Seq(Record) /\ n \in Nat
      /\ trail # <<>> /\ trail[n].key = current /\ trail[n].fail = "none" /\ current \notin dead
  BY TrailTypes DEF Judge, Retry, Strip, GiveUp, Leave, Inv, KeyInv, CurrentInv
<1>2. n > 0 /\ n \in 1..n /\ trail[n] \in Record /\ DOMAIN trail = 1..n
  BY <1>1
<1>3. current \in Keys
  BY <1>1, <1>2 DEF Record
<1>4. /\ Len(trail') = n
      /\ \A i \in 1..n :
           /\ trail'[i].key = trail[i].key
           /\ i < n => trail'[i] = trail[i]
           /\ i = n => trail'[i].fail = IF o \in Failures THEN o ELSE trail[i].fail
  BY <1>1, FailedRecord
<1>5. trail'[n].rotated = trail[n].rotated
  <2>1. [trail EXCEPT ![n].fail = o][n].rotated = trail[n].rotated
    BY <1>2 DEF Record
  <2> QED
    BY <1>1, <2>1 DEF FailTrail
<1> QED
  BY <1>1, <1>2, <1>3, <1>4, <1>5

-----------------------------------------------------------------------------
(* How often a key met its rate limit.                                      *)

Hits(t, k) == {i \in 1..Len(t) : t[i].key = k /\ t[i].fail = "rateLimit"}

LEMMA HitsCounted == \A k : RateLimited(k) = Cardinality(Hits(trail, k))
BY DEF RateLimited, Hits

LEMMA NextHitsCounted == \A k : RateLimited(k)' = Cardinality(Hits(trail', k))
BY DEF RateLimited, Hits

LEMMA HitsFinite ==
  ASSUME Inv, NEW k
  PROVE  IsFiniteSet(Hits(trail, k)) /\ Cardinality(Hits(trail, k)) \in Nat
<1>1. IsFiniteSet(1..Len(trail))
  BY TrailTypes, FS_Interval
<1>2. Hits(trail, k) \in SUBSET (1..Len(trail))
  BY DEF Hits
<1> QED
  BY <1>1, <1>2, FS_Subset, FS_CardinalityType

\* Beginning an attempt changes no count.
LEMMA BeginHits ==
  ASSUME Inv, pc = "loop", mode # "none", NEW k \in Keys, NEW u, Begin(k, u),
         ~AsksForKey => k = current, NEW x
  PROVE  RateLimited(x)' = RateLimited(x)
<1>1. Len(trail) \in Nat
  BY TrailTypes
<1>2. /\ Len(trail') = Len(trail) + 1
      /\ trail'[Len(trail) + 1] = [key |-> k, fail |-> "none", rotated |-> FALSE]
      /\ \A i \in 1..Len(trail) : trail'[i].key = trail[i].key /\ trail'[i].fail = trail[i].fail
  BY BeginTrail
<1>3. trail'[Len(trail) + 1].fail = "none"
  BY <1>2
<1>4. Hits(trail', x) = Hits(trail, x)
  BY <1>1, <1>2, <1>3 DEF Hits
<1> QED
  BY <1>4, HitsCounted, NextHitsCounted

\* Judging a failure counts a rate limit for the current key, and no other.
LEMMA JudgeHits ==
  ASSUME Inv, pc \in {"call", "drain"}, mode # "none", NEW o, Judge(o), NEW x
  PROVE  RateLimited(x)' = IF o = "rateLimit" /\ x = current THEN RateLimited(x) + 1
                           ELSE RateLimited(x)
<1> DEFINE n == Len(trail)
<1>1. n \in Nat
  BY TrailTypes
<1>2. /\ n > 0 /\ Len(trail') = n
      /\ trail[n].key = current /\ trail[n].fail = "none"
      /\ \A i \in 1..n : i < n => trail'[i] = trail[i]
      /\ trail'[n].key = current
      /\ trail'[n].fail = IF o \in Failures THEN o ELSE "none"
  BY JudgeTrail
<1>3. n \notin Hits(trail, x) /\ IsFiniteSet(Hits(trail, x))
  BY <1>2, HitsFinite DEF Hits
<1>4. "rateLimit" \in Failures
  BY DEF Failures, Retryable, PerKey
<1>5. CASE o = "rateLimit" /\ x = current
  <2>1. Hits(trail', x) = Hits(trail, x) \cup {n}
    BY <1>1, <1>2, <1>4, <1>5 DEF Hits
  <2> QED
    BY <1>3, <1>5, <2>1, FS_AddElement, HitsCounted, NextHitsCounted
<1>6. CASE ~(o = "rateLimit" /\ x = current)
  <2>1. Hits(trail', x) = Hits(trail, x)
    BY <1>1, <1>2, <1>6 DEF Hits
  <2> QED
    BY <1>6, <2>1, HitsCounted, NextHitsCounted
<1> QED
  BY <1>5, <1>6

LEMMA EvenIsFair ==
  ASSUME NEW m \in Nat, EvenAt(m)
  PROVE  RoundsAreFair
BY DEF RoundsAreFair, EvenAt

LEMMA NextEvenIsFair ==
  ASSUME NEW m \in Nat, EvenAt(m)'
  PROVE  RoundsAreFair'
BY DEF RoundsAreFair, EvenAt

-----------------------------------------------------------------------------
(* The steps.                                                               *)

LEMMA EmptyTrail ==
  ASSUME trail' = <<>>
  PROVE  TrailIsCoherent' /\ ReasonInv' /\ TryInv'
<1>1. Len(trail') = 0 /\ 1..Len(trail') = {}
  OBVIOUS
<1> QED
  BY <1>1 DEF TrailIsCoherent, ReasonInv, TryInv

\* Without a trail and used keys, no key has met a rate limit.
LEMMA EmptyRounds ==
  ASSUME trail' = <<>>, used' = {}, pc' \in {"loop", "done"}, pc' = "loop" => attempts' = 0
  PROVE  RoundsAreFair' /\ RoundInv'
<1>1. \A k : Hits(trail', k) = {}
  BY DEF Hits
<1>2. \A k : RateLimited(k)' = 0
  BY <1>1, FS_EmptySet, NextHitsCounted
<1>3. EvenAt(0)'
  BY <1>2 DEF EvenAt
<1> QED
  BY <1>3, NextEvenIsFair DEF RoundInv

\* A key is chosen or kept.
LEMMA TrailBegin ==
  ASSUME Inv, TrailInv, pc = "loop", NEW k \in Keys \cup {NoKey}, NEW u, Begin(k, u),
         mode # "none" => k \in pool /\ k \in Keys,
         ~AsksForKey => k = current,
         mode = "rotate" /\ ~hasFilter => \/ u = used /\ k \notin used
                                          \/ u = {} /\ Unused = {}
  PROVE  TrailInv'
<1> DEFINE n == Len(trail)
<1>1. /\ pc' = "call" /\ current' = k /\ used' = u
      /\ mode' = mode /\ pool' = pool /\ hasFilter' = hasFilter
      /\ attempts' = attempts /\ dead' = dead /\ last' = last /\ stripped' = stripped
  BY DEF Begin, BeginCall, keyring, request
<1>2. CASE mode = "none"
  <2>1. trail' = <<>>
    BY <1>2 DEF Begin, BeginCall, Inv, KeyInv, FreshInv
  <2>2. RoundsAreFair' /\ RoundInv'
    BY <1>1, <1>2 DEF RoundsAreFair, RoundInv
  <2> QED
    BY <2>1, <2>2, EmptyTrail DEF TrailInv
<1>3. CASE mode # "none"
  <2>1. /\ n \in Nat /\ k \in Keys /\ k \in pool /\ (trail = <<>> <=> n = 0)
    BY <1>3, TrailTypes
  <2>2. /\ Len(trail') = n + 1
        /\ trail'[n + 1] = [key |-> k, fail |-> "none", rotated |-> FALSE]
        /\ \A i \in 1..n : trail'[i].key = trail[i].key /\ trail'[i].fail = trail[i].fail
        /\ \A i \in 1..n : i < n => trail'[i] = trail[i]
        /\ n > 0 => /\ attempts > 0
                    /\ k # trail[n].key => trail'[n].rotated = TRUE /\ last \in PerKey
                    /\ k = trail[n].key => trail'[n] = trail[n]
    BY <1>3, <2>1, BeginTrail
  <2>3. trail'[n + 1].key = k /\ trail'[n + 1].fail = "none" /\ trail'[n + 1].rotated = FALSE
    BY <2>2
  <2>4. /\ \A i \in 1..n : trail[i].rotated <=> i < n /\ trail[i + 1].key # trail[i].key
        /\ \A i \in 1..n : i < n => /\ trail[i].fail \in Retryable \cup {"encrypted"}
                                    /\ trail[i].rotated => trail[i].fail \in PerKey
    BY DEF TrailInv, TrailIsCoherent
  <2>5. n > 0 => /\ trail[n].fail = IF last = "stripped" THEN "encrypted" ELSE last
                 /\ trail[n].fail \in Retryable \cup {"encrypted"}
                 /\ last \in PerKey => trail[n].fail \in PerKey
    <3> SUFFICES ASSUME n > 0
                 PROVE  /\ trail[n].fail = IF last = "stripped" THEN "encrypted" ELSE last
                        /\ trail[n].fail \in Retryable \cup {"encrypted"}
                        /\ last \in PerKey => trail[n].fail \in PerKey
      OBVIOUS
    <3>1. attempts > 0 /\ trail # <<>>
      BY <2>1, <2>2
    <3>2. trail[n].fail = IF last = "stripped" THEN "encrypted" ELSE last
      BY <3>1 DEF TrailInv, ReasonInv
    <3>3. last \in Retryable \cup {"stripped"}
      BY <1>3, <3>1 DEF Inv, TypeOK, RotationTypeOK, KeyInv, CurrentInv
    <3> QED
      BY <3>2, <3>3 DEF PerKey
  <2>6. \A i \in 1..n + 1 : i \in 1..n \/ i = n + 1
    BY <2>1
  <2>7. TrailIsCoherent'
    <3>1. \A i \in 1..n + 1 : trail'[i].rotated <=> i < n + 1 /\ trail'[i + 1].key # trail'[i].key
      <4> SUFFICES ASSUME NEW i \in 1..n + 1
                   PROVE  trail'[i].rotated <=> i < n + 1 /\ trail'[i + 1].key # trail'[i].key
        OBVIOUS
      <4>1. CASE i = n + 1
        BY <2>1, <2>3, <4>1
      <4>2. CASE i = n
        <5>1. n > 0 /\ i < n + 1 /\ trail'[i].key = trail[n].key /\ trail'[i + 1].key = k
          BY <2>1, <2>2, <2>3, <4>2
        <5>2. ~trail[n].rotated
          BY <2>1, <2>4, <5>1
        <5>3. CASE k = trail[n].key
          BY <2>2, <4>2, <5>1, <5>2, <5>3
        <5>4. CASE k # trail[n].key
          BY <2>2, <4>2, <5>1, <5>4
        <5> QED
          BY <5>3, <5>4
      <4>3. CASE i < n
        <5>1. i \in 1..n /\ i + 1 \in 1..n /\ i < n + 1
          BY <2>1, <4>3
        <5> QED
          BY <2>2, <2>4, <4>3, <5>1
      <4> QED
        BY <2>1, <4>1, <4>2, <4>3
    <3>2. \A i \in 1..n + 1 : i < n + 1 => /\ trail'[i].fail \in Retryable \cup {"encrypted"}
                                           /\ trail'[i].rotated => trail'[i].fail \in PerKey
      <4> SUFFICES ASSUME NEW i \in 1..n + 1, i < n + 1
                   PROVE  /\ trail'[i].fail \in Retryable \cup {"encrypted"}
                          /\ trail'[i].rotated => trail'[i].fail \in PerKey
        OBVIOUS
      <4>1. i \in 1..n
        BY <2>1
      <4>2. CASE i < n
        BY <2>2, <2>4, <4>1, <4>2
      <4>3. CASE i = n
        <5>1. n > 0 /\ trail'[i].fail = trail[n].fail
          BY <2>2, <4>1, <4>3
        <5>2. k = trail[n].key => ~trail'[i].rotated
          BY <2>2, <2>4, <4>1, <4>3, <5>1
        <5> QED
          BY <2>2, <2>5, <5>1, <5>2
      <4> QED
        BY <2>1, <4>1, <4>2, <4>3
    <3>3. \A i, j \in 1..n + 1 :
            i < n + 1 /\ j < n + 1 /\ trail'[i].fail = "encrypted" /\ trail'[j].fail = "encrypted"
              => i = j
      BY <2>2, <2>3, <2>6 DEF TrailInv, ReasonInv, InLoop
    <3> QED
      BY <2>2, <3>1, <3>2, <3>3 DEF TrailIsCoherent
  <2>8. ReasonInv'
    <3>1. ~stripped' => \A i \in 1..Len(trail') : trail'[i].fail # "encrypted"
      BY <1>1, <2>2, <2>3, <2>6 DEF TrailInv, ReasonInv, InLoop
    <3>2. \A i, j \in 1..Len(trail') :
            trail'[i].fail = "encrypted" /\ trail'[j].fail = "encrypted" => i = j
      BY <2>2, <2>3, <2>6 DEF TrailInv, ReasonInv, InLoop
    <3> QED
      BY <1>1, <3>1, <3>2 DEF ReasonInv
  <2>9. TryInv'
    BY <1>1, <2>1, <2>2, <2>3, <2>6 DEF TrailInv, TryInv
  <2>10. RoundsAreFair' /\ RoundInv'
    <3> SUFFICES ASSUME mode = "rotate", ~hasFilter
                 PROVE  (\E m \in Nat : EvenAt(m)') /\ current' \notin used'
      BY <1>1, NextEvenIsFair DEF RoundInv, RoundsAreFair
    <3>1. PICK m \in Nat : EvenAt(m)
      BY DEF TrailInv, RoundInv, InLoop
    <3>2. \A x : RateLimited(x)' = RateLimited(x)
      BY <1>3, <2>1, BeginHits
    <3>3. Live' = Live
      BY <1>1 DEF Live
    <3>4. CASE u = used /\ k \notin used
      <4>1. EvenAt(m)'
        BY <1>1, <3>1, <3>2, <3>3, <3>4 DEF EvenAt
      <4> QED
        BY <1>1, <3>4, <4>1
    <3>5. CASE u = {} /\ Unused = {}
      <4>1. EvenAt(m + 1)'
        BY <1>1, <3>1, <3>2, <3>3, <3>5 DEF EvenAt, Unused
      <4> QED
        BY <1>1, <3>5, <4>1
    <3> QED
      BY <3>4, <3>5
  <2> QED
    BY <2>7, <2>8, <2>9, <2>10 DEF TrailInv
<1> QED
  BY <1>2, <1>3

\* A failure is judged.
LEMMA TrailJudge ==
  ASSUME Inv, TrailInv, pc \in {"call", "drain"}, NEW o, Judge(o), UNCHANGED <<request, keyring>>
  PROVE  TrailInv'
<1> DEFINE n == Len(trail)
<1>1. /\ pc' \in {"loop", "done"} /\ current' = current
      /\ mode' = mode /\ pool' = pool /\ hasFilter' = hasFilter
      /\ dead' = IF o = "permanent" /\ mode # "none" THEN dead \cup {current} ELSE dead
      /\ used' = IF o = "rateLimit" /\ mode # "none" THEN used \cup {current} ELSE used
      /\ o \in {"rateLimit", "permanent", "transient", "encrypted", "halt", "other"}
  BY DEF Judge, Retry, Strip, GiveUp, Leave, MarkKey, keyring, request, Retryable, PerKey
<1>2. pc' = "loop" => \/ o \in Retryable /\ last' = o /\ UNCHANGED stripped
                      \/ o = "encrypted" /\ last' = "stripped" /\ ~stripped /\ stripped' = TRUE
  BY DEF Judge, Retry, Strip, GiveUp, Leave
<1>3. CASE mode = "none"
  <2>1. trail = <<>>
    BY <1>3 DEF Inv, KeyInv, FreshInv
  <2>2. trail' = <<>>
    BY <2>1 DEF Judge, Retry, Strip, GiveUp, Leave, FailTrail
  <2>3. RoundsAreFair' /\ RoundInv'
    BY <1>1, <1>3 DEF RoundsAreFair, RoundInv
  <2> QED
    BY <2>2, <2>3, EmptyTrail DEF TrailInv
<1>4. CASE mode # "none"
  <2>1. n \in Nat
    BY TrailTypes
  <2>2. /\ n > 0 /\ Len(trail') = n
        /\ trail[n].key = current /\ trail[n].fail = "none" /\ current \in Keys \ dead
        /\ \A i \in 1..n : i < n => trail'[i] = trail[i]
        /\ trail'[n].key = current /\ trail'[n].rotated = trail[n].rotated
        /\ trail'[n].fail = IF o \in Failures THEN o ELSE "none"
    BY <1>4, JudgeTrail
  <2>3. \A i \in 1..n : /\ trail'[i].key = trail[i].key /\ trail'[i].rotated = trail[i].rotated
                        /\ i < n \/ i = n
    BY <2>1, <2>2
  <2>4. TrailIsCoherent'
    <3>1. \A i \in 1..n : trail'[i].rotated <=> i < n /\ trail'[i + 1].key # trail'[i].key
      <4> SUFFICES ASSUME NEW i \in 1..n
                   PROVE  trail'[i].rotated <=> i < n /\ trail'[i + 1].key # trail'[i].key
        OBVIOUS
      <4>1. trail[i].rotated <=> i < n /\ trail[i + 1].key # trail[i].key
        BY DEF TrailInv, TrailIsCoherent
      <4>2. i < n => trail'[i + 1].key = trail[i + 1].key
        BY <2>1, <2>3
      <4> QED
        BY <2>3, <4>1, <4>2
    <3>2. \A i \in 1..n : i < n => /\ trail'[i].fail \in Retryable \cup {"encrypted"}
                                   /\ trail'[i].rotated => trail'[i].fail \in PerKey
      BY <2>2 DEF TrailInv, TrailIsCoherent
    <3>3. \A i, j \in 1..n : i < n /\ j < n /\ trail'[i].fail = "encrypted"
                               /\ trail'[j].fail = "encrypted" => i = j
      BY <2>2 DEF TrailInv, TrailIsCoherent
    <3> QED
      BY <2>2, <3>1, <3>2, <3>3 DEF TrailIsCoherent
  <2>5. ReasonInv'
    <3> SUFFICES ASSUME pc' = "loop"
                 PROVE  /\ trail'[n].fail = IF last' = "stripped" THEN "encrypted" ELSE last'
                        /\ ~stripped' => \A i \in 1..n : trail'[i].fail # "encrypted"
                        /\ \A i, j \in 1..n :
                             trail'[i].fail = "encrypted" /\ trail'[j].fail = "encrypted" => i = j
      BY <1>1, <2>2 DEF ReasonInv, InLoop
    <3>1. /\ ~stripped => \A i \in 1..n : trail[i].fail # "encrypted"
          /\ \A i, j \in 1..n :
               trail[i].fail = "encrypted" /\ trail[j].fail = "encrypted" => i = j
      BY DEF TrailInv, ReasonInv, InLoop
    <3>2. CASE o \in Retryable /\ last' = o /\ UNCHANGED stripped
      <4>1. trail'[n].fail = o /\ o # "encrypted" /\ o # "stripped"
        BY <2>2, <3>2 DEF Failures, Retryable, PerKey
      <4>2. \A i \in 1..n : trail'[i].fail = "encrypted" => trail[i].fail = "encrypted"
        BY <2>2, <2>3, <4>1
      <4> QED
        BY <3>1, <3>2, <4>1, <4>2
    <3>3. CASE o = "encrypted" /\ last' = "stripped" /\ ~stripped /\ stripped' = TRUE
      <4>1. trail'[n].fail = "encrypted"
        BY <2>2, <3>3 DEF Failures
      <4>2. \A i \in 1..n : trail'[i].fail = "encrypted" => i = n
        BY <2>2, <2>3, <3>1, <3>3
      <4> QED
        BY <3>3, <4>1, <4>2
    <3> QED
      BY <1>2, <3>2, <3>3
  <2>6. TryInv'
    BY <1>1, <2>2, <2>3 DEF TrailInv, TryInv
  <2>7. RoundsAreFair' /\ RoundInv'
    <3> SUFFICES ASSUME mode = "rotate", ~hasFilter
                 PROVE  /\ \E m \in Nat : EvenAt(m)'
                        /\ pc' = "loop" /\ last' \notin PerKey => current' \notin used'
      BY <1>1, NextEvenIsFair DEF RoundInv, RoundsAreFair
    <3>1. PICK m \in Nat : EvenAt(m)
      BY DEF TrailInv, RoundInv, InLoop
    <3>2. \A x : RateLimited(x)' = IF o = "rateLimit" /\ x = current THEN RateLimited(x) + 1
                                   ELSE RateLimited(x)
      BY <1>4, JudgeHits
    <3>3. current \notin used /\ Live' \subseteq Live
      BY <1>1 DEF TrailInv, RoundInv, InLoop, Live
    <3>4. EvenAt(m)'
      BY <1>1, <1>4, <3>1, <3>2, <3>3 DEF EvenAt
    <3>5. pc' = "loop" /\ last' \notin PerKey => current' \notin used'
      BY <1>1, <1>2, <3>3 DEF PerKey
    <3> QED
      BY <3>4, <3>5
  <2> QED
    BY <2>4, <2>5, <2>6, <2>7 DEF TrailInv
<1> QED
  BY <1>3, <1>4

\* A step that leaves the trail and the locals of the loop, or leaves the loop.
LEMMA TrailAside ==
  ASSUME TrailInv,
         UNCHANGED <<trail, mode, pool, hasFilter, attempts, current, dead, last, stripped>>,
         \/ pc' = pc /\ UNCHANGED used
         \/ pc = "call" /\ pc' = "drain" /\ UNCHANGED used
         \/ pc' = "done" /\ InLoop
         \/ pc' \in {"pool", "answered", "returned"},
         pc' \in {"answered", "returned"} /\ trail # <<>> =>
            answers' # <<>> /\ answers'[Len(answers')].index = fallbackIndex'
  PROVE  TrailInv'
<1>1. TrailIsCoherent' /\ TryInv'
  BY DEF TrailInv, TrailIsCoherent, TryInv
<1>2. ReasonInv'
  BY DEF TrailInv, ReasonInv, InLoop
<1>3. Live' = Live /\ \A k : RateLimited(k)' = RateLimited(k)
  BY DEF Live, RateLimited
<1>4. RoundsAreFair'
  BY <1>3 DEF TrailInv, RoundsAreFair, RoundInv, InLoop
<1>5. RoundInv'
  <2>1. CASE InLoop'
    <3>1. InLoop /\ UNCHANGED used
      BY <2>1 DEF InLoop
    <3>2. \A m : EvenAt(m)' <=> EvenAt(m)
      BY <1>3, <3>1 DEF EvenAt
    <3> QED
      BY <3>1, <3>2 DEF TrailInv, RoundInv, InLoop
  <2>2. CASE ~InLoop'
    BY <2>2 DEF RoundInv
  <2> QED
    BY <2>1, <2>2
<1> QED
  BY <1>1, <1>2, <1>4, <1>5 DEF TrailInv

\* The worker builds its pool: the loop starts, or is never entered.
LEMMA TrailPool == ASSUME Inv, TrailInv, BuildPool PROVE TrailInv'
<1>1. /\ pc = "pool" /\ pc' \in {"loop", "done"}
      /\ UNCHANGED <<loopVars, trail>>
  BY DEF BuildPool, NoKeyProvider, DirectKey, SelectPool, StartLoop, PoolError
<1>2. trail' = <<>> /\ used' = {} /\ attempts' = 0
  BY <1>1 DEF Inv, KeyInv, FreshInv, FreshLocals, loopVars
<1> QED
  BY <1>1, <1>2, EmptyTrail, EmptyRounds DEF TrailInv

\* The loop chooses a key, keeps it, or finds none.
LEMMA TrailSelect == ASSUME Inv, TrailInv, SelectKey PROVE TrailInv'
<1>0. /\ current \in Keys \cup {NoKey} /\ pool \in SUBSET Keys /\ attempts \in Nat
  BY DEF Inv, TypeOK, RotationTypeOK
<1>1. CASE KeepKey
  <2>1. pc = "loop" /\ ~AsksForKey /\ Begin(current, used)
    BY <1>1 DEF KeepKey
  <2>2. mode # "none" => attempts > 0 /\ last \notin PerKey
    BY <1>0, <2>1 DEF AsksForKey
  <2>3. mode # "none" => current \in pool /\ current \in Keys
    <3> SUFFICES ASSUME mode # "none"
                 PROVE  current \in pool /\ current \in Keys
      OBVIOUS
    <3>1. trail # <<>> /\ trail[Len(trail)].key = current
      BY <2>1, <2>2 DEF Inv, KeyInv, CurrentInv
    <3>2. Len(trail) \in 1..Len(trail)
      BY <3>1, TrailTypes
    <3> QED
      BY <1>0, <3>1, <3>2 DEF TrailInv, TryInv
  <2>4. mode = "rotate" /\ ~hasFilter => current \notin used
    BY <2>1, <2>2 DEF TrailInv, RoundInv, InLoop
  <2> QED
    BY <1>0, <2>1, <2>3, <2>4, TrailBegin
<1>2. ASSUME NEW k \in Keys, FixedKey(k) \/ RotateKey(k) \/ FreshRound(k)
      PROVE  TrailInv'
  <2>1. AsksForKey /\ pc = "loop" /\ k \in pool
    BY <1>2 DEF FixedKey, RotateKey, FreshRound, AsksForKey, KeyPoolFilter, Unused, Live
  <2>2. CASE FixedKey(k)
    BY <2>1, <2>2, TrailBegin DEF FixedKey
  <2>3. CASE RotateKey(k)
    <3>1. Begin(k, used) /\ k \notin used
      BY <2>3 DEF RotateKey, KeyPoolFilter, Unused
    <3> QED
      BY <2>1, <3>1, TrailBegin
  <2>4. CASE FreshRound(k)
    <3>1. Begin(k, {}) /\ (~hasFilter => Unused = {})
      BY <2>4 DEF FreshRound, KeyPoolFilter
    <3> QED
      BY <2>1, <3>1, TrailBegin
  <2> QED
    BY <1>2, <2>2, <2>3, <2>4
<1>3. CASE KeysExhausted \/ KeysSuppressed \/ SelectorFails
  <2>1. AsksForKey /\ \E e \in KeyErrors : SelectionFails(e)
    BY <1>3 DEF KeysExhausted, KeysSuppressed, SelectorFails, KeyErrors
  <2>2. /\ pc = "loop" /\ pc' = "done"
        /\ UNCHANGED <<mode, pool, hasFilter, attempts, current, dead, last, stripped>>
        /\ trail' = trail
    BY <2>1 DEF AsksForKey, SelectionFails, Inv, KeyInv, FreshInv, keyring, request
  <2> QED
    BY <2>2, TrailAside DEF InLoop
<1> QED
  BY <1>1, <1>2, <1>3 DEF SelectKey

\* The provider's answer.
LEMMA TrailAttempt == ASSUME Inv, TrailInv, Attempt PROVE TrailInv'
<1>1. CASE CallSucceeds
  BY <1>1, TrailAside DEF CallSucceeds, InLoop, request, keyring, loopVars
<1>2. CASE Drained
  BY <1>2, TrailJudge DEF Drained
<1>3. ASSUME NEW o \in Errors, CallFails(o)
      PROVE  TrailInv'
  BY <1>3, TrailJudge DEF CallFails
<1>4. ASSUME NEW o \in Errors, FirstChunkFails(o)
      PROVE  TrailInv'
  BY <1>4, TrailAside DEF FirstChunkFails, request, keyring, loopVars
<1> QED
  BY <1>1, <1>2, <1>3, <1>4 DEF Attempt

\* tryRequest answers with the index of its own try.
LEMMA TrailAnswer ==
  ASSUME TypeOK, TrailInv, NEW v \in Verdicts, Answer(v),
         UNCHANGED <<request, keyring, loopVars, trail>>
  PROVE  TrailInv'
<1>1. /\ pc' = "answered" /\ Len(answers') = Len(answers) + 1 /\ Len(answers) \in Nat
      /\ answers'[Len(answers) + 1] = [index |-> fallbackIndex, verdict |-> v]
  BY AnswerType DEF TypeOK
<1>2. answers' # <<>> /\ answers'[Len(answers')].index = fallbackIndex'
  BY <1>1 DEF request
<1> QED
  BY <1>1, <1>2, TrailAside DEF request, keyring, loopVars

LEMMA TrailNext == ASSUME Inv, TrailInv, [Next]_vars PROVE TrailInv'
<1>0. TypeOK
  BY DEF Inv
<1>1. ASSUME NEW v \in Verdicts, AnswerEarly(v) \/ AnswerAfterHooks(v)
      PROVE  TrailInv'
  BY <1>0, <1>1, TrailAnswer DEF AnswerEarly, AnswerAfterHooks
<1>2. CASE AnswerStream \/ CallerLeaves
  <2>1. Answer("ok") \/ Answer("stop")
    BY <1>2 DEF AnswerStream, CallerLeaves
  <2>2. UNCHANGED <<request, keyring, loopVars, trail>>
    BY <1>2 DEF AnswerStream, CallerLeaves
  <2> QED
    BY <1>0, <2>1, <2>2, TrailAnswer DEF Verdicts
<1>3. CASE Enqueue
  BY <1>3, TrailAside DEF Enqueue, request, keyring, loopVars
<1>4. CASE WorkerStep
  BY <1>4, TrailPool, TrailSelect, TrailAttempt DEF WorkerStep, RotationNext
<1>5. CASE ReturnAnswer \/ ReturnPrimary
  <2>1. /\ pc = "answered" /\ pc' = "returned"
        /\ UNCHANGED <<request, keyring, loopVars, trail, answers>>
    BY <1>5 DEF ReturnAnswer, ReturnPrimary, Return
  <2>2. trail # <<>> => answers' # <<>> /\ answers'[Len(answers')].index = fallbackIndex'
    BY <2>1 DEF TrailInv, TryInv, request
  <2> QED
    BY <2>1, <2>2, TrailAside DEF request, keyring, loopVars
<1>6. ASSUME NEW skip \in BOOLEAN, NextFallback(skip)
      PROVE  TrailInv'
  <2>1. trail' = <<>> /\ pc' \in {"answered", "try"}
    BY <1>6 DEF NextFallback, PrepareFallback
  <2>2. RoundsAreFair' /\ RoundInv'
    BY <2>1 DEF RoundsAreFair, RoundInv, InLoop
  <2> QED
    BY <2>1, <2>2, EmptyTrail DEF TrailInv
<1>7. CASE StreamEnds \/ StreamCancelled \/ UNCHANGED vars
  <2>1. UNCHANGED <<pc, request, keyring, loopVars, trail, answers>>
    BY <1>7 DEF StreamEnds, StreamCancelled, vars, rotationVars, fallbackVars
  <2>2. pc' \in {"answered", "returned"} /\ trail # <<>> =>
          answers' # <<>> /\ answers'[Len(answers')].index = fallbackIndex'
    BY <2>1 DEF TrailInv, TryInv, request
  <2> QED
    BY <2>1, <2>2, TrailAside DEF request, keyring, loopVars
<1> QED
  BY <1>1, <1>2, <1>3, <1>4, <1>5, <1>6, <1>7 DEF Next, Try, Orchestrate

LEMMA TrailInit == Init => TrailInv
<1> SUFFICES ASSUME Init
             PROVE  TrailInv
  OBVIOUS
<1>1. trail = <<>> /\ Len(trail) = 0 /\ 1..Len(trail) = {} /\ pc = "try"
  BY DEF Init
<1> QED
  BY <1>1 DEF TrailInv, TrailIsCoherent, ReasonInv, RoundsAreFair, RoundInv, TryInv, InLoop

-----------------------------------------------------------------------------
(* Theorems.                                                                *)

\* The trail agrees with the locals of executeRequestWithRetries, the rounds are even and
\* the trail is that of the current try.
THEOREM TrailInvariance == Spec => []TrailInv
<1>1. Inv /\ TrailInv /\ [Next]_vars => TrailInv'
  BY TrailNext
<1> QED
  BY <1>1, TrailInit, RotationInvariance, PTL DEF Spec

\* BifrostContextKeyAttemptTrail explains itself, for any sequence of failures:
\* TriggeredRotation is set exactly where the key changed, which happens only after a
\* per-key failure, and one attempt at most was repeated without encrypted reasoning.
THEOREM TrailExplainsItself == Spec => []TrailIsCoherent
<1>1. TrailInv => TrailIsCoherent
  BY DEF TrailInv
<1> QED
  BY <1>1, TrailInvariance, PTL

\* The rate limits of two live keys differ by one at most, for any pool and any number
\* of rounds, whatever permanent failures shrink the pool in between.
THEOREM RateLimitsSpread == Spec => []RoundsAreFair
<1>1. TrailInv => RoundsAreFair
  BY DEF TrailInv
<1> QED
  BY <1>1, TrailInvariance, PTL

\* A trail that is left when the request returns belongs to its last try.
THEOREM CallerSeesLastTrail == Spec => []TrailOfLastTry
<1>1. Inv /\ TrailInv => TrailOfLastTry
  BY DEF Inv, KeyInv, FreshInv, TrailInv, TryInv, TrailOfLastTry
<1> QED
  BY <1>1, TrailInvariance, RotationInvariance, PTL
=============================================================================
