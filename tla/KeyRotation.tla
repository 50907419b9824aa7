---------------------------- MODULE KeyRotation ----------------------------
(***************************************************************************)
(* One attempt chain on one provider: the worker builds the key pool       *)
(* (selectKeyFromProviderForModelWithPool), and executeRequestWithRetries  *)
(* of core/bifrost.go calls the provider, rotating to another key on a     *)
(* per-key failure, retrying the same key on a transient one, and          *)
(* stripping rejected encrypted reasoning once.                            *)
(*                                                                         *)
(* Abstractions.  An error is the class the loop's tests put it in.  The   *)
(* three last... flags of the loop are the class of the previous failure   *)
(* (last); extraAttempts is one exactly when strippedEncryptedContent is   *)
(* set; previousKeyID is the value current has when the next key is        *)
(* selected; pendingRotationAttemptIdx is set exactly when the previous    *)
(* failure was a per-key one, and is then the last record of the trail.    *)
(* The context the caller passes in is fresh: its trail is empty.          *)
(***************************************************************************)
EXTENDS Naturals, FiniteSets, Sequences

CONSTANTS
    Keys,       \* key ids of a provider
    NamedKeys,  \* those a caller may name, as a direct or a pinned key
    NoKey,      \* the empty key id
    MaxRetries  \* config.NetworkConfig.MaxRetries

ASSUME RotationAssumption ==
    /\ NoKey \notin Keys
    /\ NamedKeys \subseteq Keys
    /\ MaxRetries \in Nat

VARIABLES
    pc,           \* where the worker is
    \* the request and its context
    streaming,    \* IsStreamRequestType
    hasFilter,    \* bifrost.keyPoolFilter is set
    direct,       \* BifrostContextKeyDirectKey
    pinned,       \* BifrostContextKeyAPIKeyID / APIKeyName
    session,      \* a session id and a KV store: stickiness
    fallbackIndex,\* BifrostContextKeyFallbackIndex
    sealed,       \* the request replays encrypted reasoning that can be stripped
    trail,        \* BifrostContextKeyAttemptTrail
    selected,     \* BifrostContextKeySelectedKeyID
    connClosed,   \* BifrostContextKeyConnectionClosed
    streamEnd,    \* BifrostContextKeyStreamEndIndicator
    \* locals of the worker and of executeRequestWithRetries
    mode, pool,   \* the keyProvider closure and the keys it captured
    attempts, current, used, dead, last, stripped, waited,
    outcome       \* bifrostError, by class

request == <<streaming, hasFilter, direct, session, fallbackIndex, pinned>>
keyring == <<mode, pool>>
flags == <<connClosed, streamEnd>>
loopVars == <<attempts, current, used, dead, last, stripped, waited>>
rotationVars == <<pc, request, keyring, flags, loopVars, sealed, trail, selected, outcome>>

Places == {"try", "pool", "loop", "call", "drain", "done", "answered", "returned"}

(* The classes of a provider's error.  "permanent" is 401, 402 or 403;     *)
(* "rateLimit" is 429 or a rate limit message; "transient" a network error *)
(* or one of transientServerStatusCodes; "encrypted" a refusal that        *)
(* isEncryptedReasoningRejection recognises; "halt" has IsBifrostError set *)
(* or is of type RequestCancelled; "other" is everything else.             *)
PerKey == {"rateLimit", "permanent"}
Retryable == PerKey \cup {"transient"}
Failures == Retryable \cup {"encrypted", "other"}
Outcomes == Failures \cup {"ok", "halt"}
KeyErrors == {"noKeys", "selector", "exhausted", "suppressed"}

Record == [key : Keys, fail : Failures \cup {"none"}, rotated : BOOLEAN]

-----------------------------------------------------------------------------
(* The key pool *)

\* The locals of a worker that has not yet seen the request, before the first try
\* and before every further one.
FreshLocals ==
    /\ mode = "none" /\ pool = {}
    /\ attempts = 0 /\ current = NoKey
    /\ used = {} /\ dead = {}
    /\ last = "none" /\ stripped = FALSE /\ waited = FALSE
    /\ outcome = "none"

DropLocals ==
    /\ mode' = "none" /\ pool' = {}
    /\ attempts' = 0 /\ current' = NoKey
    /\ used' = {} /\ dead' = {}
    /\ last' = "none" /\ stripped' = FALSE /\ waited' = FALSE
    /\ outcome' = "none"

\* What the worker starts executeRequestWithRetries with.
StartLoop(m, p) ==
    /\ mode' = m /\ pool' = p
    /\ pc' = "loop"
    /\ UNCHANGED <<request, flags, loopVars, sealed, trail, selected, outcome>>

\* The error return of the pool construction: the loop is never entered.
PoolError ==
    /\ pc' = "done" /\ outcome' = "noKeys"
    /\ mode' = "none" /\ pool' = {}
    /\ UNCHANGED <<request, flags, loopVars, sealed, trail, selected>>

\* A provider without keys, a multi-key operation, or SkipKeySelection.
\* The key list of a multi-key operation may come back empty.
NoKeyProvider ==
    /\ pc = "pool"
    /\ StartLoop("none", {}) \/ PoolError

DirectKey ==
    /\ pc = "pool"
    /\ direct # NoKey
    /\ StartLoop("fixed", {direct})

\* s is what the enabled, valid keys that support the model are.
SelectPool(s) ==
    /\ pc = "pool"
    /\ direct = NoKey
    /\ \/ s = {} /\ PoolError
       \/ pinned \in s /\ StartLoop("fixed", {pinned})
       \/ s # {} /\ pinned \notin s \cup {NoKey} /\ PoolError
       \/ /\ pinned = NoKey
          /\ \/ Cardinality(s) = 1 /\ StartLoop("fixed", s)
             \/ /\ Cardinality(s) > 1 /\ session /\ fallbackIndex = 0
                /\ \/ \E k \in s : StartLoop("fixed", {k})
                   \/ PoolError
             \/ /\ Cardinality(s) > 1 /\ ~(session /\ fallbackIndex = 0)
                /\ StartLoop("rotate", s)

-----------------------------------------------------------------------------
(* The keyProvider closures *)

\* Mutant: a key used in this round is offered again.
Unused_Ignored == pool \ dead

Live == pool \ dead
Unused == Live \ used

\* What the key pool filter may leave of S; an error of the filter leaves S.
KeyPoolFilter(S) == IF hasFilter THEN SUBSET S ELSE {S}

\* The loop asks for a key on the first attempt and after a per-key failure.
AsksForKey ==
    /\ pc = "loop"
    /\ mode # "none"
    /\ attempts = 0 \/ last \in PerKey

\* Mutant: every per-key failure counts as a rotation.
Resolved_Always(k) ==
    IF attempts > 0 /\ last \in PerKey
    THEN [trail EXCEPT ![Len(trail)].rotated = TRUE]
    ELSE trail

\* The previous attempt's record, once it is known which key follows it.
Resolved(k) ==
    IF attempts > 0 /\ last \in PerKey /\ trail[Len(trail)].key # k
    THEN [trail EXCEPT ![Len(trail)].rotated = TRUE]
    ELSE trail

\* The key is selected and the attempt recorded.
BeginCall(k, usedAfter) ==
    /\ pc' = "call"
    /\ current' = k
    /\ used' = usedAfter
    /\ selected' = IF AsksForKey THEN k ELSE selected
    /\ trail' = IF mode = "none" THEN trail
                ELSE Append(IF attempts = 0 THEN <<>> ELSE Resolved(k),
                            [key |-> k, fail |-> "none", rotated |-> FALSE])
    /\ UNCHANGED <<request, keyring, flags, attempts, dead, last, stripped, sealed, outcome>>

\* From the selection of a key to the call of requestHandler, with the back-off.
Begin(k, usedAfter) ==
    /\ BeginCall(k, usedAfter)
    /\ waited' = (attempts > 0 /\ last # "stripped"
                    /\ ~(last = "permanent" /\ mode # "none" /\ k # current))

KeepKey ==
    /\ pc = "loop"
    /\ ~AsksForKey
    /\ Begin(current, used)

FixedKey(k) ==
    /\ AsksForKey
    /\ mode = "fixed"
    /\ k \in Live
    /\ Begin(k, used)

\* The weighted selection among the keys not used in this round.
RotateKey(k) ==
    /\ AsksForKey
    /\ mode = "rotate"
    /\ \E available \in KeyPoolFilter(Unused) : k \in available
    /\ Begin(k, used)

\* No key is left in this round: a fresh one over the live keys.
FreshRound(k) ==
    /\ AsksForKey
    /\ mode = "rotate"
    /\ {} \in KeyPoolFilter(Unused)
    /\ \E available \in KeyPoolFilter(Live) : k \in available
    /\ Begin(k, {})

\* Mutant: the early return does not clear the selected key of an earlier attempt.
SelectionFails_KeepsKey(e) ==
    /\ pc' = "done" /\ outcome' = e
    /\ trail' = IF attempts = 0 THEN <<>> ELSE trail
    /\ UNCHANGED <<request, keyring, flags, attempts, current, dead, last, stripped,
                   waited, sealed, selected>>

\* The early return on a key selection error.
SelectionFails(e) ==
    /\ pc' = "done" /\ outcome' = e
    /\ selected' = NoKey
    /\ trail' = IF attempts = 0 THEN <<>> ELSE trail
    /\ UNCHANGED <<request, keyring, flags, attempts, current, dead, last, stripped,
                   waited, sealed>>

KeysExhausted ==
    /\ AsksForKey
    /\ Live = {}
    /\ SelectionFails("exhausted")
    /\ UNCHANGED used

KeysSuppressed ==
    /\ AsksForKey
    /\ mode = "rotate"
    /\ Live # {}
    /\ {} \in KeyPoolFilter(Unused)
    /\ {} \in KeyPoolFilter(Live)
    /\ SelectionFails("suppressed")
    /\ UNCHANGED used

\* The configured keySelector returns an error of its own.
SelectorFails ==
    /\ AsksForKey
    /\ mode = "rotate"
    /\ \/ KeyPoolFilter(Unused) # {{}} /\ UNCHANGED used
       \/ /\ {} \in KeyPoolFilter(Unused)
          /\ KeyPoolFilter(Live) # {{}}
          /\ used' = {}
    /\ SelectionFails("selector")

-----------------------------------------------------------------------------
(* The outcome of an attempt *)

\* The number of the last attempt the loop condition admits.
LastAttempt == MaxRetries + (IF stripped THEN 1 ELSE 0)

\* FailReason of the attempt that just failed.
FailTrail(o) ==
    IF trail = <<>> \/ o \notin Failures THEN trail
    ELSE [trail EXCEPT ![Len(trail)].fail = o]

\* The loop is left with an error: selected_key is cleared.
Leave(o) ==
    /\ pc' = "done" /\ outcome' = o
    /\ trail' = FailTrail(o)
    /\ selected' = IF mode = "none" THEN selected ELSE NoKey
    /\ UNCHANGED <<current, stripped, waited, sealed>>

\* Mutant: every per-key failure is held to be a rate limit.
MarkKey_NeverDead(o) ==
    /\ used' = IF o \in PerKey /\ mode # "none" THEN used \cup {current} ELSE used
    /\ UNCHANGED dead

\* The failed key joins the dead or the used ones.
MarkKey(o) ==
    /\ dead' = IF o = "permanent" /\ mode # "none" THEN dead \cup {current} ELSE dead
    /\ used' = IF o = "rateLimit" /\ mode # "none" THEN used \cup {current} ELSE used

\* A retryable failure: the loop condition decides whether there is another
\* attempt or the error is final.
Retry(o) ==
    /\ o \in Retryable
    /\ MarkKey(o)
    /\ last' = o
    /\ attempts' = attempts + 1
    /\ \/ /\ attempts < LastAttempt
          /\ pc' = "loop" /\ outcome' = o
          /\ trail' = FailTrail(o)
          /\ UNCHANGED <<current, stripped, waited, sealed, selected>>
       \/ attempts >= LastAttempt /\ Leave(o)

\* Rejected encrypted reasoning is stripped once, and the attempt repeated
\* outside the retry budget.
Strip(o) ==
    /\ o = "encrypted"
    /\ ~stripped /\ sealed
    /\ stripped' = TRUE /\ sealed' = FALSE
    /\ last' = "stripped"
    /\ attempts' = attempts + 1
    /\ pc' = "loop" /\ outcome' = o
    /\ trail' = FailTrail(o)
    /\ UNCHANGED <<current, waited, used, dead, selected>>

\* The errors that end the loop.
GiveUp(o) ==
    /\ \/ o \in {"halt", "other"}
       \/ o = "encrypted" /\ ~(~stripped /\ sealed)
    /\ Leave(o)
    /\ UNCHANGED <<attempts, used, dead, last>>

Judge(o) == Retry(o) \/ Strip(o) \/ GiveUp(o)

CallSucceeds ==
    /\ pc = "call"
    /\ pc' = "done" /\ outcome' = "ok"
    /\ UNCHANGED <<request, keyring, flags, loopVars, sealed, trail, selected>>

\* The provider call returns an error.
CallFails(o) ==
    /\ pc = "call"
    /\ Judge(o)
    /\ UNCHANGED <<request, keyring, flags>>

\* The first chunk of a stream is an error.  The provider goroutine has marked
\* the stream as ended; its teardown claims the connection.
FirstChunkFails(o) ==
    /\ pc = "call"
    /\ streaming
    /\ pc' = "drain" /\ outcome' = o
    /\ connClosed' = TRUE /\ streamEnd' = TRUE
    /\ UNCHANGED <<request, keyring, loopVars, sealed, trail, selected>>

\* The dead stream is drained; its claim on the connection is cleared.
Drained ==
    /\ pc = "drain"
    /\ connClosed' = FALSE
    /\ Judge(outcome)
    /\ UNCHANGED <<request, keyring, streamEnd>>

-----------------------------------------------------------------------------
Errors == Outcomes \ {"ok"}

SelectKey ==
    \/ KeepKey
    \/ \E k \in Keys : FixedKey(k) \/ RotateKey(k) \/ FreshRound(k)
    \/ KeysExhausted \/ KeysSuppressed \/ SelectorFails

BuildPool ==
    \/ NoKeyProvider \/ DirectKey
    \/ \E s \in SUBSET Keys : SelectPool(s)

Attempt ==
    \/ CallSucceeds \/ Drained
    \/ \E o \in Errors : CallFails(o) \/ FirstChunkFails(o)

\* One step of the worker that serves the request.
RotationNext == BuildPool \/ SelectKey \/ Attempt

RotationTypeOK ==
    /\ pc \in Places
    /\ streaming \in BOOLEAN /\ hasFilter \in BOOLEAN /\ session \in BOOLEAN
    /\ direct \in Keys \cup {NoKey} /\ pinned \in Keys \cup {NoKey}
    /\ fallbackIndex \in Nat
    /\ sealed \in BOOLEAN
    /\ trail \in Seq(Record)
    /\ selected \in Keys \cup {NoKey}
    /\ connClosed \in BOOLEAN /\ streamEnd \in BOOLEAN
    /\ mode \in {"none", "fixed", "rotate"} /\ pool \in SUBSET Keys
    /\ attempts \in Nat
    /\ current \in Keys \cup {NoKey}
    /\ used \in SUBSET Keys /\ dead \in SUBSET Keys
    /\ last \in Retryable \cup {"none", "stripped"}
    /\ stripped \in BOOLEAN /\ waited \in BOOLEAN
    /\ outcome \in Outcomes \cup KeyErrors \cup {"none"}

-----------------------------------------------------------------------------
(* Properties of one attempt chain *)

(* A key that failed with 401, 402 or 403 is not tried again within the    *)
(* request, whatever rate limits, pool resets and filters come between     *)
(* (deadKeyIDs is never reset).                                            *)
DeadKeysStayDead ==
    \A i, j \in 1..Len(trail) :
        i < j /\ trail[i].fail = "permanent" => trail[j].key # trail[i].key

(* The attempt trail explains itself: every attempt but the last has a     *)
(* reason that is retried; the key changes only after a per-key failure,   *)
(* and TriggeredRotation is set exactly on the attempts whose successor    *)
(* used another key; one attempt at most was repeated without its          *)
(* encrypted reasoning.                                                    *)
TrailIsCoherent ==
    LET n == Len(trail)
    IN  /\ \A i \in 1..n : trail[i].rotated <=> i < n /\ trail[i + 1].key # trail[i].key
        /\ \A i \in 1..n : i < n => /\ trail[i].fail \in Retryable \cup {"encrypted"}
                                    /\ trail[i].rotated => trail[i].fail \in PerKey
        /\ \A i, j \in 1..n : i < n /\ j < n /\ trail[i].fail = "encrypted"
                                /\ trail[j].fail = "encrypted" => i = j

RateLimited(k) == Cardinality({i \in 1..Len(trail) : trail[i].key = k /\ trail[i].fail = "rateLimit"})

(* Without a filter, rate limits spread evenly: no live key of the pool is *)
(* tried a second time in a round, so the counts of rate limits of two     *)
(* live keys differ by one at most (usedKeyIDs is reset only when no       *)
(* unused live key is left).                                               *)
RoundsAreFair ==
    mode = "rotate" /\ ~hasFilter /\ pc \in {"loop", "call", "drain", "done"} =>
        \A k, l \in Live : RateLimited(k) <= RateLimited(l) + 1

(* The synthetic errors say what happened: 502 credentials exhausted only  *)
(* when every key of the pool failed permanently, 503 no eligible keys     *)
(* only when a live key was suppressed by the filter.                      *)
VerdictIsTrue ==
    pc = "done" =>
        /\ outcome = "exhausted" =>
              \A k \in pool : \E i \in 1..Len(trail) :
                  trail[i].key = k /\ trail[i].fail = "permanent"
        /\ outcome = "suppressed" =>
              hasFilter /\ \E k \in pool : \A i \in 1..Len(trail) :
                  ~(trail[i].key = k /\ trail[i].fail = "permanent")

(* selected_key_id names the key that served a successful response, and is *)
(* empty on every error path, the early returns included.                  *)
SelectedServed ==
    pc = "done" /\ mode # "none" =>
        selected = IF outcome = "ok" THEN trail[Len(trail)].key ELSE NoKey

(* A retry after a permanent failure starts at once on another key; every  *)
(* other retry waits, unless the payload was stripped.                     *)
WaitsWhenItHelps ==
    pc = "call" /\ attempts > 0 =>
        waited <=> ~(last = "stripped" \/ (last = "permanent" /\ mode # "none"))

(* The retry budget holds, with one more attempt for a stripped request; a *)
(* rejected replay gets that attempt even when no retry is configured.     *)
BudgetHolds ==
    /\ pc \in {"loop", "call", "drain"} =>
          attempts <= MaxRetries + (IF stripped THEN 1 ELSE 0)
    /\ pc = "done" /\ outcome = "encrypted" => stripped \/ ~sealed

-----------------------------------------------------------------------------
(* What the properties above rest on *)

\* The dead keys are exactly those the trail shows a permanent failure of.
DeadInv ==
    pc \in {"loop", "call", "drain", "done"} =>
        /\ \A i \in 1..Len(trail) : trail[i].fail = "permanent" => trail[i].key \in dead
        /\ \A k \in dead : \E i \in 1..Len(trail) :
              trail[i].key = k /\ trail[i].fail = "permanent"

\* Nothing is left of an earlier try when a try starts, and a try without a key
\* provider has no trail.
FreshInv ==
    /\ pc \in {"try", "pool"} => FreshLocals
    /\ pc = "loop" /\ attempts = 0 => dead = {} /\ last = "none"
    /\ mode = "none" \/ (pc = "loop" /\ attempts = 0) => trail = <<>> /\ dead = {}

\* The current key is the selected one and that of the last record; it is dead
\* exactly between a permanent failure and the next selection.
CurrentInv ==
    mode # "none" =>
        /\ pc \in {"call", "drain"} =>
              /\ trail # <<>>
              /\ trail[Len(trail)].key = current /\ trail[Len(trail)].fail = "none"
              /\ current \notin dead
              /\ selected = current
        /\ pc = "loop" /\ attempts > 0 =>
              /\ trail # <<>> /\ trail[Len(trail)].key = current
              /\ selected = current
              /\ last # "none"
              /\ current \in dead <=> last = "permanent"

(* The inductive invariant of the key rotation: the sets of dead keys, the *)
(* trail and the selected key of executeRequestWithRetries agree.          *)
KeyInv == DeadInv /\ FreshInv /\ CurrentInv
=============================================================================
