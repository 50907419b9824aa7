---------------------------- MODULE StreamsProofs ----------------------------
(***************************************************************************)
(* Proofs about Streams, for any numbers of retries, fallbacks, attempts   *)
(* and chunks and any channel capacity: types, that a pipeline is put back *)
(* once, that the hooks of a stream see one final chunk, and that a stream *)
(* which starts with a clear end indicator keeps its pipeline.             *)
(*                                                                         *)
(* The argument: a worker starts an attempt only when the goroutine of the *)
(* one before has closed its channel, so that at most one goroutine still  *)
(* reads, and nobody else sets the end indicator on the context that all   *)
(* attempts share.  From its own clear start on, a goroutine therefore     *)
(* finds the indicator set exactly when it has set it itself.              *)
(***************************************************************************)
EXTENDS Streams, TLAPS

(***************************************************************************)
(* The inductive invariant.                                                *)
(***************************************************************************)

\* The goroutine of stream u has not closed its channel yet.
Active(u) ==
    \/ place[u] \in {"read", "hook", "send", "sent", "exit", "close"}
    \/ place[u] = "span" /\ ~closed[u]

\* The caller and the worker take turns, unless the caller left; the caller holds its
\* pipeline while it waits, and a relay starts only where no worker does.
CallerInv ==
    /\ worker # "idle" => caller \in {"wait", "left"} /\ reply = "none"
    /\ reply # "none" => caller \in {"wait", "left"}
    /\ caller = "wait" => held[0] /\ (worker # "idle" \/ reply # "none")
    /\ place[0] # "none" => caller = "open"
    /\ caller = "start" \/ worker = "attempt" => attempt < MaxAttempts
    /\ worker \in {"first", "drain", "failed", "park", "send"} => attempt > 0

\* Only the goroutine of the last attempt may be active, and not when that attempt is
\* known to have failed.
Placed(a) ==
    /\ a > attempt => place[a] = "none" /\ ~closed[a] /\ a \notin fresh
    /\ place[a] = "none" => final[a] = 0
    /\ closed[a] => place[a] \in {"none", "span", "ensure", "gone"}
    /\ Active(a) => /\ a = attempt
                    /\ worker \notin {"attempt", "failed"}
                    /\ reply # "error"
                    /\ caller \in {"wait", "open", "left"}

\* A chunk that is processed has a kind, the safety net runs once the channel is closed,
\* and a plugin's stream consists of data.
StreamInv ==
    /\ \A u \in Users : place[u] \in {"hook", "send", "sent"} => item[u] # "none"
    /\ \A u \in Users : place[u] = "ensure" => closed[u]
    /\ place[0] \notin {"span", "exit"} /\ item[0] \in {"none", "data"}
    /\ \A a \in Attempts : Placed(a)

\* A stream that started with a clear indicator set it itself, with the chunk it is
\* processing, and has its pipeline until it completes that chunk.
OwnsEnd(a) ==
    /\ place[a] \in {"read", "hook"} => final[a] = 0 /\ held[a]
    /\ place[a] = "read" => ~end
    /\ place[a] \in {"hook", "send", "sent"} => (end <=> item[a] # "data")
    /\ place[a] \in {"send", "sent"} => final[a] = (IF end THEN 1 ELSE 0) /\ held[a]
    /\ place[a] = "span" => final[a] = 1 /\ (closed[a] \/ (end /\ item[a] # "data"))
    /\ place[a] = "exit" => IF end THEN final[a] = 1 ELSE done /\ final[a] = 0 /\ held[a]
    /\ place[a] \in {"close", "ensure", "gone"} => final[a] = 1

FreshInv == \A a \in fresh : OwnsEnd(a)

Inv ==
    /\ TypeOK
    /\ PutBackOnce
    /\ CallerInv
    /\ StreamInv
    /\ FreshInv

-----------------------------------------------------------------------------
LEMMA Zero == 0 \in Users /\ Attempts \subseteq Users /\ Users \subseteq Nat
BY StreamsAssumption DEF Users, Attempts

(***************************************************************************)
(* The types, in parts of which a step touches few.                        *)
(***************************************************************************)

PoolOK == held \in [Users -> BOOLEAN] /\ puts \in [Users -> Nat]

CallOK ==
    /\ caller \in {"start", "wait", "open", "returned", "failed", "left"}
    /\ try \in 0..MaxFallbacks
    /\ reply \in {"none", "stream", "error"}

WorkOK ==
    /\ worker \in {"idle", "attempt", "first", "drain", "failed", "park", "send"}
    /\ retries \in 0..MaxRetries
    /\ attempt \in Users
    /\ failure \in {"none"} \cup Errors

ContextOK == done \in BOOLEAN /\ end \in BOOLEAN /\ parked \in BOOLEAN

Places == {"none", "read", "hook", "send", "sent", "span", "exit", "close", "ensure", "gone"}

GoOK ==
    /\ place \in [Users -> Places]
    /\ item \in [Users -> {"none"} \cup Kinds]
    /\ sent \in [Users -> 0..MaxChunks]
    /\ final \in [Users -> Nat]

ChanOK ==
    /\ chan \in [Users -> Seq(Kinds)]
    /\ closed \in [Users -> BOOLEAN]
    /\ fresh \subseteq Attempts

LEMMA TypeParts == TypeOK <=> PoolOK /\ CallOK /\ WorkOK /\ ContextOK /\ GoOK /\ ChanOK
BY DEF TypeOK, PoolOK, CallOK, WorkOK, ContextOK, GoOK, ChanOK, Places

LEMMA NextTypeParts == PoolOK' /\ CallOK' /\ WorkOK' /\ ContextOK' /\ GoOK' /\ ChanOK' => TypeOK'
BY DEF TypeOK, PoolOK, CallOK, WorkOK, ContextOK, GoOK, ChanOK, Places

\* Getting and putting back keep the pool's counts right, for a pipeline that is held.
LEMMA PoolStep ==
  ASSUME PoolOK, PutBackOnce, NEW u \in Users,
         \/ GetPluginPipeline(u)
         \/ held[u] /\ ReleasePluginPipeline(u)
         \/ Finalize(u)
         \/ UNCHANGED poolVars
  PROVE  /\ PoolOK' /\ PutBackOnce'
         /\ \A v \in Users \ {u} : held'[v] = held[v]
         /\ GetPluginPipeline(u) => held'[u]
<1>1. CASE GetPluginPipeline(u)
  BY <1>1 DEF PoolOK, PutBackOnce, GetPluginPipeline
<1>2. CASE held[u] /\ ReleasePluginPipeline(u)
  <2>1. puts[u] = 0
    BY <1>2 DEF PutBackOnce
  <2>2. /\ held' = [held EXCEPT ![u] = FALSE]
        /\ puts' = [puts EXCEPT ![u] = 1]
    BY <1>2, <2>1 DEF ReleasePluginPipeline, PoolOK
  <2>3. ~GetPluginPipeline(u)
    BY <2>2 DEF GetPluginPipeline, PoolOK
  <2> QED
    BY <2>2, <2>3 DEF PoolOK, PutBackOnce
<1>3. CASE UNCHANGED poolVars
  BY <1>3 DEF poolVars, PoolOK, PutBackOnce, GetPluginPipeline
<1> QED
  BY <1>1, <1>2, <1>3 DEF Finalize

LEMMA InitInv == Init => Inv
<1> SUFFICES ASSUME Init
             PROVE  Inv
  OBVIOUS
<1>1. PoolOK /\ GoOK /\ ChanOK
  BY StreamsAssumption DEF Init, PoolOK, GoOK, ChanOK, Places
<1>2. CallOK /\ WorkOK /\ ContextOK
  BY StreamsAssumption, Zero DEF Init, CallOK, WorkOK, ContextOK
<1>3. PutBackOnce /\ CallerInv
  BY StreamsAssumption, Zero DEF Init, PutBackOnce, CallerInv
<1>4. StreamInv /\ FreshInv
  BY Zero DEF Init, StreamInv, Placed, FreshInv, Active
<1> QED
  BY <1>1, <1>2, <1>3, <1>4, TypeParts DEF Inv

-----------------------------------------------------------------------------
(* The caller.                                                              *)

\* A step that no goroutine of an attempt is affected by, and that leaves the indicator.
LEMMA FreshKept ==
  ASSUME Inv, UNCHANGED <<final, closed, fresh, end>>, done => done',
         \A a \in Attempts : place'[a] = place[a] /\ item'[a] = item[a] /\ held'[a] = held[a]
  PROVE  FreshInv'
BY DEF Inv, FreshInv, OwnsEnd, TypeOK

\* A request that is queued or answered by a plugin.
LEMMA StartInv ==
  ASSUME Inv, Enqueue \/ ShortCircuitStream \/ AnswerEarly
  PROVE  Inv'
<1>1. PoolOK /\ CallOK /\ WorkOK /\ ContextOK /\ GoOK /\ ChanOK
  BY TypeParts DEF Inv
<1>2. PutBackOnce /\ CallerInv /\ StreamInv /\ FreshInv
  BY DEF Inv
<1>3. /\ caller = "start" /\ worker = "idle" /\ reply = "none" /\ attempt < MaxAttempts
      /\ place[0] = "none" /\ \A a \in Attempts : ~Active(a)
  BY <1>2 DEF Enqueue, ShortCircuitStream, AnswerEarly, CallerInv, StreamInv, Placed
<1>4. /\ PoolOK' /\ PutBackOnce'
      /\ \A v \in Users \ {0} : held'[v] = held[v]
      /\ Enqueue => held'[0]
  BY <1>1, <1>2, Zero, PoolStep DEF Enqueue, ShortCircuitStream, AnswerEarly
<1>5. /\ UNCHANGED <<try, attempt, failure, reply, ctxVars, parked, item, sent, final, chanVars>>
      /\ \A a \in Users \ {0} : place'[a] = place[a]
      /\ place'[0] \in {"none", "read"} /\ (place'[0] = "read" => caller' = "open")
      /\ place' \in [Users -> Places]
      /\ retries' \in {0, retries} /\ worker' \in {"idle", "attempt"}
      /\ caller' \in {"wait", "open", "returned", "failed"}
      /\ worker' = "attempt" <=> caller' = "wait"
      /\ worker' = "attempt" <=> Enqueue
  BY <1>1, <1>3, Zero
  DEF Enqueue, ShortCircuitStream, AnswerEarly, GoOK, Places, workerVars, goVars
<1>6. CallOK' /\ WorkOK' /\ ContextOK' /\ GoOK' /\ ChanOK'
  BY <1>1, <1>5, StreamsAssumption DEF CallOK, WorkOK, ContextOK, GoOK, ChanOK, ctxVars, chanVars
<1>7. CallerInv'
  BY <1>2, <1>3, <1>4, <1>5 DEF CallerInv
<1>8. \A a \in Attempts : a \in Users \ {0}
  BY Zero DEF Attempts
<1>9. StreamInv'
  BY <1>1, <1>2, <1>3, <1>5, <1>8 DEF StreamInv, Placed, Active, chanVars, GoOK, Places
<1>10. FreshInv'
  BY <1>4, <1>5, <1>8, FreshKept DEF chanVars, ctxVars
<1> QED
  BY <1>4, <1>6, <1>7, <1>9, <1>10, NextTypeParts DEF Inv

\* The caller takes the answer or leaves.
LEMMA ReturnInv ==
  ASSUME Inv, ReturnStream \/ ReturnError \/ Leave
  PROVE  Inv'
<1>1. PoolOK /\ CallOK /\ WorkOK /\ ContextOK /\ GoOK /\ ChanOK
  BY TypeParts DEF Inv
<1>2. PutBackOnce /\ CallerInv /\ StreamInv /\ FreshInv
  BY DEF Inv
<1>3. /\ caller = "wait" /\ held[0] /\ place[0] = "none"
      /\ caller' \in {"open", "returned", "failed", "left"}
      /\ reply' \in {"none", reply}
      /\ UNCHANGED <<try, workerVars, done, parked, goVars, chanVars>>
  BY <1>2 DEF ReturnStream, ReturnError, Leave, CallerInv, ctxVars
<1>4. PoolOK' /\ PutBackOnce' /\ \A v \in Users \ {0} : held'[v] = held[v]
  BY <1>1, <1>2, <1>3, Zero, PoolStep DEF ReturnStream, ReturnError, Leave
<1>5. end' \in BOOLEAN
  BY <1>1 DEF ReturnStream, ReturnError, Leave, ContextOK, ctxVars
<1>6. CallOK' /\ WorkOK' /\ ContextOK' /\ GoOK' /\ ChanOK'
  BY <1>1, <1>3, <1>5
  DEF CallOK, WorkOK, ContextOK, GoOK, ChanOK, workerVars, goVars, chanVars
<1>7. CallerInv'
  BY <1>2, <1>3 DEF ReturnStream, ReturnError, Leave, CallerInv, workerVars, goVars
<1>8. \A a \in Attempts : Active(a) => caller' \in {"open", "left"} /\ UNCHANGED end
  BY <1>2 DEF ReturnStream, ReturnError, Leave, StreamInv, Placed, ctxVars
<1>9. StreamInv'
  BY <1>2, <1>3, <1>8 DEF StreamInv, Placed, Active, workerVars, goVars, chanVars
<1>10. FreshInv'
  <2> SUFFICES ASSUME NEW a \in fresh
               PROVE  OwnsEnd(a)'
    BY <1>3 DEF FreshInv, chanVars
  <2>1. a \in Attempts /\ a \in Users \ {0} /\ OwnsEnd(a) /\ held'[a] = held[a]
    BY <1>1, <1>2, <1>4, Zero DEF FreshInv, ChanOK, Attempts
  <2>2. CASE Active(a)
    BY <1>3, <1>8, <2>1, <2>2 DEF OwnsEnd, goVars, chanVars
  <2>3. CASE ~Active(a)
    BY <1>1, <1>3, <2>1, <2>3 DEF OwnsEnd, Active, goVars, chanVars
  <2> QED
    BY <2>2, <2>3
<1> QED
  BY <1>4, <1>6, <1>7, <1>9, <1>10, NextTypeParts DEF Inv

\* clearCtxForFallback clears the indicator when no goroutine is left to see it.
LEMMA NextFallbackInv == ASSUME Inv, NextFallback PROVE Inv'
<1>1. PoolOK /\ CallOK /\ WorkOK /\ ContextOK /\ GoOK /\ ChanOK
  BY TypeParts DEF Inv
<1>2. PutBackOnce /\ CallerInv /\ StreamInv /\ FreshInv
  BY DEF Inv
<1>3. /\ caller = "failed" /\ caller' = "start" /\ try < MaxFallbacks /\ attempt < MaxAttempts
      /\ try' = try + 1 /\ end' = FALSE
      /\ UNCHANGED <<poolVars, workerVars, reply, done, parked, goVars, chanVars>>
  BY DEF NextFallback
<1>4. PoolOK' /\ WorkOK' /\ ContextOK' /\ GoOK' /\ ChanOK' /\ PutBackOnce'
  BY <1>1, <1>2, <1>3
  DEF PoolOK, WorkOK, ContextOK, GoOK, ChanOK, PutBackOnce, poolVars, workerVars, goVars, chanVars
<1>5. CallOK'
  BY <1>1, <1>3, StreamsAssumption DEF CallOK
<1>6. CallerInv'
  BY <1>2, <1>3 DEF CallerInv, poolVars, workerVars, goVars
<1>7. \A a \in Attempts : ~Active(a)
  BY <1>2, <1>3 DEF StreamInv, Placed
<1>8. StreamInv'
  BY <1>2, <1>3, <1>7 DEF StreamInv, Placed, Active, workerVars, goVars, chanVars
<1>9. FreshInv'
  BY <1>1, <1>2, <1>3, <1>7 DEF FreshInv, OwnsEnd, Active, ChanOK, poolVars, goVars, chanVars
<1> QED
  BY <1>4, <1>5, <1>6, <1>8, <1>9, NextTypeParts DEF Inv

-----------------------------------------------------------------------------
(* The worker, the client and the context.                                  *)

\* An attempt starts when no goroutine is active.
LEMMA AttemptInv == ASSUME Inv, Attempt PROVE Inv'
<1>1. PoolOK /\ CallOK /\ WorkOK /\ ContextOK /\ GoOK /\ ChanOK
  BY TypeParts DEF Inv
<1>2. PutBackOnce /\ CallerInv /\ StreamInv /\ FreshInv
  BY DEF Inv
<1>3. /\ worker = "attempt" /\ caller \in {"wait", "left"} /\ reply = "none" /\ place[0] = "none"
      /\ attempt \in Users /\ attempt < MaxAttempts
      /\ \A a \in Attempts : ~Active(a)
  BY <1>1, <1>2 DEF Attempt, CallerInv, WorkOK, StreamInv, Placed
<1>4. PICK b \in Attempts : b = attempt + 1
  BY <1>3, StreamsAssumption DEF Users, Attempts
<1>5. attempt' = b /\ b \in Users \ {0} /\ attempt \in Nat /\ b > attempt
  BY <1>3, <1>4, Zero DEF Attempt, Attempts
<1>6. Placed(b) /\ place[b] = "none" /\ ~closed[b] /\ b \notin fresh /\ final[b] = 0
  BY <1>2, <1>3, <1>5 DEF StreamInv, Placed
<1>7. /\ UNCHANGED <<callerVars, retries, reply, ctxVars, parked, item, sent, final, chan>>
      /\ fresh' = (IF end THEN fresh ELSE fresh \cup {b})
      /\ worker' \in {"first", "failed"} /\ failure' \in {failure, "error", "broken"}
      /\ \A a \in Users \ {b} : place'[a] = place[a] /\ closed'[a] = closed[a]
      /\ place' \in [Users -> Places] /\ closed' \in [Users -> BOOLEAN]
      /\ place'[b] \in {"none", "read"}
      /\ place'[b] = "read" => ~closed'[b] /\ worker' = "first" /\ GetPluginPipeline(b)
      /\ closed'[b] => worker' = "first"
  BY <1>1, <1>4, <1>5, <1>6 DEF Attempt, GoOK, ChanOK, Places
<1>8. /\ PoolOK' /\ PutBackOnce'
      /\ \A v \in Users \ {b} : held'[v] = held[v]
      /\ place'[b] = "read" => held'[b]
  BY <1>1, <1>2, <1>4, <1>5, <1>7, PoolStep DEF Attempt
<1>9. CallOK' /\ WorkOK' /\ ContextOK' /\ GoOK' /\ ChanOK'
  BY <1>1, <1>4, <1>5, <1>3, <1>7
  DEF CallOK, WorkOK, ContextOK, GoOK, ChanOK, callerVars, ctxVars, Errors
<1>10. CallerInv'
  BY <1>2, <1>3, <1>4, <1>5, <1>7, <1>8, Zero DEF CallerInv, callerVars
<1>11. StreamInv'
  <2>1. \A u \in Users : place'[u] \in {"hook", "send", "sent"} => item'[u] # "none"
    BY <1>2, <1>7 DEF StreamInv
  <2>2. ASSUME NEW a \in Attempts, a # b
        PROVE  Placed(a)'
    <3>1. a \in Users \ {b} /\ a \in Nat /\ Placed(a) /\ ~Active(a) /\ (a > b => a > attempt)
      BY <1>2, <1>3, <1>5, <2>2, Zero DEF StreamInv
    <3>2. ~Active(a)' /\ (a \in fresh' => a \in fresh)
      BY <1>7, <2>2, <3>1 DEF Active
    <3> QED
      BY <1>5, <1>7, <3>1, <3>2 DEF Placed
  <2>3. Placed(b)'
    <3>1. Active(b)' => place'[b] = "read"
      BY <1>7 DEF Active
    <3> QED
      BY <1>3, <1>5, <1>6, <1>7, <3>1 DEF Placed, callerVars
  <2>4. /\ place'[0] \notin {"span", "exit"} /\ item'[0] \in {"none", "data"}
        /\ \A v \in Users : place'[v] = "ensure" => closed'[v]
    BY <1>2, <1>5, <1>7, Zero DEF StreamInv
  <2> QED
    BY <2>1, <2>2, <2>3, <2>4 DEF StreamInv
<1>12. FreshInv'
  <2> SUFFICES ASSUME NEW a \in fresh'
               PROVE  OwnsEnd(a)'
    BY DEF FreshInv
  <2>1. CASE a = b
    <3>1. ~end /\ final'[b] = 0
      BY <1>6, <1>7, <2>1
    <3> QED
      BY <1>7, <1>8, <2>1, <3>1 DEF OwnsEnd, ctxVars
  <2>2. CASE a # b
    <3>1. a \in fresh /\ a \in Attempts /\ a \in Users \ {b} /\ OwnsEnd(a)
      BY <1>1, <1>2, <1>7, <2>2, Zero DEF FreshInv, ChanOK
    <3> QED
      BY <1>7, <1>8, <3>1 DEF OwnsEnd, ctxVars
  <2> QED
    BY <2>1, <2>2
<1> QED
  BY <1>8, <1>9, <1>10, <1>11, <1>12, NextTypeParts DEF Inv

\* Taking a chunk out of a channel keeps it typed.
LEMMA ReceiveTypes ==
  ASSUME ChanOK, NEW u \in Users, Receive(u)
  PROVE  ChanOK' /\ UNCHANGED <<closed, fresh>> /\ Head(chan[u]) \in Kinds
<1>1. chan[u] \in Seq(Kinds) /\ chan[u] # <<>>
  BY DEF Receive, ChanOK
<1>2. Tail(chan[u]) \in Seq(Kinds) /\ Head(chan[u]) \in Kinds
  BY <1>1
<1> QED
  BY <1>2 DEF Receive, ChanOK

\* A step of the worker between the start and the end of an attempt; it knows of a failed
\* attempt that no goroutine is active.
LEMMA WorkerFrame ==
  ASSUME Inv, WorkOK', ChanOK',
         UNCHANGED <<poolVars, callerVars, attempt, ctxVars, goVars, closed, fresh>>,
         parked' \in BOOLEAN,
         worker # "idle",
         \/ worker' # "idle" /\ UNCHANGED reply
         \/ worker' = "idle" /\ reply' = "stream" /\ worker = "send",
         worker' = "attempt" => worker = "failed" /\ attempt < MaxAttempts,
         worker' \in {"first", "drain", "failed", "park", "send"} => worker # "attempt",
         worker' \in {"failed", "attempt"} /\ worker # "failed" => ~Active(attempt)
  PROVE  Inv'
<1>1. PoolOK /\ CallOK /\ WorkOK /\ ContextOK /\ GoOK /\ ChanOK
  BY TypeParts DEF Inv
<1>2. PutBackOnce /\ CallerInv /\ StreamInv /\ FreshInv
  BY DEF Inv
<1>3. PoolOK' /\ ContextOK' /\ GoOK' /\ PutBackOnce' /\ FreshInv' /\ CallOK'
  BY <1>1, <1>2 DEF PoolOK, CallOK, ContextOK, GoOK, PutBackOnce, FreshInv, OwnsEnd,
     poolVars, callerVars, ctxVars, goVars
<1>4. worker \in {"attempt", "first", "drain", "failed", "park", "send"}
  BY <1>1 DEF WorkOK
<1>5. CallerInv'
  BY <1>1, <1>2, <1>4 DEF CallerInv, WorkOK, poolVars, callerVars, goVars
<1>6. \A a \in Attempts : Active(a) => worker' \notin {"attempt", "failed"} /\ reply' # "error"
  BY <1>2 DEF StreamInv, Placed
<1>7. StreamInv'
  BY <1>2, <1>6 DEF StreamInv, Placed, Active, callerVars, goVars
<1> QED
  BY <1>3, <1>5, <1>7, NextTypeParts DEF Inv

\* The first chunk, the rest of a failed stream, the retry, and the answer with a stream.
LEMMA WorkerInv ==
  ASSUME Inv, FirstChunk \/ Drain \/ Drained \/ Retry \/ Park \/ SendStream
  PROVE  Inv'
<1>1. WorkOK /\ ContextOK /\ ChanOK /\ StreamInv /\ CallerInv
  BY TypeParts DEF Inv
<1>2. CASE FirstChunk
  <2>1. attempt \in Users /\ worker = "first"
    BY <1>1, <1>2 DEF FirstChunk, WorkOK
  <2>2. CASE Receive(attempt)
    <3>1. /\ worker' \in {"drain", "park"} /\ failure' \in {failure} \cup Errors
          /\ UNCHANGED <<poolVars, callerVars, retries, attempt, reply, ctxVars, parked, goVars>>
      BY <1>2, <2>1, <2>2 DEF FirstChunk, Receive
    <3>2. ChanOK' /\ UNCHANGED <<closed, fresh>>
      BY <1>1, <2>1, <2>2, ReceiveTypes
    <3>3. WorkOK'
      BY <1>1, <3>1 DEF WorkOK
    <3> QED
      BY <1>1, <2>1, <3>1, <3>2, <3>3, WorkerFrame DEF ContextOK
  <2>3. CASE ~Receive(attempt)
    <3>1. /\ worker' = "send"
          /\ UNCHANGED <<failure, chanVars, poolVars, callerVars, retries, attempt, reply,
                         ctxVars, parked, goVars>>
      BY <1>2, <2>3 DEF FirstChunk
    <3>2. WorkOK' /\ ChanOK' /\ UNCHANGED <<closed, fresh>>
      BY <1>1, <3>1 DEF WorkOK, ChanOK, chanVars
    <3> QED
      BY <1>1, <2>1, <3>1, <3>2, WorkerFrame DEF ContextOK
  <2> QED
    BY <2>2, <2>3
<1>3. CASE Drain
  <2>1. attempt \in Users /\ worker = "drain" /\ Receive(attempt)
    BY <1>1, <1>3 DEF Drain, WorkOK
  <2>2. UNCHANGED <<poolVars, callerVars, workerVars, reply, ctxVars, parked, goVars>>
    BY <1>3 DEF Drain
  <2>3. ChanOK' /\ UNCHANGED <<closed, fresh>>
    BY <1>1, <2>1, ReceiveTypes
  <2>4. WorkOK'
    BY <1>1, <2>2 DEF WorkOK, workerVars
  <2> QED
    BY <1>1, <2>1, <2>2, <2>3, <2>4, WorkerFrame DEF ContextOK, workerVars
<1>4. CASE Drained
  <2>1. attempt \in Attempts /\ worker = "drain" /\ worker' = "failed" /\ closed[attempt]
    BY <1>1, <1>4 DEF Drained, WorkOK, CallerInv, Users, Attempts
  <2>2. ~Active(attempt)
    BY <1>1, <2>1 DEF StreamInv, Placed, Active
  <2>3. /\ UNCHANGED <<poolVars, callerVars, retries, attempt, failure, reply, ctxVars, parked,
                       goVars, chanVars>>
    BY <1>4 DEF Drained
  <2>4. WorkOK' /\ ChanOK' /\ UNCHANGED <<closed, fresh>>
    BY <1>1, <2>1, <2>3 DEF WorkOK, ChanOK, chanVars
  <2> QED
    BY <1>1, <2>1, <2>2, <2>3, <2>4, WorkerFrame DEF ContextOK
<1>5. CASE Retry
  <2>1. /\ worker = "failed" /\ worker' = "attempt" /\ attempt < MaxAttempts
        /\ retries < MaxRetries /\ retries' = retries + 1
        /\ UNCHANGED <<poolVars, callerVars, attempt, failure, reply, ctxVars, parked, goVars, chanVars>>
    BY <1>5 DEF Retry
  <2>2. WorkOK' /\ ChanOK' /\ UNCHANGED <<closed, fresh>>
    BY <1>1, <2>1, StreamsAssumption DEF WorkOK, ChanOK, chanVars
  <2> QED
    BY <1>1, <2>1, <2>2, WorkerFrame DEF ContextOK
<1>6. CASE Park
  <2>1. /\ worker = "park" /\ worker' = "send" /\ parked' = TRUE
        /\ UNCHANGED <<poolVars, callerVars, retries, attempt, failure, reply, ctxVars, goVars, chanVars>>
    BY <1>6 DEF Park
  <2>2. WorkOK' /\ ChanOK' /\ UNCHANGED <<closed, fresh>>
    BY <1>1, <2>1 DEF WorkOK, ChanOK, chanVars
  <2> QED
    BY <2>1, <2>2, WorkerFrame
<1>7. CASE SendStream
  <2>1. /\ worker = "send" /\ worker' = "idle" /\ reply' = "stream"
        /\ UNCHANGED <<poolVars, callerVars, retries, attempt, failure, ctxVars, parked, goVars, chanVars>>
    BY <1>7 DEF SendStream
  <2>2. WorkOK' /\ ChanOK' /\ UNCHANGED <<closed, fresh>>
    BY <1>1, <2>1 DEF WorkOK, ChanOK, chanVars
  <2> QED
    BY <1>1, <2>1, <2>2, WorkerFrame DEF ContextOK
<1> QED
  BY <1>2, <1>3, <1>4, <1>5, <1>6, <1>7

\* The worker gives up: its finalizer is the last for a pipeline that no goroutine uses.
LEMMA GiveUpInv == ASSUME Inv, GiveUp PROVE Inv'
<1>1. PoolOK /\ CallOK /\ WorkOK /\ ContextOK /\ GoOK /\ ChanOK
  BY TypeParts DEF Inv
<1>2. PutBackOnce /\ CallerInv /\ StreamInv /\ FreshInv
  BY DEF Inv
<1>3. /\ worker = "failed" /\ worker' = "idle" /\ reply = "none" /\ reply' = "error"
      /\ Finalize(attempt)
      /\ UNCHANGED <<callerVars, retries, attempt, failure, ctxVars, parked, goVars, chanVars>>
  BY <1>2 DEF GiveUp, CallerInv
<1>4. attempt \in Users \ {0} /\ \A a \in Attempts : ~Active(a)
  BY <1>1, <1>2, <1>3 DEF CallerInv, WorkOK, StreamInv, Placed
<1>5. PoolOK' /\ PutBackOnce' /\ \A v \in Users \ {attempt} : held'[v] = held[v]
  BY <1>1, <1>2, <1>3, <1>4, PoolStep
<1>6. CallOK' /\ WorkOK' /\ ContextOK' /\ GoOK' /\ ChanOK'
  BY <1>1, <1>3 DEF CallOK, WorkOK, ContextOK, GoOK, ChanOK, callerVars, ctxVars, goVars, chanVars
<1>7. CallerInv'
  BY <1>2, <1>3, <1>4, <1>5, Zero DEF CallerInv, callerVars, goVars
<1>8. StreamInv'
  BY <1>2, <1>3, <1>4 DEF StreamInv, Placed, Active, callerVars, goVars, chanVars
<1>9. FreshInv'
  BY <1>1, <1>2, <1>3, <1>4 DEF FreshInv, OwnsEnd, Active, ChanOK, ctxVars, goVars, chanVars
<1> QED
  BY <1>5, <1>6, <1>7, <1>8, <1>9, NextTypeParts DEF Inv

\* A client that reads, and the end of the context.
LEMMA ClientInv ==
  ASSUME Inv, EndContext \/ \E u \in Users : Consume(u)
  PROVE  Inv'
<1>1. PoolOK /\ CallOK /\ WorkOK /\ ContextOK /\ GoOK /\ ChanOK
  BY TypeParts DEF Inv
<1>2. PutBackOnce /\ CallerInv /\ StreamInv /\ FreshInv
  BY DEF Inv
<1>3. /\ UNCHANGED <<poolVars, callerVars, workerVars, reply, end, parked, goVars, closed, fresh>>
      /\ done' \in {done, TRUE}
      /\ ChanOK'
  <2>1. CASE EndContext
    BY <1>1, <2>1 DEF EndContext, ChanOK, chanVars
  <2>2. ASSUME NEW u \in Users, Consume(u)
        PROVE  /\ UNCHANGED <<poolVars, callerVars, workerVars, reply, end, parked, goVars, closed, fresh>>
               /\ done' \in {done, TRUE}
               /\ ChanOK'
    BY <1>1, <2>2, ReceiveTypes DEF Consume, ctxVars
  <2> QED
    BY <2>1, <2>2
<1>4. PoolOK' /\ CallOK' /\ WorkOK' /\ ContextOK' /\ GoOK' /\ PutBackOnce' /\ CallerInv'
  BY <1>1, <1>2, <1>3
  DEF PoolOK, CallOK, WorkOK, ContextOK, GoOK, PutBackOnce, CallerInv,
      poolVars, callerVars, workerVars, goVars
<1>5. StreamInv'
  BY <1>2, <1>3 DEF StreamInv, Placed, Active, callerVars, workerVars, goVars
<1>6. FreshInv'
  <2>1. done => done'
    BY <1>3, Zenon
  <2> QED
    BY <1>3, <2>1, FreshKept DEF poolVars, goVars
<1> QED
  BY <1>3, <1>4, <1>5, <1>6, NextTypeParts DEF Inv

-----------------------------------------------------------------------------
(* The goroutine of a stream.                                               *)

\* A step of the goroutine of stream u, given what it does to its own stream: only an
\* active goroutine of an attempt sets the end indicator, and there is one at most.
LEMMA GoroutineFrame ==
  ASSUME Inv, NEW u \in Users, place[u] # "none",
         UNCHANGED <<callerVars, workerVars, reply, done, fresh>>,
         PoolOK', PutBackOnce', GoOK', ChanOK', end' \in BOOLEAN, parked' \in BOOLEAN,
         \A v \in Users \ {u} :
            /\ place'[v] = place[v] /\ item'[v] = item[v] /\ final'[v] = final[v]
            /\ closed'[v] = closed[v] /\ held'[v] = held[v],
         end' = end \/ (u > 0 /\ Active(u)),
         place'[u] \in {"hook", "send", "sent"} => item'[u] # "none",
         place'[u] # "none",
         place'[u] = "ensure" => closed'[u],
         Active(u)' => Active(u),
         u > 0 /\ closed'[u] => place'[u] \in {"span", "ensure", "gone"},
         u = 0 => place'[0] \notin {"span", "exit"} /\ item'[0] \in {"none", "data"},
         u \in fresh => OwnsEnd(u)'
  PROVE  Inv'
<1>1. PoolOK /\ CallOK /\ WorkOK /\ ContextOK /\ GoOK /\ ChanOK
  BY TypeParts DEF Inv
<1>2. PutBackOnce /\ CallerInv /\ StreamInv /\ FreshInv
  BY DEF Inv
<1>3. CallOK' /\ WorkOK' /\ ContextOK'
  BY <1>1 DEF CallOK, WorkOK, ContextOK, callerVars, workerVars
<1>4. CallerInv'
  <2>1. u = 0 => caller = "open"
    BY <1>2 DEF CallerInv
  <2>2. u # 0 => held'[0] = held[0] /\ place'[0] = place[0]
    BY Zero
  <2> QED
    BY <1>2, <2>1, <2>2 DEF CallerInv, callerVars, workerVars
<1>5. StreamInv'
  <2>1. \A v \in Users : place'[v] \in {"hook", "send", "sent"} => item'[v] # "none"
    BY <1>2 DEF StreamInv
  <2>2. ASSUME NEW a \in Attempts
        PROVE  Placed(a)'
    <3>1. a \in Users /\ Placed(a)
      BY <1>2, Zero DEF StreamInv
    <3>2. CASE a = u
      <4>1. u > 0
        BY <3>2 DEF Attempts
      <4> QED
        BY <3>1, <3>2, <4>1 DEF Placed, callerVars, workerVars
    <3>3. CASE a # u
      <4>1. Active(a)' = Active(a)
        BY <3>1, <3>3 DEF Active
      <4> QED
        BY <3>1, <3>3, <4>1 DEF Placed, callerVars, workerVars
    <3> QED
      BY <3>2, <3>3
  <2>3. /\ place'[0] \notin {"span", "exit"} /\ item'[0] \in {"none", "data"}
        /\ \A v \in Users : place'[v] = "ensure" => closed'[v]
    BY <1>2, Zero DEF StreamInv
  <2> QED
    BY <2>1, <2>2, <2>3 DEF StreamInv
<1>6. FreshInv'
  <2> SUFFICES ASSUME NEW a \in fresh, a # u
               PROVE  OwnsEnd(a)'
    BY DEF FreshInv
  <2>1. a \in Attempts /\ a \in Users /\ OwnsEnd(a)
    BY <1>1, <1>2, Zero DEF FreshInv, ChanOK
  <2>2. CASE end' = end
    BY <2>1, <2>2 DEF OwnsEnd
  <2>3. CASE u > 0 /\ Active(u)
    <3>1. u \in Attempts
      BY <2>3, StreamsAssumption DEF Users, Attempts
    <3>2. u = attempt /\ ~Active(a)
      BY <1>2, <2>1, <2>3, <3>1 DEF StreamInv, Placed
    <3> QED
      BY <2>1, <3>2 DEF OwnsEnd, Active
  <2> QED
    BY <2>2, <2>3
<1> QED
  BY <1>3, <1>4, <1>5, <1>6, NextTypeParts DEF Inv

\* Stream u goes on at l, with a chunk of kind k if that is a hook; the provider's last
\* chunk sets the indicator.
Moves(u, l, k) ==
    /\ place' = [place EXCEPT ![u] = l]
    /\ item' = IF l = "hook" THEN [item EXCEPT ![u] = k] ELSE item
    /\ l = "hook" => k # "none"
    /\ end' = IF l = "hook" /\ k # "data" THEN TRUE ELSE end

\* What an attempt's goroutine looked at before it moved.
Looked(u, l, k) ==
    \/ place[u] = "read" /\ l = "exit" /\ done
    \/ place[u] = "read" /\ l = "hook"
    \/ place[u] = "exit" /\ l = "hook" /\ k # "data" /\ done /\ ~end
    \/ place[u] = "exit" /\ l = "close" /\ (done => end)

\* Read, Relay and the deferred function: a chunk is processed, or the loop is left.
LEMMA ReadInv ==
  ASSUME Inv, NEW u \in Users, (u = 0 /\ Relay) \/ (u > 0 /\ (Read(u) \/ Exit(u)))
  PROVE  Inv'
<1>1. PoolOK /\ ContextOK /\ GoOK /\ ChanOK /\ PutBackOnce /\ StreamInv /\ FreshInv
  BY TypeParts DEF Inv
<1>2. /\ UNCHANGED <<poolVars, callerVars, workerVars, reply, done, parked, final, chanVars>>
      /\ place[u] \in {"read", "exit"}
  BY DEF Relay, Read, Exit, ctxVars
<1>3. PICK l \in {"hook", "exit", "close"}, k \in Kinds \cup {"none"} :
         /\ Moves(u, l, k)
         /\ u > 0 => Looked(u, l, k)
         /\ u = 0 => l # "exit" /\ k \in {"none", "data"}
  <2> USE DEF Process, Goto
  <2>1. {"data", "final", "error", "broken", "ended", "none"} \subseteq Kinds \cup {"none"}
    BY DEF Kinds, Errors
  <2>2. CASE u = 0 /\ Relay
    <3>1. Moves(u, "hook", "data") \/ Moves(u, "close", "none")
      BY <2>2 DEF Relay, Moves, ctxVars
    <3> QED
      BY <2>1, <2>2, <3>1
  <2>3. CASE u > 0 /\ Read(u)
    <3>1. place[u] = "read"
      BY <2>3 DEF Read
    <3>2. ~(u = 0)
      BY <2>3
    <3>3. CASE done /\ Goto(u, "exit") /\ UNCHANGED <<item, sent, end>>
      <4>1. Moves(u, "exit", "none")
        BY <3>3 DEF Moves
      <4>2. Looked(u, "exit", "none")
        BY <3>1, <3>3, Zenon DEF Looked
      <4> QED
        BY <2>1, <3>2, <4>1, <4>2
    <3>4. CASE Process(u, "data") /\ UNCHANGED end
      <4>1. Moves(u, "hook", "data")
        BY <3>4 DEF Moves
      <4>2. Looked(u, "hook", "data")
        BY <3>1, Zenon DEF Looked
      <4> QED
        BY <2>1, <3>2, <4>1, <4>2
    <3>5. ASSUME NEW k \in {"final", "error", "broken"}, Process(u, k), end' = TRUE
          PROVE  Moves(u, "hook", k) /\ Looked(u, "hook", k) /\ k \in Kinds \cup {"none"}
      <4>1. Moves(u, "hook", k)
        BY <3>5 DEF Moves
      <4>2. Looked(u, "hook", k)
        BY <3>1, Zenon DEF Looked
      <4> QED
        BY <2>1, <4>1, <4>2
    <3>6. CASE \E k \in {"final", "error", "broken"} : Process(u, k) /\ end' = TRUE
      BY <3>2, <3>5, <3>6
    <3> QED
      BY <2>3, <3>3, <3>4, <3>6 DEF Read
  <2>4. CASE u > 0 /\ Exit(u)
    <3>1. place[u] = "exit"
      BY <2>4 DEF Exit
    <3>2. ~(u = 0)
      BY <2>4
    <3>3. CASE done /\ ~end
      <4>1. Process(u, "ended") /\ end' = TRUE
        BY <2>4, <3>3 DEF Exit
      <4>2. Moves(u, "hook", "ended")
        BY <4>1 DEF Moves
      <4>3. Looked(u, "hook", "ended")
        <5>1. "ended" # "data"
          OBVIOUS
        <5> QED
          BY <3>1, <3>3, <5>1, Zenon DEF Looked
      <4> QED
        BY <2>1, <3>2, <4>2, <4>3
    <3>4. CASE done => end
      <4>1. Goto(u, "close") /\ UNCHANGED <<item, end>>
        BY <2>4, <3>4 DEF Exit
      <4>2. Moves(u, "close", "none")
        BY <4>1 DEF Moves
      <4>3. Looked(u, "close", "none")
        BY <3>1, <3>4, Zenon DEF Looked
      <4> QED
        BY <2>1, <3>2, <4>2, <4>3
    <3> QED
      BY <3>3, <3>4
  <2> QED
    BY <2>2, <2>3, <2>4
<1>4. sent' \in [Users -> 0..MaxChunks]
  BY <1>1, Zero, StreamsAssumption DEF Relay, Read, Exit, GoOK
<1>5. PoolOK' /\ PutBackOnce' /\ GoOK' /\ ChanOK' /\ end' \in BOOLEAN /\ parked' \in BOOLEAN
  BY <1>1, <1>2, <1>3, <1>4
  DEF Moves, PoolOK, PutBackOnce, ContextOK, GoOK, ChanOK, Places, poolVars, chanVars
<1>6. \A v \in Users \ {u} :
        /\ place'[v] = place[v] /\ item'[v] = item[v] /\ final'[v] = final[v]
        /\ closed'[v] = closed[v] /\ held'[v] = held[v]
  BY <1>1, <1>2, <1>3 DEF Moves, GoOK, poolVars, chanVars
<1>7. place'[u] = l /\ (l = "hook" => item'[u] = k)
  BY <1>1, <1>3 DEF Moves, GoOK
<1>8. Active(u) /\ (u > 0 => ~closed[u])
  BY <1>1, <1>2, StreamsAssumption DEF Active, StreamInv, Placed, Users, Attempts
<1>9. u \in fresh => OwnsEnd(u)'
  <2> SUFFICES ASSUME u \in fresh
               PROVE  OwnsEnd(u)'
    OBVIOUS
  <2>1. u > 0 /\ OwnsEnd(u)
    BY <1>1, StreamsAssumption DEF FreshInv, ChanOK, Attempts
  <2> QED
    BY <1>2, <1>3, <1>7, <2>1 DEF Moves, Looked, OwnsEnd, poolVars, chanVars
<1>10. u > 0 => ~closed'[u]
  BY <1>2, <1>8 DEF chanVars
<1>11. u = 0 => place'[0] \notin {"span", "exit"} /\ item'[0] \in {"none", "data"}
  BY <1>1, <1>3, <1>7 DEF StreamInv, Moves
<1>12. end' = end \/ u > 0
  BY <1>3 DEF Moves
<1>13. l = "hook" => item'[u] # "none"
  BY <1>3, <1>7 DEF Moves
<1> QED
  BY <1>2, <1>5, <1>6, <1>7, <1>8, <1>9, <1>10, <1>11, <1>12, <1>13, GoroutineFrame DEF chanVars

\* RunPostLLMHooks: with the indicator set they have seen the final chunk.
LEMMA HookInv == ASSUME Inv, NEW u \in Users, Hook(u) PROVE Inv'
<1>1. PoolOK /\ ContextOK /\ GoOK /\ ChanOK /\ PutBackOnce /\ StreamInv /\ FreshInv
  BY TypeParts DEF Inv
<1>2. /\ UNCHANGED <<poolVars, callerVars, workerVars, reply, ctxVars, parked, item, sent, chanVars>>
      /\ place[u] = "hook"
      /\ final' = [final EXCEPT ![u] = IF end THEN @ + 1 ELSE @]
  BY DEF Hook
<1>3. PICK l \in {"send", "sent"} : place' = [place EXCEPT ![u] = l]
  BY DEF Hook, Goto
<1>4. /\ PoolOK' /\ PutBackOnce' /\ GoOK' /\ ChanOK' /\ UNCHANGED <<done, end, parked>>
      /\ end' \in BOOLEAN /\ parked' \in BOOLEAN
  BY <1>1, <1>2, <1>3
  DEF PoolOK, PutBackOnce, ContextOK, GoOK, ChanOK, Places, poolVars, chanVars, ctxVars
<1>5. \A v \in Users \ {u} :
        /\ place'[v] = place[v] /\ item'[v] = item[v] /\ final'[v] = final[v]
        /\ closed'[v] = closed[v] /\ held'[v] = held[v]
  BY <1>1, <1>2, <1>3 DEF GoOK, poolVars, chanVars
<1>6. place'[u] = l /\ item'[u] # "none" /\ UNCHANGED <<closed, held, fresh, item>>
  BY <1>1, <1>2, <1>3 DEF GoOK, StreamInv, poolVars, chanVars
<1>7. Active(u) /\ (u > 0 => ~closed'[u])
  BY <1>1, <1>2, <1>6, StreamsAssumption DEF Active, StreamInv, Placed, Users, Attempts
<1>8. u \in fresh => OwnsEnd(u)'
  <2> SUFFICES ASSUME u \in fresh
               PROVE  OwnsEnd(u)'
    OBVIOUS
  <2>1. final[u] = 0 /\ held[u] /\ (end <=> item[u] # "data")
    BY <1>1, <1>2 DEF FreshInv, OwnsEnd
  <2>2. final'[u] = IF end THEN 1 ELSE 0
    BY <1>1, <1>2, <2>1 DEF GoOK
  <2> QED
    BY <1>4, <1>6, <2>1, <2>2 DEF OwnsEnd
<1>9. u = 0 => place'[0] \notin {"span", "exit"} /\ item'[0] \in {"none", "data"}
  BY <1>1, <1>6 DEF StreamInv
<1> QED
  BY <1>2, <1>4, <1>5, <1>6, <1>7, <1>8, <1>9, GoroutineFrame

\* GateSendChunk.
LEMMA SendInv == ASSUME Inv, NEW u \in Users, Send(u) PROVE Inv'
<1>1. PoolOK /\ ContextOK /\ GoOK /\ ChanOK /\ PutBackOnce /\ StreamInv /\ FreshInv
  BY TypeParts DEF Inv
<1>2. /\ UNCHANGED <<poolVars, callerVars, workerVars, reply, ctxVars, parked, item, sent,
                     final, closed, fresh>>
      /\ place[u] = "send"
  BY DEF Send
<1>3. PICK l \in {"sent", "close"} : place' = [place EXCEPT ![u] = l] /\ (u > 0 => l = "sent")
  BY Zero DEF Send, Goto
<1>4. ChanOK'
  <2>1. item[u] \in Kinds /\ chan[u] \in Seq(Kinds)
    BY <1>1, <1>2 DEF GoOK, ChanOK, StreamInv
  <2>2. Append(chan[u], item[u]) \in Seq(Kinds)
    BY <2>1
  <2> QED
    BY <1>1, <1>2, <2>2 DEF Send, ChanOK
<1>5. /\ PoolOK' /\ PutBackOnce' /\ GoOK' /\ UNCHANGED <<done, end, parked>>
      /\ end' \in BOOLEAN /\ parked' \in BOOLEAN
  BY <1>1, <1>2, <1>3 DEF PoolOK, PutBackOnce, ContextOK, GoOK, Places, poolVars, ctxVars
<1>6. \A v \in Users \ {u} :
        /\ place'[v] = place[v] /\ item'[v] = item[v] /\ final'[v] = final[v]
        /\ closed'[v] = closed[v] /\ held'[v] = held[v]
  BY <1>1, <1>2, <1>3 DEF GoOK, poolVars
<1>7. place'[u] = l /\ item'[u] # "none" /\ UNCHANGED <<closed, held, fresh, item>>
  BY <1>1, <1>2, <1>3 DEF GoOK, StreamInv, poolVars
<1>8. Active(u) /\ (u > 0 => ~closed'[u])
  BY <1>1, <1>2, <1>7, StreamsAssumption DEF Active, StreamInv, Placed, Users, Attempts
<1>9. u \in fresh => OwnsEnd(u)'
  <2>1. u \in fresh => l = "sent" /\ OwnsEnd(u)
    BY <1>1, <1>3 DEF FreshInv, ChanOK, Attempts
  <2> QED
    BY <1>2, <1>5, <1>7, <2>1 DEF OwnsEnd
<1>10. u = 0 => place'[0] \notin {"span", "exit"} /\ item'[0] \in {"none", "data"}
  BY <1>1, <1>7 DEF StreamInv
<1> QED
  BY <1>2, <1>4, <1>5, <1>6, <1>7, <1>8, <1>9, <1>10, GoroutineFrame

\* The goroutine goes on after a chunk, or completes the span and, once, its finalizer.
LEMMA SentInv == ASSUME Inv, NEW u \in Users, Sent(u) PROVE Inv'
<1>1. PoolOK /\ ContextOK /\ GoOK /\ ChanOK /\ PutBackOnce /\ StreamInv /\ FreshInv
  BY TypeParts DEF Inv
<1>2. /\ UNCHANGED <<callerVars, workerVars, reply, ctxVars, parked, item, sent, final, chanVars>>
      /\ place[u] = "sent"
  BY DEF Sent
<1>3. PICK l \in {"span", "read", "close", "exit"} :
        /\ place' = [place EXCEPT ![u] = l]
        /\ \/ UNCHANGED poolVars /\ l = After(item[u])
           \/ u > 0 /\ end /\ Finalize(u) /\ l = "span"
  <2>1. After(item[u]) \in {"read", "close", "exit"}
    BY DEF After
  <2> QED
    BY <2>1 DEF Sent, Complete, Goto
<1>4. PoolOK' /\ PutBackOnce' /\ \A v \in Users \ {u} : held'[v] = held[v]
  BY <1>1, <1>3, PoolStep
<1>5. /\ GoOK' /\ ChanOK' /\ UNCHANGED <<done, end, parked>>
      /\ end' \in BOOLEAN /\ parked' \in BOOLEAN
  BY <1>1, <1>2, <1>3 DEF ContextOK, GoOK, ChanOK, Places, ctxVars, chanVars
<1>6. \A v \in Users \ {u} :
        /\ place'[v] = place[v] /\ item'[v] = item[v] /\ final'[v] = final[v]
        /\ closed'[v] = closed[v] /\ held'[v] = held[v]
  BY <1>1, <1>2, <1>3, <1>4 DEF GoOK, chanVars
<1>7. place'[u] = l /\ UNCHANGED <<closed, fresh, item, final>>
  BY <1>1, <1>2, <1>3 DEF GoOK, chanVars
<1>8. Active(u) /\ (u > 0 => ~closed'[u])
  BY <1>1, <1>2, <1>7, StreamsAssumption DEF Active, StreamInv, Placed, Users, Attempts
<1>9. u \in fresh => OwnsEnd(u)'
  <2> SUFFICES ASSUME u \in fresh
               PROVE  OwnsEnd(u)'
    OBVIOUS
  <2>1. (end <=> item[u] # "data") /\ final[u] = (IF end THEN 1 ELSE 0) /\ held[u]
    BY <1>1, <1>2 DEF FreshInv, OwnsEnd
  <2>2. CASE l = "span" /\ end
    BY <1>5, <1>7, <2>1, <2>2 DEF OwnsEnd
  <2>3. CASE UNCHANGED poolVars /\ l = After(item[u]) /\ end
    <3>1. l \in {"close", "exit"} /\ final'[u] = 1
      BY <1>7, <2>1, <2>3 DEF After
    <3> QED
      BY <1>5, <1>7, <2>3, <3>1 DEF OwnsEnd
  <2>4. CASE UNCHANGED poolVars /\ l = After(item[u]) /\ ~end
    <3>1. l = "read" /\ final'[u] = 0 /\ held'[u]
      BY <1>7, <2>1, <2>4 DEF After, poolVars
    <3> QED
      BY <1>5, <1>7, <2>4, <3>1 DEF OwnsEnd
  <2> QED
    BY <1>3, <2>2, <2>3, <2>4
<1>10. u = 0 => place'[0] \notin {"span", "exit"} /\ item'[0] \in {"none", "data"}
  BY <1>1, <1>2, <1>3, <1>7 DEF StreamInv, After
<1> QED
  BY <1>2, <1>3, <1>4, <1>5, <1>6, <1>7, <1>8, <1>9, <1>10, GoroutineFrame

\* The span is ended; the goroutine goes on where completeDeferredSpan was called.
LEMMA CompleteSpanInv == ASSUME Inv, NEW u \in Users, CompleteSpan(u) PROVE Inv'
<1>1. PoolOK /\ ContextOK /\ GoOK /\ ChanOK /\ PutBackOnce /\ StreamInv /\ FreshInv
  BY TypeParts DEF Inv
<1>2. /\ UNCHANGED <<poolVars, callerVars, workerVars, reply, ctxVars, item, sent, final, chanVars>>
      /\ place[u] = "span" /\ parked' = FALSE /\ u # 0
  BY <1>1 DEF CompleteSpan, StreamInv
<1>3. PICK l \in {"gone", "read", "close", "exit"} :
        /\ place' = [place EXCEPT ![u] = l]
        /\ IF closed[u] THEN l = "gone" ELSE l = After(item[u])
  <2>1. After(item[u]) \in {"read", "close", "exit"}
    BY DEF After
  <2> QED
    BY <2>1 DEF CompleteSpan, Goto
<1>4. /\ PoolOK' /\ PutBackOnce' /\ GoOK' /\ ChanOK' /\ UNCHANGED <<done, end>>
      /\ end' \in BOOLEAN /\ parked' \in BOOLEAN
  BY <1>1, <1>2, <1>3
  DEF PoolOK, PutBackOnce, ContextOK, GoOK, ChanOK, Places, poolVars, ctxVars, chanVars
<1>5. \A v \in Users \ {u} :
        /\ place'[v] = place[v] /\ item'[v] = item[v] /\ final'[v] = final[v]
        /\ closed'[v] = closed[v] /\ held'[v] = held[v]
  BY <1>1, <1>2, <1>3 DEF GoOK, poolVars, chanVars
<1>6. place'[u] = l /\ UNCHANGED <<closed, held, fresh, item, final>>
  BY <1>1, <1>2, <1>3 DEF GoOK, poolVars, chanVars
<1>7. Active(u)' => Active(u)
  BY <1>2, <1>3, <1>6 DEF Active
<1>8. closed'[u] => l = "gone"
  BY <1>3, <1>6
<1>9. u \in fresh => OwnsEnd(u)'
  <2> SUFFICES ASSUME u \in fresh
               PROVE  OwnsEnd(u)'
    OBVIOUS
  <2>1. final[u] = 1 /\ (closed[u] \/ (end /\ item[u] # "data"))
    BY <1>1, <1>2 DEF FreshInv, OwnsEnd
  <2>2. l = "gone" \/ (end /\ l \in {"close", "exit"})
    BY <1>3, <2>1 DEF After
  <2> QED
    BY <1>4, <1>6, <2>1, <2>2 DEF OwnsEnd
<1>10. end' = end /\ l \notin {"none", "hook", "send", "sent", "ensure", "span"}
  BY <1>3, <1>4
<1> QED
  BY <1>2, <1>4, <1>5, <1>6, <1>7, <1>8, <1>9, <1>10, GoroutineFrame

\* CloseStream.
LEMMA CloseInv == ASSUME Inv, NEW u \in Users, Close(u) PROVE Inv'
<1>1. PoolOK /\ ContextOK /\ GoOK /\ ChanOK /\ PutBackOnce /\ StreamInv /\ FreshInv
  BY TypeParts DEF Inv
<1>2. /\ UNCHANGED <<poolVars, callerVars, workerVars, reply, ctxVars, parked, item, sent,
                     final, chan, fresh>>
      /\ place[u] = "close" /\ closed' = [closed EXCEPT ![u] = TRUE]
      /\ place' = [place EXCEPT ![u] = "ensure"]
  BY DEF Close, Goto
<1>3. /\ PoolOK' /\ PutBackOnce' /\ GoOK' /\ ChanOK' /\ UNCHANGED <<done, end, parked>>
      /\ end' \in BOOLEAN /\ parked' \in BOOLEAN
  BY <1>1, <1>2 DEF PoolOK, PutBackOnce, ContextOK, GoOK, ChanOK, Places, poolVars, ctxVars
<1>4. \A v \in Users \ {u} :
        /\ place'[v] = place[v] /\ item'[v] = item[v] /\ final'[v] = final[v]
        /\ closed'[v] = closed[v] /\ held'[v] = held[v]
  BY <1>1, <1>2 DEF GoOK, ChanOK, poolVars
<1>5. place'[u] = "ensure" /\ closed'[u] /\ UNCHANGED <<item, final>>
  BY <1>1, <1>2 DEF GoOK, ChanOK
<1>6. Active(u) /\ ~Active(u)'
  BY <1>2, <1>5 DEF Active
<1>7. u \in fresh => OwnsEnd(u)'
  BY <1>1, <1>2, <1>5 DEF FreshInv, OwnsEnd
<1>8. u = 0 => place'[0] \notin {"span", "exit"} /\ item'[0] \in {"none", "data"}
  BY <1>1, <1>5 DEF StreamInv
<1> QED
  BY <1>2, <1>3, <1>4, <1>5, <1>6, <1>7, <1>8, GoroutineFrame

\* EnsureStreamFinalizerCalled.
LEMMA EnsureInv == ASSUME Inv, NEW u \in Users, Ensure(u) PROVE Inv'
<1>1. PoolOK /\ ContextOK /\ GoOK /\ ChanOK /\ PutBackOnce /\ StreamInv /\ FreshInv
  BY TypeParts DEF Inv
<1>2. /\ UNCHANGED <<callerVars, workerVars, reply, ctxVars, parked, item, sent, final, chanVars>>
      /\ place[u] = "ensure" /\ closed[u]
  BY <1>1 DEF Ensure, StreamInv
<1>3. PICK l \in {"span", "gone"} :
        /\ place' = [place EXCEPT ![u] = l]
        /\ Finalize(u) \/ UNCHANGED poolVars
        /\ u = 0 => l = "gone"
  BY Zero DEF Ensure, Complete, Goto
<1>4. PoolOK' /\ PutBackOnce' /\ \A v \in Users \ {u} : held'[v] = held[v]
  BY <1>1, <1>3, PoolStep
<1>5. /\ GoOK' /\ ChanOK' /\ UNCHANGED <<done, end, parked>>
      /\ end' \in BOOLEAN /\ parked' \in BOOLEAN
  BY <1>1, <1>2, <1>3 DEF ContextOK, GoOK, ChanOK, Places, ctxVars, chanVars
<1>6. \A v \in Users \ {u} :
        /\ place'[v] = place[v] /\ item'[v] = item[v] /\ final'[v] = final[v]
        /\ closed'[v] = closed[v] /\ held'[v] = held[v]
  BY <1>1, <1>2, <1>3, <1>4 DEF GoOK, chanVars
<1>7. place'[u] = l /\ UNCHANGED <<closed, fresh, item, final>>
  BY <1>1, <1>2, <1>3 DEF GoOK, chanVars
<1>8. ~Active(u)' /\ closed'[u]
  BY <1>2, <1>7 DEF Active
<1>9. u \in fresh => OwnsEnd(u)'
  <2>1. u \in fresh => final'[u] = 1
    BY <1>1, <1>2, <1>7 DEF FreshInv, OwnsEnd
  <2> QED
    BY <1>7, <1>8, <2>1 DEF OwnsEnd
<1>10. u = 0 => place'[0] \notin {"span", "exit"} /\ item'[0] \in {"none", "data"}
  BY <1>1, <1>3, <1>7 DEF StreamInv
<1> QED
  BY <1>2, <1>4, <1>5, <1>6, <1>7, <1>8, <1>9, <1>10, GoroutineFrame

-----------------------------------------------------------------------------
(* The theorems.                                                            *)

LEMMA StepInv == ASSUME Inv, NEW u \in Users, Step(u) PROVE Inv'
<1>1. u = 0 \/ u > 0
  BY Zero
<1>2. u = 0 => ~Exit(u)
  BY DEF Inv, StreamInv, Exit
<1>3. CASE IF u = 0 THEN Relay ELSE Read(u)
  BY <1>1, <1>3, ReadInv
<1>4. CASE Exit(u)
  BY <1>1, <1>2, <1>4, ReadInv
<1> QED
  BY <1>3, <1>4, HookInv, SendInv, SentInv, CompleteSpanInv, CloseInv, EnsureInv DEF Step

LEMMA NextInv == ASSUME Inv, [Next]_vars PROVE Inv'
<1>1. CASE Call
  BY <1>1, StartInv, ReturnInv, NextFallbackInv DEF Call
<1>2. CASE Work
  BY <1>2, AttemptInv, WorkerInv, GiveUpInv DEF Work
<1>3. CASE EndContext \/ \E u \in Users : Step(u) \/ Consume(u)
  BY <1>3, ClientInv, StepInv
<1>4. CASE UNCHANGED vars
  <2>1. UNCHANGED <<poolVars, callerVars, workerVars, reply, ctxVars, parked, goVars, chanVars>>
    BY <1>4 DEF vars
  <2>2. PutBackOnce' /\ CallerInv' /\ StreamInv' /\ FreshInv'
    BY <2>1 DEF Inv, PutBackOnce, CallerInv, StreamInv, Placed, Active, FreshInv, OwnsEnd,
       poolVars, callerVars, workerVars, ctxVars, goVars, chanVars
  <2>3. TypeOK'
    BY <2>1 DEF Inv, TypeOK, poolVars, callerVars, workerVars, ctxVars, goVars, chanVars
  <2> QED
    BY <2>2, <2>3 DEF Inv
<1> QED
  BY <1>1, <1>2, <1>3, <1>4 DEF Next

\* The invariant of the module holds in every state.
THEOREM StreamInvariant == Spec => []Inv
<1>1. Init => Inv
  BY InitInv
<1>2. Inv /\ [Next]_vars => Inv'
  BY NextInv
<1> QED
  BY <1>1, <1>2, PTL DEF Spec

\* The state is well formed in every state.
THEOREM StreamTypes == Spec => []TypeOK
<1>1. Inv => TypeOK
  BY DEF Inv
<1> QED
  BY <1>1, StreamInvariant, PTL

\* releasePluginPipeline is called once for every getPluginPipeline, by whichever of the
\* last chunk, the safety net and the worker comes first.
THEOREM PipelinePutBackOnce == Spec => []PutBackOnce
<1>1. Inv => PutBackOnce
  BY DEF Inv
<1> QED
  BY <1>1, StreamInvariant, PTL

\* RunPostLLMHooks of a stream that starts with a clear indicator sees it set once, and
\* has seen it when the stream is closed.
THEOREM FinalChunkOnce == Spec => []OneFinalChunk
<1>1. Inv => OneFinalChunk
  <2> SUFFICES ASSUME Inv, NEW a \in fresh
               PROVE  final[a] <= 1 /\ (place[a] \in {"close", "ensure", "gone"} => final[a] = 1)
    BY DEF OneFinalChunk
  <2>1. a \in Attempts /\ a \in Users /\ OwnsEnd(a) /\ Placed(a) /\ place[a] \in Places
    BY Zero, TypeParts DEF Inv, FreshInv, StreamInv, ChanOK, GoOK
  <2>2. final[a] \in {0, 1}
    BY <2>1 DEF OwnsEnd, Placed, Places
  <2> QED
    BY <2>1, <2>2 DEF OwnsEnd
<1> QED
  BY <1>1, StreamInvariant, PTL

\* Such a stream runs no post-hook on a pipeline that was put back.
THEOREM FreshStreamHoldsPipeline == Spec => []FreshStreamKeepsPipeline
<1>1. Inv => FreshStreamKeepsPipeline
  BY DEF Inv, FreshInv, OwnsEnd, FreshStreamKeepsPipeline
<1> QED
  BY <1>1, StreamInvariant, PTL
=============================================================================
