------------------------------ MODULE Streams ------------------------------
(***************************************************************************)
(* A streaming request of core/bifrost.go from tryStreamRequest to the end *)
(* of its stream.  The caller runs the pre-hooks on a pooled plugin        *)
(* pipeline and hands the request to a worker.  For every attempt the      *)
(* worker takes a pipeline of its own from the pool and lets the provider  *)
(* start a goroutine, which passes each chunk through the post-hooks of    *)
(* that pipeline into a channel.  The worker looks at the first chunk: an  *)
(* error fails the attempt, after which it is retried, or the caller goes  *)
(* on to a fallback; anything else makes the stream the answer, and the    *)
(* attempt's span is parked under the trace id for the goroutine to end.   *)
(* A finalizer, wrapped in sync.Once, gives the pipeline back.             *)
(*                                                                         *)
(* Abstractions.  A chunk is its kind.  The hooks of one chunk are one     *)
(* step.  The queue, the key rotation and the choice between retry and     *)
(* fallback are the subjects of ProviderQueue, KeyRotation and Fallbacks:  *)
(* here a failed attempt that may be retried may also not be.  The         *)
(* goroutine that re-injects the first chunk is part of the consumer,      *)
(* which reads on, and drains the channel once the context has ended.  The *)
(* goroutine is that of the OpenAI adapter, on which most others build.    *)
(* Pooled pipelines are reset, so that it does not matter which of them    *)
(* the pool hands out: it is represented by who holds and who put back.    *)
(***************************************************************************)
EXTENDS Integers, Sequences

CONSTANTS
    MaxRetries,   \* retries of a try
    MaxFallbacks, \* fallbacks of the request
    MaxAttempts,  \* bound on the attempts of all its tries together
    MaxChunks,    \* data chunks a provider sends in an attempt
    Buffer        \* DefaultStreamBufferSize

Attempts == 1..MaxAttempts

\* The pipelines and streams of the request: number 0 is the caller's pipeline, and the
\* stream of a plugin that short-circuits.
Users == 0..MaxAttempts

ASSUME StreamsAssumption ==
    /\ MaxRetries \in Nat /\ MaxFallbacks \in Nat /\ MaxChunks \in Nat
    /\ MaxAttempts \in Nat \ {0} /\ Buffer \in Nat \ {0}

VARIABLES
    held,      \* users that hold the pipeline they got; for an attempt, finalizerOnce is unused
    puts,      \* how often each user has put its pipeline back
    caller,    \* tryStreamRequest
    try,       \* fallback index
    worker,    \* executeRequestWithRetries
    retries,   \* retries of this try so far
    attempt,   \* number of the last attempt
    failure,   \* kind of its error
    reply,     \* what the channels of the message hold
    done,      \* the context of the request has ended
    end,       \* BifrostContextKeyStreamEndIndicator on that context
    parked,    \* the span of an attempt is parked under the trace id
    place,     \* where the goroutine of each stream is
    item,      \* the chunk it is processing
    sent,      \* data chunks read by it
    final,     \* how often its post-hooks ran with the end indicator set
    chan,      \* the response channel of each stream
    closed,    \* ... and whether it is closed
    fresh      \* attempts that started with the end indicator clear (history)

poolVars   == <<held, puts>>
callerVars == <<caller, try>>
workerVars == <<worker, retries, attempt, failure>>
ctxVars    == <<done, end>>
goVars     == <<place, item, sent, final>>
chanVars   == <<chan, closed, fresh>>
vars == <<poolVars, callerVars, workerVars, reply, ctxVars, parked, goVars, chanVars>>

\* "error" is an error event or a truncated stream, "broken" a read error, "ended" the
\* error that HandleStreamCancellation or HandleStreamTimeout make.
Errors == {"error", "broken", "ended"}
Kinds == {"data", "final"} \cup Errors

Init ==
    /\ held = [u \in Users |-> FALSE]
    /\ puts = [u \in Users |-> 0]
    /\ caller = "start" /\ try = 0
    /\ worker = "idle" /\ retries = 0 /\ attempt = 0 /\ failure = "none"
    /\ reply = "none"
    /\ done = FALSE /\ end = FALSE
    /\ parked = FALSE
    /\ place = [u \in Users |-> "none"]
    /\ item = [u \in Users |-> "none"]
    /\ sent = [u \in Users |-> 0]
    /\ final = [u \in Users |-> 0]
    /\ chan = [u \in Users |-> <<>>]
    /\ closed = [u \in Users |-> FALSE]
    /\ fresh = {}

-----------------------------------------------------------------------------
(* The pool of pipelines.                                                   *)

\* getPluginPipeline by user u.
GetPluginPipeline(u) ==
    /\ held' = [held EXCEPT ![u] = TRUE]
    /\ puts' = [puts EXCEPT ![u] = 0]

\* releasePluginPipeline by user u.
ReleasePluginPipeline(u) ==
    /\ held' = [held EXCEPT ![u] = FALSE]
    /\ puts' = [puts EXCEPT ![u] = @ + 1]

\* Mutant: the finalizer is not wrapped in sync.Once.
Finalize_Always(u) == ReleasePluginPipeline(u)

\* Mutant: the finalizer is looked up on the context that the attempts share.
Finalize_Latest(u) == IF held[attempt] THEN ReleasePluginPipeline(attempt) ELSE UNCHANGED poolVars

\* postHookSpanFinalizer of attempt a, once.
Finalize(a) == IF held[a] THEN ReleasePluginPipeline(a) ELSE UNCHANGED poolVars

-----------------------------------------------------------------------------
(* tryStreamRequest and handleStreamRequest.                                *)

\* The pre-hooks ran, and a plugin let the request pass: a worker takes it.
Enqueue ==
    /\ caller = "start"
    /\ GetPluginPipeline(0)
    /\ caller' = "wait"
    /\ worker' = "attempt" /\ retries' = 0
    /\ UNCHANGED <<try, attempt, failure, reply, ctxVars, parked, goVars, chanVars>>

\* A plugin answers with a stream, which a goroutine relays through the post-hooks.
ShortCircuitStream ==
    /\ caller = "start"
    /\ GetPluginPipeline(0)
    /\ caller' = "open"
    /\ place' = [place EXCEPT ![0] = "read"]
    /\ UNCHANGED <<try, workerVars, reply, ctxVars, parked, item, sent, final, chanVars>>

\* A plugin answers with a response or an error, or the queue refuses the request.
\* The pipeline is back when tryStreamRequest returns.
AnswerEarly ==
    /\ caller = "start"
    /\ caller' \in {"returned", "failed"}
    /\ UNCHANGED <<poolVars, try, workerVars, reply, ctxVars, parked, goVars, chanVars>>

ReturnStream ==
    /\ caller = "wait" /\ reply = "stream"
    /\ ReleasePluginPipeline(0)
    /\ caller' = "open" /\ reply' = "none"
    /\ UNCHANGED <<try, workerVars, ctxVars, parked, goVars, chanVars>>

\* The error of the worker is marked as final for the post-hooks; they may recover.
ReturnError ==
    /\ caller = "wait" /\ reply = "error"
    /\ end' = TRUE
    /\ ReleasePluginPipeline(0)
    /\ caller' \in {"returned", "failed"} /\ reply' = "none"
    /\ UNCHANGED <<try, workerVars, done, parked, goVars, chanVars>>

\* The context ends first: the worker and the goroutines are on their own.
Leave ==
    /\ caller = "wait" /\ done
    /\ ReleasePluginPipeline(0)
    /\ caller' = "left"
    /\ UNCHANGED <<try, workerVars, reply, ctxVars, parked, goVars, chanVars>>

\* handleStreamRequest goes on to the next fallback, after clearCtxForFallback.
NextFallback ==
    /\ caller = "failed"
    /\ try < MaxFallbacks /\ attempt < MaxAttempts
    /\ try' = try + 1 /\ caller' = "start"
    /\ end' = FALSE
    /\ UNCHANGED <<poolVars, workerVars, reply, done, parked, goVars, chanVars>>

-----------------------------------------------------------------------------
(* The worker: executeRequestWithRetries and its stream handler.            *)

\* The handler takes a pipeline and calls the provider: a goroutine streams; or the
\* call fails and the pipeline is released at once; or a large payload is passed
\* through behind a closed channel, with no goroutine to release the pipeline.
Attempt ==
    /\ worker = "attempt"
    /\ attempt' = attempt + 1
    /\ fresh' = IF end THEN fresh ELSE fresh \cup {attempt + 1}
    /\ \/ /\ GetPluginPipeline(attempt + 1)
          /\ place' = [place EXCEPT ![attempt + 1] = "read"]
          /\ worker' = "first"
          /\ UNCHANGED <<failure, closed>>
       \/ /\ worker' = "failed"
          /\ failure' \in {"error", "broken"}
          /\ UNCHANGED <<poolVars, place, closed>>
       \/ /\ GetPluginPipeline(attempt + 1)
          /\ closed' = [closed EXCEPT ![attempt + 1] = TRUE]
          /\ worker' = "first"
          /\ UNCHANGED <<failure, place>>
    /\ UNCHANGED <<callerVars, retries, reply, ctxVars, parked, item, sent, final, chan>>

\* Take the next chunk out of the channel of stream u.
Receive(u) ==
    /\ chan[u] # <<>>
    /\ chan' = [chan EXCEPT ![u] = Tail(@)]
    /\ UNCHANGED <<closed, fresh>>

\* CheckFirstStreamChunkForError: an error, a chunk, or the end of an empty stream,
\* whose span is ended on the spot.  The hooks may have put an error in the place of a
\* chunk, or a response in that of an error; only the worker looks at what they made of
\* it, so the choice is left until here.
FirstChunk ==
    /\ worker = "first"
    /\ \/ /\ Receive(attempt)
          /\ \E k \in {Head(chan[attempt]), "data", "error"} :
                IF k \in Errors
                   THEN worker' = "drain" /\ failure' = k
                   ELSE worker' = "park" /\ UNCHANGED failure
       \/ /\ chan[attempt] = <<>> /\ closed[attempt]
          /\ worker' = "send"
          /\ UNCHANGED <<failure, chanVars>>
    /\ UNCHANGED <<poolVars, callerVars, retries, attempt, reply, ctxVars, parked, goVars>>

\* The rest of a failed stream is read by a goroutine of its own.
Drain ==
    /\ worker = "drain"
    /\ Receive(attempt)
    /\ UNCHANGED <<poolVars, callerVars, workerVars, reply, ctxVars, parked, goVars>>

\* <-drainDone.
Drained ==
    /\ worker = "drain"
    /\ chan[attempt] = <<>> /\ closed[attempt]
    /\ worker' = "failed"
    /\ UNCHANGED <<poolVars, callerVars, retries, attempt, failure, reply, ctxVars, parked,
                   goVars, chanVars>>

\* The attempt failed and its span is ended; it is retried, on the same context.
Retry ==
    /\ worker = "failed"
    /\ failure # "broken" /\ retries < MaxRetries /\ attempt < MaxAttempts
    /\ worker' = "attempt" /\ retries' = retries + 1
    /\ UNCHANGED <<poolVars, callerVars, attempt, failure, reply, ctxVars, parked, goVars, chanVars>>

\* Or it was the last one: lastAttemptFinalizer, then the error goes to the caller.
GiveUp ==
    /\ worker = "failed"
    /\ worker' = "idle" /\ reply' = "error"
    /\ Finalize(attempt)
    /\ UNCHANGED <<callerVars, retries, attempt, failure, ctxVars, parked, goVars, chanVars>>

\* StoreDeferredSpan.
Park ==
    /\ worker = "park"
    /\ worker' = "send"
    /\ parked' = TRUE
    /\ UNCHANGED <<poolVars, callerVars, retries, attempt, failure, reply, ctxVars, goVars, chanVars>>

SendStream ==
    /\ worker = "send"
    /\ worker' = "idle" /\ reply' = "stream"
    /\ UNCHANGED <<poolVars, callerVars, retries, attempt, failure, ctxVars, parked, goVars, chanVars>>

Work == Attempt \/ FirstChunk \/ Drain \/ Drained \/ Retry \/ GiveUp \/ Park \/ SendStream

\* The client reads the stream; once the context has ended it is drained.
Consume(u) ==
    /\ u = attempt => worker \in {"park", "send", "idle"}
    /\ Receive(u)
    /\ UNCHANGED <<poolVars, callerVars, workerVars, reply, ctxVars, parked, goVars>>

\* The client disconnects or the deadline passes.
EndContext ==
    /\ ~done
    /\ done' = TRUE
    /\ UNCHANGED <<poolVars, callerVars, workerVars, reply, end, parked, goVars, chanVars>>

-----------------------------------------------------------------------------
(* The goroutine of a stream.                                               *)

Goto(u, l) == place' = [place EXCEPT ![u] = l]

\* A chunk of kind k is processed.
Process(u, k) ==
    /\ Goto(u, "hook")
    /\ item' = [item EXCEPT ![u] = k]

\* The read loop of attempt a: it looks at the context first; data goes on as it is,
\* everything that ends the stream sets the end indicator before its hooks run.
Read(a) ==
    /\ place[a] = "read"
    /\ \/ /\ done
          /\ Goto(a, "exit")
          /\ UNCHANGED <<item, sent, end>>
       \/ /\ sent[a] < MaxChunks
          /\ Process(a, "data")
          /\ sent' = [sent EXCEPT ![a] = @ + 1]
          /\ UNCHANGED end
       \/ /\ \E k \in {"final", "error", "broken"} : Process(a, k)
          /\ end' = TRUE
          /\ UNCHANGED sent
    /\ UNCHANGED <<poolVars, callerVars, workerVars, reply, done, parked, final, chanVars>>

\* The relay of a plugin's stream ends with it.
Relay ==
    /\ place[0] = "read"
    /\ \/ /\ sent[0] < MaxChunks
          /\ Process(0, "data")
          /\ sent' = [sent EXCEPT ![0] = @ + 1]
       \/ /\ Goto(0, "close")
          /\ UNCHANGED <<item, sent>>
    /\ UNCHANGED <<poolVars, callerVars, workerVars, reply, ctxVars, parked, final, chanVars>>

\* RunPostLLMHooks; a plugin may have a provider's chunk skipped.
Hook(u) ==
    /\ place[u] = "hook"
    /\ Goto(u, "send") \/ (u > 0 /\ Goto(u, "sent"))
    /\ final' = [final EXCEPT ![u] = IF end THEN @ + 1 ELSE @]
    /\ UNCHANGED <<poolVars, callerVars, workerVars, reply, ctxVars, parked, item, sent, chanVars>>

\* GateSendChunk: the channel has room, or the context has ended.  The relay gives up
\* in that case and drains the plugin's stream.
Send(u) ==
    /\ place[u] = "send"
    /\ \/ /\ Len(chan[u]) < Buffer
          /\ chan' = [chan EXCEPT ![u] = Append(@, item[u])]
          /\ Goto(u, "sent")
       \/ /\ done
          /\ Goto(u, IF u = 0 THEN "close" ELSE "sent")
          /\ UNCHANGED chan
    /\ UNCHANGED <<poolVars, callerVars, workerVars, reply, ctxVars, parked, item, sent,
                   final, closed, fresh>>

\* Where a goroutine goes on after a chunk of kind k.
After(k) ==
    CASE k = "data" -> "read"
      [] k = "ended" -> "close"
      [] OTHER -> "exit"

\* completeDeferredSpan of attempt a, up to the end of its finalizer: with no span
\* parked it does nothing.
Complete(a, next) ==
    IF ~parked
       THEN Goto(a, next) /\ UNCHANGED poolVars
       ELSE /\ Goto(a, "span")
            /\ Finalize(a)

\* After the chunk: on the final one the parked span is completed, but not by
\* ProcessAndSendError.
Sent(u) ==
    /\ place[u] = "sent"
    /\ IF u > 0 /\ end /\ item[u] # "broken"
          THEN Complete(u, After(item[u]))
          ELSE Goto(u, After(item[u])) /\ UNCHANGED poolVars
    /\ UNCHANGED <<callerVars, workerVars, reply, ctxVars, parked, item, sent, final, chanVars>>

\* ... its last two statements: the span is ended and no longer parked.
CompleteSpan(a) ==
    /\ place[a] = "span"
    /\ parked' = FALSE
    /\ Goto(a, IF closed[a] THEN "gone" ELSE After(item[a]))
    /\ UNCHANGED <<poolVars, callerVars, workerVars, reply, ctxVars, item, sent, final, chanVars>>

\* Mutant: the deferred function does not look at the end indicator.
Exit_Again(a) ==
    /\ place[a] = "exit"
    /\ IF done
          THEN Process(a, "ended") /\ end' = TRUE
          ELSE Goto(a, "close") /\ UNCHANGED <<item, end>>
    /\ UNCHANGED <<poolVars, callerVars, workerVars, reply, done, parked, sent, final, chanVars>>

\* The deferred function: HandleStreamCancellation and HandleStreamTimeout report the
\* end of the context, unless the end indicator is already set.
Exit(a) ==
    /\ place[a] = "exit"
    /\ IF done /\ ~end
          THEN Process(a, "ended") /\ end' = TRUE
          ELSE Goto(a, "close") /\ UNCHANGED <<item, end>>
    /\ UNCHANGED <<poolVars, callerVars, workerVars, reply, done, parked, sent, final, chanVars>>

\* CloseStream.
Close(u) ==
    /\ place[u] = "close"
    /\ closed' = [closed EXCEPT ![u] = TRUE]
    /\ Goto(u, "ensure")
    /\ UNCHANGED <<poolVars, callerVars, workerVars, reply, ctxVars, parked, item, sent,
                   final, chan, fresh>>

\* Mutant: the safety net only looks at the span.
Ensure_SpanOnly(u) ==
    /\ place[u] = "ensure"
    /\ Complete(u, "gone")
    /\ UNCHANGED <<callerVars, workerVars, reply, ctxVars, parked, item, sent, final, chanVars>>

\* EnsureStreamFinalizerCalled, for a span that is parked or for none; the relay
\* releases the caller's pipeline.
Ensure(u) ==
    /\ place[u] = "ensure"
    /\ IF u > 0 /\ parked
          THEN Complete(u, "gone")
          ELSE Finalize(u) /\ Goto(u, "gone")
    /\ UNCHANGED <<callerVars, workerVars, reply, ctxVars, parked, item, sent, final, chanVars>>

Step(u) ==
    \/ IF u = 0 THEN Relay ELSE Read(u)
    \/ Hook(u)
    \/ Send(u)
    \/ Sent(u)
    \/ CompleteSpan(u)
    \/ Exit(u)
    \/ Close(u)
    \/ Ensure(u)

Call ==
    \/ Enqueue
    \/ ShortCircuitStream
    \/ AnswerEarly
    \/ ReturnStream
    \/ ReturnError
    \/ Leave
    \/ NextFallback

Next ==
    \/ Call
    \/ Work
    \/ EndContext
    \/ \E u \in Users : Step(u) \/ Consume(u)

Spec == Init /\ [][Next]_vars

\* Goroutines and the worker run, a provider's read ends (the idle timeout sees to it),
\* and clients read their streams.
FairSpec ==
    /\ Spec
    /\ WF_vars(Work)
    /\ WF_vars(Call)
    /\ \A u \in Users : WF_vars(Step(u)) /\ WF_vars(Consume(u))

-----------------------------------------------------------------------------
(* Properties.                                                              *)

\* The state is well formed.
TypeOK ==
    /\ held \in [Users -> BOOLEAN] /\ puts \in [Users -> Nat]
    /\ caller \in {"start", "wait", "open", "returned", "failed", "left"}
    /\ try \in 0..MaxFallbacks
    /\ worker \in {"idle", "attempt", "first", "drain", "failed", "park", "send"}
    /\ retries \in 0..MaxRetries
    /\ attempt \in Users
    /\ failure \in {"none"} \cup Errors
    /\ reply \in {"none", "stream", "error"}
    /\ done \in BOOLEAN /\ end \in BOOLEAN
    /\ parked \in BOOLEAN
    /\ final \in [Users -> Nat]
    /\ place \in [Users -> {"none", "read", "hook", "send", "sent", "span", "exit", "close",
                            "ensure", "gone"}]
    /\ item \in [Users -> {"none"} \cup Kinds]
    /\ sent \in [Users -> 0..MaxChunks]
    /\ chan \in [Users -> Seq(Kinds)] /\ closed \in [Users -> BOOLEAN]
    /\ fresh \subseteq Attempts

\* A pipeline goes back to the pool once: whatever calls the finalizer of an attempt
\* (its last chunk, its deferred safety net, the worker that gives up), no second
\* request can be given a pipeline that is in use.
PutBackOnce == \A u \in Users : puts[u] <= 1 /\ (held[u] => puts[u] = 0)

\* The post-hooks of a stream see one final chunk: its last one, its error, or the end
\* of the context, whichever of them comes first.
OneFinalChunk ==
    \A a \in fresh :
        /\ final[a] <= 1
        /\ place[a] \in {"close", "ensure", "gone"} => final[a] = 1

\* A stream that starts with a clear end indicator holds its pipeline as long as it runs
\* post-hooks, whoever else calls finalizers or completes the span of its trace.
FreshStreamKeepsPipeline == \A a \in fresh : place[a] = "hook" => held[a]

\* The post-hooks of any stream run on a pipeline that it still holds: one that was put
\* back has no plugins, or those and the scoped contexts of another request.  (Not so
\* when a stream is retried after its first chunk: see the findings.)
HooksRunOnHeldPipeline == \A u \in Users : place[u] = "hook" => held[u]

\* Every stream ends and gives its pipeline back, though its channel is bounded, the
\* worker waits for its first chunk and the client may leave.
EveryStreamEnds ==
    \A u \in Users : place[u] \notin {"none", "gone"} ~> place[u] = "gone" /\ ~held[u]
=============================================================================
