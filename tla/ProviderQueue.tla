--------------------------- MODULE ProviderQueue ---------------------------
(***************************************************************************)
(* The request path of one provider in core/bifrost.go: callers            *)
(* (tryRequest and tryStreamRequest) hand pooled channel messages to a     *)
(* bounded queue; the workers of that queue (requestWorker) call the       *)
(* provider and answer through the message's own channels; UpdateProvider  *)
(* replaces the queue and its workers by a new generation while requests   *)
(* are in flight; RemoveProvider and Shutdown close it.                    *)
(*                                                                         *)
(* Abstractions.  A ChannelMessage and the channels it carries come from   *)
(* three pools and are always taken and released together, so one element  *)
(* of Msgs stands for the three.  signalClosing's two writes (closing := 1 *)
(* and close(done)) are one step: nobody who has read closing = 1 reads    *)
(* done of the same queue afterwards.  Popping a message and answering it  *)
(* with an error, in the drain loops, is one step: between the two the     *)
(* message is held by that goroutine alone.  The second isClosing test     *)
(* before the blocking select is not a step of its own: that select offers *)
(* the same error.  requestQueues and waitGroups are written together.     *)
(* Providers share nothing on this path but Shutdown: a pre-hook that      *)
(* changes the provider of a request is left out.                          *)
(***************************************************************************)
EXTENDS Integers, Sequences, FiniteSets

CONSTANTS
    Calls,           \* calls of tryRequest / tryStreamRequest, one attempt each
    Streams,         \* the calls that go through tryStreamRequest
    Msgs,            \* pooled ChannelMessage objects
    NoCall, NoMsg,   \* "nil": no call, no message
    MaxGen,          \* bound on the queues created for the provider
    Workers,         \* workers of one queue (Concurrency)
    BufferSize,      \* capacity of each queue, by generation
    DropModes,       \* values dropExcessRequests may be read as
    AccountReads,    \* answers of the account when asked for the provider's config
    PrepareMayFail,  \* whether createBaseProvider can fail in prepareProvider
    AdminOps         \* operations the administrator may start

Gens == 1..MaxGen

ASSUME ConstantsAssumption ==
    /\ Streams \subseteq Calls
    /\ NoCall \notin Calls
    /\ NoMsg \notin Msgs
    /\ MaxGen \in Nat \ {0}
    /\ BufferSize \in [Gens -> Nat \ {0}]
    /\ DropModes \subseteq BOOLEAN
    /\ AccountReads \subseteq BOOLEAN
    /\ PrepareMayFail \in BOOLEAN
    /\ AdminOps \subseteq {"update", "remove", "shutdown"}

VARIABLES
    stage,      \* where each call is in tryRequest
    pq,         \* the queue generation each call holds a reference to (0: none)
    msg,        \* the message each call holds
    ctxDone,    \* calls whose context is cancelled
    result,     \* what each call returned
    hooks,      \* terminal post-hook runs per call
    execs,      \* provider executions per call
    late,       \* calls that deposited a message in a queue already swept
    pool,       \* messages in the sync.Pool
    callOf,     \* the request a message carries (BifrostRequest, Context)
    response,   \* msg.Response / msg.ResponseStream, buffered, size 1
    errCh,      \* msg.Err, buffered, size 1
    queue,      \* the channel of each queue generation
    closing,    \* generations signalled closed
    swept,      \* generations whose final drain sweep has ended
    worker,     \* state of worker w of generation g
    published,  \* the generation in requestQueues and waitGroups (0: none)
    genCount,   \* generations created so far
    retired,    \* generations with a pending old-worker cleanup goroutine
    lock,       \* holder of the provider's write lock
    admin,      \* progress of UpdateProvider / RemoveProvider
    shutdown    \* progress of Shutdown

callVars  == <<stage, pq, msg, ctxDone, result, hooks, execs, late>>
msgVars   == <<pool, callOf, response, errCh>>
queueVars == <<queue, closing, swept, worker>>
adminVars == <<published, genCount, retired, lock, admin, shutdown>>
vars == <<callVars, msgVars, queueVars, adminVars>>

WorkerIds == Gens \X Workers

\* What a worker or a drain loop writes into a message's channels.
AnswerKinds == {"response", "providerError", "keyError", "closed", "transferFull"}
\* What tryRequest decides by itself.
LocalKinds == {"shortCircuit", "noRequest", "noProvider", "shuttingDown", "dropped",
               "cancelled"}

NoAnswer == [call |-> NoCall, kind |-> "none"]
Answer(c, k) == [call |-> c, kind |-> k]
Answers == [call : Calls, kind : AnswerKinds]
Results == [call : Calls, kind : AnswerKinds \cup LocalKinds]

Stages == {"idle", "preparing", "hooks", "check", "reroute", "send", "blocked", "wait",
           "returned"}

Off == [pc |-> "off", msg |-> NoMsg, out |-> NoAnswer]
Idle == [pc |-> "idle", msg |-> NoMsg, out |-> NoAnswer]
Drain == [pc |-> "drain", msg |-> NoMsg, out |-> NoAnswer]
Exited == [pc |-> "exited", msg |-> NoMsg, out |-> NoAnswer]
Busy(m) == [pc |-> "busy", msg |-> m, out |-> NoAnswer]
Deliver(m, a) == [pc |-> "deliver", msg |-> m, out |-> a]

NoOp == [pc |-> "none", old |-> 0, carry |-> NoMsg]
NotShutdown == [pc |-> "none", gen |-> 0]

Init ==
    /\ stage = [c \in Calls |-> "idle"]
    /\ pq = [c \in Calls |-> 0]
    /\ msg = [c \in Calls |-> NoMsg]
    /\ ctxDone = {}
    /\ result = [c \in Calls |-> NoAnswer]
    /\ hooks = [c \in Calls |-> 0]
    /\ execs = [c \in Calls |-> 0]
    /\ late = {}
    /\ pool = Msgs
    /\ callOf = [m \in Msgs |-> NoCall]
    /\ response = [m \in Msgs |-> NoAnswer]
    /\ errCh = [m \in Msgs |-> NoAnswer]
    /\ queue = [g \in Gens |-> << >>]
    /\ closing = {}
    /\ swept = {}
    /\ worker = [x \in WorkerIds |-> IF x[1] = 1 THEN Idle ELSE Off]
    /\ published = 1
    /\ genCount = 1
    /\ retired = {}
    /\ lock = "free"
    /\ admin = NoOp
    /\ shutdown = NotShutdown

-----------------------------------------------------------------------------
(* Helpers shared by callers, workers and administrators.                   *)

HasRoom(g) == Len(queue[g]) < BufferSize[g]

\* signalClosing is idempotent (sync.Once).
SignalClosing(g) == closing' = closing \cup {g}

\* WaitGroup.Wait on generation g returns when its counter is zero.
WorkersGone(g) == \A w \in Workers : worker[<<g, w>>].pc \in {"off", "exited"}

StartWorkers(g) ==
    worker' = [x \in WorkerIds |-> IF x[1] = g THEN Idle ELSE worker[x]]

\* Answer m with error kind k, or drop the answer when its caller is gone.
AnswerError(m, k) ==
    LET c == callOf[m] IN
    \/ /\ errCh[m] = NoAnswer
       /\ errCh' = [errCh EXCEPT ![m] = Answer(c, k)]
    \/ /\ c \in ctxDone
       /\ UNCHANGED errCh

\* One turn of a drain loop: pop the head of queue g and answer it.
DrainOne(g, k) ==
    /\ queue[g] # << >>
    /\ queue' = [queue EXCEPT ![g] = Tail(@)]
    /\ AnswerError(Head(queue[g]), k)
    /\ UNCHANGED <<pool, callOf, response>>

releaseChannelMessage(m) ==
    /\ pool' = pool \cup {m}
    /\ callOf' = [callOf EXCEPT ![m] = NoCall]
    /\ response' = [response EXCEPT ![m] = NoAnswer]
    /\ errCh' = [errCh EXCEPT ![m] = NoAnswer]

Return(c, r) ==
    /\ stage' = [stage EXCEPT ![c] = "returned"]
    /\ result' = [result EXCEPT ![c] = r]

-----------------------------------------------------------------------------
(* Callers: tryRequest and tryStreamRequest.                                *)

\* The context of a call is cancelled: client gone, deadline passed.
CtxCancel(c) ==
    /\ stage[c] # "returned"
    /\ c \notin ctxDone
    /\ ctxDone' = ctxDone \cup {c}
    /\ UNCHANGED <<stage, pq, msg, result, hooks, execs, late, msgVars, queueVars, adminVars>>

\* getProviderQueue finds the queue under the read lock.
CallGetQueue(c) ==
    /\ stage[c] = "idle"
    /\ lock = "free"
    /\ published # 0
    /\ pq' = [pq EXCEPT ![c] = published]
    /\ stage' = [stage EXCEPT ![c] = "hooks"]
    /\ UNCHANGED <<msg, ctxDone, result, hooks, execs, late, msgVars, queueVars, adminVars>>

\* getProviderQueue finds no queue and the account has no config for one.
CallNoProvider(c) ==
    /\ stage[c] = "idle"
    /\ lock = "free"
    /\ published = 0
    /\ FALSE \in AccountReads
    /\ Return(c, Answer(c, "noProvider"))
    /\ UNCHANGED <<pq, msg, ctxDone, hooks, execs, late, msgVars, queueVars, adminVars>>

\* prepareProvider stores the new queue before the provider exists.
PrepareStore(holder) ==
    /\ lock = "free"
    /\ published = 0
    /\ TRUE \in AccountReads
    /\ genCount < MaxGen
    /\ genCount' = genCount + 1
    /\ published' = genCount + 1
    /\ lock' = holder

\* getProviderQueue creates the queue lazily, under the write lock.
CallLazyCreate(c) ==
    /\ stage[c] = "idle"
    /\ PrepareStore("call")
    /\ stage' = [stage EXCEPT ![c] = "preparing"]
    /\ UNCHANGED <<pq, msg, ctxDone, result, hooks, execs, late, msgVars, queueVars,
                   retired, admin, shutdown>>

CallPrepared(c) ==
    /\ stage[c] = "preparing"
    /\ lock' = "free"
    /\ \/ /\ StartWorkers(published)
          /\ pq' = [pq EXCEPT ![c] = published]
          /\ stage' = [stage EXCEPT ![c] = "hooks"]
          /\ UNCHANGED result
       \/ /\ PrepareMayFail
          /\ Return(c, Answer(c, "noProvider"))
          /\ UNCHANGED <<pq, worker>>
    /\ UNCHANGED <<msg, ctxDone, hooks, execs, late, msgVars, queue, closing, swept,
                   published, genCount, retired, admin, shutdown>>

\* A plugin's pre-hook answers the call; post-hooks run, no message is taken.
CallShortCircuit(c) ==
    /\ stage[c] = "hooks"
    /\ Return(c, Answer(c, "shortCircuit"))
    /\ hooks' = [hooks EXCEPT ![c] = @ + 1]
    /\ UNCHANGED <<pq, msg, ctxDone, execs, late, msgVars, queueVars, adminVars>>

\* The pre-hooks leave no request: the call ends without its post-hooks.
CallNoRequest(c) ==
    /\ stage[c] = "hooks"
    /\ Return(c, Answer(c, "noRequest"))
    /\ UNCHANGED <<pq, msg, ctxDone, hooks, execs, late, msgVars, queueVars, adminVars>>

\* getChannelMessage: take a message from the pool, clear its channels.
getChannelMessage(c) ==
    /\ stage[c] = "hooks"
    /\ \E m \in pool :
        /\ pool' = pool \ {m}
        /\ callOf' = [callOf EXCEPT ![m] = c]
        /\ response' = [response EXCEPT ![m] = NoAnswer]
        /\ errCh' = [errCh EXCEPT ![m] = NoAnswer]
        /\ msg' = [msg EXCEPT ![c] = m]
    /\ stage' = [stage EXCEPT ![c] = "check"]
    /\ UNCHANGED <<pq, ctxDone, result, hooks, execs, late, queueVars, adminVars>>

\* isClosing.  When the queue is closing, the published one is loaded without the
\* provider lock; with none, or the same one, the call is refused.
CallCheck(c) ==
    /\ stage[c] = "check"
    /\ \/ /\ pq[c] \notin closing
          /\ stage' = [stage EXCEPT ![c] = "send"]
          /\ UNCHANGED <<pq, result, msgVars>>
       \/ /\ pq[c] \in closing
          /\ published \notin {0, pq[c]}
          /\ pq' = [pq EXCEPT ![c] = published]
          /\ stage' = [stage EXCEPT ![c] = "reroute"]
          /\ UNCHANGED <<result, msgVars>>
       \/ /\ pq[c] \in closing
          /\ published \in {0, pq[c]}
          /\ releaseChannelMessage(msg[c])
          /\ Return(c, Answer(c, "shuttingDown"))
          /\ UNCHANGED pq
    /\ UNCHANGED <<msg, ctxDone, hooks, execs, late, queueVars, adminVars>>

\* The candidate that was loaded may be closing in its turn when it is tested.
CallReroute(c) ==
    /\ stage[c] = "reroute"
    /\ \/ /\ pq[c] \notin closing
          /\ stage' = [stage EXCEPT ![c] = "send"]
          /\ UNCHANGED <<result, msgVars>>
       \/ /\ pq[c] \in closing
          /\ releaseChannelMessage(msg[c])
          /\ Return(c, Answer(c, "shuttingDown"))
    /\ UNCHANGED <<pq, msg, ctxDone, hooks, execs, late, queueVars, adminVars>>

\* case pq.queue <- msg, in either select.
CallSend(c) ==
    /\ stage[c] \in {"send", "blocked"}
    /\ HasRoom(pq[c])
    /\ queue' = [queue EXCEPT ![pq[c]] = Append(@, msg[c])]
    /\ late' = IF pq[c] \in swept THEN late \cup {c} ELSE late
    /\ stage' = [stage EXCEPT ![c] = "wait"]
    /\ UNCHANGED <<pq, msg, ctxDone, result, hooks, execs, msgVars, closing, swept,
                   worker, adminVars>>

\* case <-pq.done and case <-ctx.Done(), in either select.
CallGiveUp(c) ==
    /\ stage[c] \in {"send", "blocked"}
    /\ \/ pq[c] \in closing /\ Return(c, Answer(c, "shuttingDown"))
       \/ c \in ctxDone /\ Return(c, Answer(c, "cancelled"))
    /\ releaseChannelMessage(msg[c])
    /\ UNCHANGED <<pq, msg, ctxDone, hooks, execs, late, queueVars, adminVars>>

\* default: no case of the first select is ready.
CallQueueFull(c) ==
    /\ stage[c] = "send"
    /\ ~HasRoom(pq[c])
    /\ pq[c] \notin closing
    /\ c \notin ctxDone
    /\ \E drop \in DropModes :
        \/ /\ drop
           /\ releaseChannelMessage(msg[c])
           /\ Return(c, Answer(c, "dropped"))
        \/ /\ ~drop
           /\ stage' = [stage EXCEPT ![c] = "blocked"]
           /\ UNCHANGED <<result, msgVars>>
    /\ UNCHANGED <<pq, msg, ctxDone, hooks, execs, late, queueVars, adminVars>>

\* The answer arrives: post-hooks run here, except for an opened stream,
\* whose provider goroutine runs them chunk by chunk.
CallReceive(c) ==
    LET m == msg[c] IN
    /\ stage[c] = "wait"
    /\ \/ /\ response[m] # NoAnswer
          /\ Return(c, response[m])
          /\ hooks' = IF c \in Streams THEN hooks ELSE [hooks EXCEPT ![c] = @ + 1]
       \/ /\ errCh[m] # NoAnswer
          /\ Return(c, errCh[m])
          /\ hooks' = [hooks EXCEPT ![c] = @ + 1]
    /\ releaseChannelMessage(m)
    /\ UNCHANGED <<pq, msg, ctxDone, execs, late, queueVars, adminVars>>

\* Mutants: the message goes back to the pool on cancellation; only
\* tryStreamRequest watches its context.
CallAbandon_Releases(c) ==
    /\ stage[c] = "wait"
    /\ c \in ctxDone
    /\ releaseChannelMessage(msg[c])
    /\ Return(c, Answer(c, "cancelled"))
    /\ UNCHANGED <<pq, msg, ctxDone, hooks, execs, late, queueVars, adminVars>>

CallAbandon_StreamsOnly(c) ==
    /\ stage[c] = "wait"
    /\ c \in ctxDone \cap Streams
    /\ Return(c, Answer(c, "cancelled"))
    /\ UNCHANGED <<pq, msg, ctxDone, hooks, execs, late, msgVars, queueVars, adminVars>>

\* case <-ctx.Done(): the message is NOT released; it leaks from the pool.
CallAbandon(c) ==
    /\ stage[c] = "wait"
    /\ c \in ctxDone
    /\ Return(c, Answer(c, "cancelled"))
    /\ UNCHANGED <<pq, msg, ctxDone, hooks, execs, late, msgVars, queueVars, adminVars>>

-----------------------------------------------------------------------------
(* Workers: requestWorker.                                                  *)

WorkerReceive(x) ==
    LET g == x[1] IN
    /\ worker[x].pc = "idle"
    /\ queue[g] # << >>
    /\ worker' = [worker EXCEPT ![x] = Busy(Head(queue[g]))]
    /\ queue' = [queue EXCEPT ![g] = Tail(@)]
    /\ UNCHANGED <<callVars, msgVars, closing, swept, adminVars>>

\* Mutant: the "continue" after a key error is missing.
WorkerKeyError_NoContinue(x) ==
    LET m == worker[x].msg IN
    /\ worker[x].pc = "busy"
    /\ errCh[m] = NoAnswer
    /\ errCh' = [errCh EXCEPT ![m] = Answer(callOf[m], "keyError")]
    /\ UNCHANGED <<callVars, pool, callOf, response, queueVars, adminVars>>

\* The key pool cannot be built: an error is sent with no select around it.
WorkerKeyError(x) ==
    LET m == worker[x].msg IN
    /\ worker[x].pc = "busy"
    /\ errCh[m] = NoAnswer
    /\ errCh' = [errCh EXCEPT ![m] = Answer(callOf[m], "keyError")]
    /\ worker' = [worker EXCEPT ![x] = Idle]
    /\ UNCHANGED <<callVars, pool, callOf, response, queue, closing, swept, adminVars>>

\* executeRequestWithRetries: the provider ends with a result or an error.
WorkerExecute(x) ==
    LET m == worker[x].msg
        c == callOf[m] IN
    /\ worker[x].pc = "busy"
    /\ execs' = [execs EXCEPT ![c] = @ + 1]
    /\ \E k \in {"response", "providerError"} :
         worker' = [worker EXCEPT ![x] = Deliver(m, Answer(c, k))]
    /\ UNCHANGED <<stage, pq, msg, ctxDone, result, hooks, late, msgVars, queue, closing,
                   swept, adminVars>>

\* Mutant: the worker bills for a cancelled caller even when the send succeeded.
WorkerDeliver_BillsAlways(x) ==
    LET m == worker[x].msg
        a == worker[x].out IN
    /\ worker[x].pc = "deliver"
    /\ IF a.kind = "response"
         THEN response' = [response EXCEPT ![m] = a] /\ UNCHANGED errCh
         ELSE errCh' = [errCh EXCEPT ![m] = a] /\ UNCHANGED response
    /\ hooks' = IF callOf[m] \in ctxDone \ Streams
                  THEN [hooks EXCEPT ![callOf[m]] = @ + 1] ELSE hooks
    /\ worker' = [worker EXCEPT ![x] = Idle]
    /\ UNCHANGED <<stage, pq, msg, ctxDone, result, execs, late, pool, callOf, queue,
                   closing, swept, adminVars>>

\* The select that sends the outcome.  Its third case, the 5 second timeout,
\* needs a full channel and a live context, which AnswersNeverBlock excludes.
WorkerDeliver(x) ==
    LET m == worker[x].msg
        a == worker[x].out IN
    /\ worker[x].pc = "deliver"
    /\ \/ /\ a.kind = "response"
          /\ response[m] = NoAnswer
          /\ response' = [response EXCEPT ![m] = a]
          /\ UNCHANGED <<errCh, hooks>>
       \/ /\ a.kind # "response"
          /\ errCh[m] = NoAnswer
          /\ errCh' = [errCh EXCEPT ![m] = a]
          /\ UNCHANGED <<response, hooks>>
       \/ /\ callOf[m] \in ctxDone
          /\ hooks' = IF callOf[m] \in Streams      \* billAbandonedTerminal
                        THEN hooks ELSE [hooks EXCEPT ![callOf[m]] = @ + 1]
          /\ UNCHANGED <<response, errCh>>
    /\ worker' = [worker EXCEPT ![x] = Idle]
    /\ UNCHANGED <<stage, pq, msg, ctxDone, result, execs, late, pool, callOf, queue,
                   closing, swept, adminVars>>

WorkerSeeDone(x) ==
    /\ worker[x].pc = "idle"
    /\ x[1] \in closing
    /\ worker' = [worker EXCEPT ![x] = Drain]
    /\ UNCHANGED <<callVars, msgVars, queue, closing, swept, adminVars>>

WorkerDrain(x) ==
    /\ worker[x].pc = "drain"
    /\ \/ /\ DrainOne(x[1], "closed")
          /\ UNCHANGED worker
       \/ /\ queue[x[1]] = << >>
          /\ worker' = [worker EXCEPT ![x] = Exited]
          /\ UNCHANGED <<queue, msgVars>>
    /\ UNCHANGED <<callVars, closing, swept, adminVars>>

-----------------------------------------------------------------------------
(* UpdateProvider.                                                          *)

\* The read side of providerLifecycleMu and the ctx.Err() test.
LifecycleOpen == shutdown.pc = "none"

\* No queue yet: prepareProvider, as in lazy creation.
UpdatePrepare ==
    /\ "update" \in AdminOps
    /\ LifecycleOpen
    /\ PrepareStore("admin")
    /\ admin' = [NoOp EXCEPT !.pc = "preparing"]
    /\ UNCHANGED <<callVars, msgVars, queueVars, retired, shutdown>>

UpdatePrepared ==
    /\ admin.pc = "preparing"
    /\ StartWorkers(published) \/ (PrepareMayFail /\ UNCHANGED worker)
    /\ lock' = "free"
    /\ admin' = NoOp
    /\ UNCHANGED <<callVars, msgVars, queue, closing, swept, published, genCount,
                   retired, shutdown>>

\* Steps 1 to 4: publish the new queue and start its workers.
UpdateBegin ==
    /\ "update" \in AdminOps
    /\ LifecycleOpen
    /\ lock = "free"
    /\ published # 0
    /\ TRUE \in AccountReads
    /\ genCount < MaxGen
    /\ lock' = "admin"
    /\ genCount' = genCount + 1
    /\ published' = genCount + 1
    /\ StartWorkers(genCount + 1)
    /\ admin' = [pc |-> "transfer", old |-> published, carry |-> NoMsg]
    /\ UNCHANGED <<callVars, msgVars, queue, closing, swept, retired, shutdown>>

\* Step 5: take the next buffered message of the old queue ...
UpdateTake ==
    /\ admin.pc = "transfer"
    /\ admin.carry = NoMsg
    /\ queue[admin.old] # << >>
    /\ admin' = [admin EXCEPT !.carry = Head(queue[admin.old])]
    /\ queue' = [queue EXCEPT ![admin.old] = Tail(@)]
    /\ UNCHANGED <<callVars, msgVars, closing, swept, worker, published, genCount,
                   retired, lock, shutdown>>

\* Mutant: the carried message is dropped when the new queue is full.
UpdatePut_Drops ==
    /\ admin.pc = "transfer"
    /\ admin.carry # NoMsg
    /\ \/ /\ HasRoom(published)
          /\ queue' = [queue EXCEPT ![published] = Append(@, admin.carry)]
          /\ admin' = [admin EXCEPT !.carry = NoMsg]
       \/ /\ ~HasRoom(published)
          /\ admin' = [admin EXCEPT !.pc = "cancelRest", !.carry = NoMsg]
          /\ UNCHANGED queue
    /\ UNCHANGED <<callVars, msgVars, closing, swept, worker, published, genCount, retired,
                   lock, shutdown>>

\* ... and put it in the new one, or cancel it and all the rest when that is full.
UpdatePut ==
    /\ admin.pc = "transfer"
    /\ admin.carry # NoMsg
    /\ \/ /\ HasRoom(published)
          /\ queue' = [queue EXCEPT ![published] = Append(@, admin.carry)]
          /\ admin' = [admin EXCEPT !.carry = NoMsg]
          /\ UNCHANGED msgVars
       \/ /\ ~HasRoom(published)
          /\ AnswerError(admin.carry, "transferFull")
          /\ admin' = [admin EXCEPT !.pc = "cancelRest", !.carry = NoMsg]
          /\ UNCHANGED <<queue, pool, callOf, response>>
    /\ UNCHANGED <<callVars, closing, swept, worker, published, genCount, retired, lock,
                   shutdown>>

UpdateCancelRest ==
    /\ admin.pc = "cancelRest"
    /\ DrainOne(admin.old, "transferFull")
    /\ UNCHANGED <<callVars, closing, swept, worker, adminVars>>

\* The old queue is seen empty; stale producers may still refill it.
UpdateTransferred ==
    /\ admin.pc \in {"transfer", "cancelRest"}
    /\ admin.carry = NoMsg
    /\ queue[admin.old] = << >>
    /\ admin' = [admin EXCEPT !.pc = "retire"]
    /\ UNCHANGED <<callVars, msgVars, queueVars, published, genCount, retired, lock,
                   shutdown>>

\* Steps 6 to 8: register the cleanup, close the old queue, unlock.
UpdateRetire ==
    /\ admin.pc = "retire"
    /\ retired' = retired \cup {admin.old}
    /\ SignalClosing(admin.old)
    /\ lock' = "free"
    /\ admin' = NoOp
    /\ UNCHANGED <<callVars, msgVars, queue, swept, worker, published, genCount, shutdown>>

\* Mutants: no sweep once the old workers have exited; no Done after it.
Cleanup_NoSweep(g) ==
    /\ g \in retired
    /\ WorkersGone(g)
    /\ swept' = swept \cup {g}
    /\ retired' = retired \ {g}
    /\ UNCHANGED <<callVars, msgVars, queue, closing, worker, published, genCount, lock,
                   admin, shutdown>>

Cleanup_NoDone(g) ==
    /\ g \in retired
    /\ WorkersGone(g)
    /\ \/ DrainOne(g, "closed") /\ UNCHANGED swept
       \/ queue[g] = << >> /\ swept' = swept \cup {g} /\ UNCHANGED <<queue, msgVars>>
    /\ UNCHANGED <<callVars, closing, worker, adminVars>>

\* The cleanup goroutine of step 8: wait for the old workers, sweep, Done.
Cleanup(g) ==
    /\ g \in retired
    /\ WorkersGone(g)
    /\ \/ /\ DrainOne(g, "closed")
          /\ UNCHANGED <<retired, swept>>
       \/ /\ queue[g] = << >>
          /\ swept' = swept \cup {g}
          /\ retired' = retired \ {g}
          /\ UNCHANGED <<queue, msgVars>>
    /\ UNCHANGED <<callVars, closing, worker, published, genCount, lock, admin, shutdown>>

-----------------------------------------------------------------------------
(* RemoveProvider.                                                          *)

\* Mutant: the workers are not told to stop.
RemoveBegin_NoSignal ==
    /\ "remove" \in AdminOps
    /\ lock = "free"
    /\ published # 0
    /\ lock' = "admin"
    /\ admin' = [pc |-> "removeWait", old |-> published, carry |-> NoMsg]
    /\ UNCHANGED <<callVars, msgVars, queueVars, published, genCount, retired, shutdown>>

RemoveBegin ==
    /\ "remove" \in AdminOps
    /\ lock = "free"
    /\ published # 0
    /\ lock' = "admin"
    /\ SignalClosing(published)
    /\ admin' = [pc |-> "removeWait", old |-> published, carry |-> NoMsg]
    /\ UNCHANGED <<callVars, msgVars, queue, swept, worker, published, genCount, retired,
                   shutdown>>

\* Step 3b, once step 3's wait is over.
RemoveSweep ==
    /\ admin.pc = "removeWait"
    /\ WorkersGone(admin.old)
    /\ \/ /\ DrainOne(admin.old, "closed")
          /\ UNCHANGED <<admin, swept>>
       \/ /\ queue[admin.old] = << >>
          /\ swept' = swept \cup {admin.old}
          /\ admin' = [admin EXCEPT !.pc = "removeRetired"]
          /\ UNCHANGED <<queue, msgVars>>
    /\ UNCHANGED <<callVars, closing, worker, published, genCount, retired, lock, shutdown>>

\* Mutant: the retired generations are forgotten.
RemoveFinish_NoRetiredWait ==
    /\ admin.pc = "removeRetired"
    /\ published' = 0
    /\ lock' = "free"
    /\ admin' = NoOp
    /\ UNCHANGED <<callVars, msgVars, queueVars, genCount, retired, shutdown>>

\* Step 3c waits for the retired generations; steps 4 to 6 forget the provider.
RemoveFinish ==
    /\ admin.pc = "removeRetired"
    /\ retired = {}
    /\ published' = 0
    /\ lock' = "free"
    /\ admin' = NoOp
    /\ UNCHANGED <<callVars, msgVars, queueVars, genCount, retired, shutdown>>

-----------------------------------------------------------------------------
(* Shutdown.  It takes providerLifecycleMu, which excludes UpdateProvider,  *)
(* but no provider lock: it runs beside RemoveProvider and lazy creation.   *)

ShutdownBegin ==
    /\ "shutdown" \in AdminOps
    /\ shutdown.pc = "none"
    /\ admin.pc \notin {"preparing", "transfer", "cancelRest", "retire"}
    /\ closing' = IF published = 0 THEN closing ELSE closing \cup {published}
    /\ shutdown' = [pc |-> "range", gen |-> 0]
    /\ UNCHANGED <<callVars, msgVars, queue, swept, worker, published, genCount, retired,
                   lock, admin>>

\* waitGroups.Range loads the wait group published at that moment ...
ShutdownRange ==
    /\ shutdown.pc = "range"
    /\ shutdown' = [pc |-> "wait", gen |-> published]
    /\ UNCHANGED <<callVars, msgVars, queueVars, published, genCount, retired, lock, admin>>

\* ... and waits for it,
ShutdownWait ==
    /\ shutdown.pc = "wait"
    /\ shutdown.gen # 0 => WorkersGone(shutdown.gen)
    /\ shutdown' = [shutdown EXCEPT !.pc = "waitOld"]
    /\ UNCHANGED <<callVars, msgVars, queueVars, published, genCount, retired, lock, admin>>

\* Mutant: the old-worker cleanups are not waited for.
ShutdownWaitOld_NoWait ==
    /\ shutdown.pc = "waitOld"
    /\ shutdown' = [pc |-> "sweep", gen |-> published]
    /\ UNCHANGED <<callVars, msgVars, queueVars, published, genCount, retired, lock, admin>>

\* then for the old-worker cleanups.
ShutdownWaitOld ==
    /\ shutdown.pc = "waitOld"
    /\ retired = {}
    /\ shutdown' = [pc |-> "sweep", gen |-> published]
    /\ UNCHANGED <<callVars, msgVars, queueVars, published, genCount, retired, lock, admin>>

ShutdownSweep ==
    /\ shutdown.pc = "sweep"
    /\ \/ /\ shutdown.gen # 0
          /\ DrainOne(shutdown.gen, "closed")
          /\ UNCHANGED <<shutdown, swept>>
       \/ /\ shutdown.gen # 0
          /\ queue[shutdown.gen] = << >>
          /\ swept' = swept \cup {shutdown.gen}
          /\ shutdown' = [shutdown EXCEPT !.pc = "done"]
          /\ UNCHANGED <<queue, msgVars>>
       \/ /\ shutdown.gen = 0
          /\ shutdown' = [shutdown EXCEPT !.pc = "done"]
          /\ UNCHANGED <<queue, swept, msgVars>>
    /\ UNCHANGED <<callVars, closing, worker, published, genCount, retired, lock, admin>>

-----------------------------------------------------------------------------
\* Steps of a call that has begun; starting one is the client's choice.
CallStep(c) ==
    \/ CallPrepared(c) \/ CallShortCircuit(c) \/ CallNoRequest(c) \/ getChannelMessage(c)
    \/ CallCheck(c) \/ CallReroute(c)
    \/ CallSend(c) \/ CallGiveUp(c) \/ CallQueueFull(c) \/ CallReceive(c) \/ CallAbandon(c)

CallStart(c) == CallGetQueue(c) \/ CallNoProvider(c) \/ CallLazyCreate(c)

WorkerStep(x) ==
    \/ WorkerReceive(x) \/ WorkerKeyError(x) \/ WorkerExecute(x) \/ WorkerDeliver(x)
    \/ WorkerSeeDone(x) \/ WorkerDrain(x)

\* Steps of an UpdateProvider or RemoveProvider that has begun.
AdminStep ==
    \/ UpdatePrepared \/ UpdateTake \/ UpdatePut \/ UpdateCancelRest
    \/ UpdateTransferred \/ UpdateRetire \/ RemoveSweep \/ RemoveFinish

AdminStart == UpdatePrepare \/ UpdateBegin \/ RemoveBegin

ShutdownStep ==
    ShutdownRange \/ ShutdownWait \/ ShutdownWaitOld \/ ShutdownSweep

Next ==
    \/ \E c \in Calls : CtxCancel(c) \/ CallStart(c) \/ CallStep(c)
    \/ \E x \in WorkerIds : WorkerStep(x)
    \/ \E g \in Gens : Cleanup(g)
    \/ AdminStart \/ AdminStep
    \/ ShutdownBegin \/ ShutdownStep

Spec == Init /\ [][Next]_vars

\* Goroutines that can run do run.  Nothing is assumed of clients (no call
\* need start, no context need be cancelled) nor of administrators.  That a
\* worker's provider call ends is the network timeout of its HTTP client.
Fairness ==
    /\ \A c \in Calls : WF_vars(CallStep(c))
    /\ \A x \in WorkerIds : WF_vars(WorkerStep(x))
    /\ \A g \in Gens : WF_vars(Cleanup(g))
    /\ WF_vars(AdminStep)
    /\ WF_vars(ShutdownStep)

FairSpec == Spec /\ Fairness

-----------------------------------------------------------------------------
(* Properties.                                                              *)

WorkerStates ==
    {Off, Idle, Drain, Exited}
      \cup {Busy(m) : m \in Msgs}
      \cup {Deliver(m, a) : m \in Msgs, a \in Answers}

\* Type invariant: every variable of the request path keeps its type.
TypeOK ==
    /\ stage \in [Calls -> Stages]
    /\ pq \in [Calls -> 0..MaxGen]
    /\ msg \in [Calls -> Msgs \cup {NoMsg}]
    /\ ctxDone \subseteq Calls
    /\ result \in [Calls -> Results \cup {NoAnswer}]
    /\ hooks \in [Calls -> Nat]
    /\ execs \in [Calls -> Nat]
    /\ late \subseteq Calls
    /\ pool \subseteq Msgs
    /\ callOf \in [Msgs -> Calls \cup {NoCall}]
    /\ response \in [Msgs -> Answers \cup {NoAnswer}]
    /\ errCh \in [Msgs -> Answers \cup {NoAnswer}]
    /\ queue \in [Gens -> Seq(Msgs)]
    /\ closing \subseteq Gens
    /\ swept \subseteq Gens
    /\ worker \in [WorkerIds -> WorkerStates]
    /\ published \in 0..MaxGen
    /\ genCount \in Gens
    /\ retired \subseteq Gens
    /\ lock \in {"free", "call", "admin"}
    /\ admin \in [pc : {"none", "preparing", "transfer", "cancelRest", "retire",
                        "removeWait", "removeRetired"},
                  old : 0..MaxGen, carry : Msgs \cup {NoMsg}]
    /\ shutdown \in [pc : {"none", "range", "wait", "waitOld", "sweep", "done"},
                     gen : 0..MaxGen]

\* The messages some goroutine will still touch: buffered in a queue, held by a
\* worker, or carried by UpdateProvider; and those whose outcome is known.
Positions(g) == 1..Len(queue[g])
Flight ==
    {m \in Msgs : \/ \E g \in Gens : \E i \in Positions(g) : queue[g][i] = m
                  \/ \E x \in WorkerIds : worker[x].msg = m
                  \/ admin.carry = m}
Delivering ==
    {m \in Msgs : \E x \in WorkerIds : worker[x].pc = "deliver" /\ worker[x].msg = m}

\* A message in flight is never back in the pool, so its channels are never
\* handed to another request: tryRequest leaks it on cancellation instead of
\* releasing it, and otherwise releases it only after the answer was taken.
NoUseAfterRelease == \A m \in Flight : m \notin pool /\ callOf[m] # NoCall

\* Transfer, drains and workers never duplicate a message: it is at one position
\* of one queue, or with one worker, or carried by UpdateProvider.
SingleHolder ==
    /\ \A g, h \in Gens : \A i \in Positions(g), j \in Positions(h) :
          queue[g][i] = queue[h][j] => g = h /\ i = j
    /\ \A g \in Gens : \A i \in Positions(g) :
          queue[g][i] # admin.carry /\ \A x \in WorkerIds : queue[g][i] # worker[x].msg
    /\ \A x, y \in WorkerIds :
          worker[x].msg = worker[y].msg /\ worker[x].msg # NoMsg => x = y
    /\ \A x \in WorkerIds : worker[x].msg = admin.carry => admin.carry = NoMsg

\* The channels of a message that is still to be answered are empty, so none of
\* the sends blocks: neither the worker's sends without a select around them, nor
\* the drain loops that rely on "the send always completes immediately", and the
\* worker's 5 second timeout is never needed.
AnswersNeverBlock ==
    \A m \in Flight : response[m] = NoAnswer /\ errCh[m] = NoAnswer

\* A call returns only its own answer, however messages are pooled, reused,
\* transferred and abandoned.
NoCrossTalk == \A c \in Calls : result[c] # NoAnswer => result[c].call = c

\* Post-hooks (billing, logging) run at most once per call, although both
\* tryRequest and the worker's billAbandonedTerminal may run them.
HooksAtMostOnce == \A c \in Calls : hooks[c] <= 1

\* When RemoveProvider has returned and nothing was created since, no worker of
\* any generation of the provider is left, those retired by earlier updates
\* included.
RemoveWaitsForAll ==
    published = 0 /\ lock = "free" => \A g \in Gens : WorkersGone(g)

\* When Shutdown has returned, replaced and removed generations have no workers:
\* if any is left it is of a queue created lazily beside Shutdown, and published.
ShutdownWaitsForOld ==
    shutdown.pc = "done" => \A g \in Gens : g # published => WorkersGone(g)

\* The final sweep covers every message but those deposited after it: in a swept
\* queue whose workers are gone only calls that sent after the sweep are left.
OnlyLateCallsStranded ==
    \A g \in swept : WorkersGone(g) =>
      \A i \in 1..Len(queue[g]) : callOf[queue[g][i]] \in late

\* No message is lost between queues, workers and drain loops: a call that waits
\* and is not cancelled has a message somebody will still answer, or its answer.
WaitingCallIsTracked ==
    \A c \in Calls : stage[c] = "wait" /\ c \notin ctxDone =>
      msg[c] \in Flight \/ response[msg[c]] # NoAnswer \/ errCh[msg[c]] # NoAnswer

\* A provider outcome is billed: once the call has returned and its message is
\* in nobody's hands, post-hooks have run.
OutcomeIsBilled ==
    \A c \in Calls \ Streams :
      execs[c] > 0 /\ stage[c] = "returned" /\ msg[c] \notin Flight => hooks[c] = 1

\* A cancelled call returns, wherever it is in tryRequest.
CancelledCallReturns ==
    \A c \in Calls : c \in ctxDone /\ stage[c] # "idle" ~> stage[c] = "returned"

\* A call that handed over its message is answered without any cancellation,
\* through updates, removals and shutdown, unless it is one of the late calls the
\* final sweep cannot see.
EnqueuedCallIsAnswered ==
    \A c \in Calls : stage[c] = "wait" ~> stage[c] = "returned" \/ c \in late

\* RemoveProvider and UpdateProvider give the provider lock back.
AdminTerminates == admin.pc # "none" ~> admin.pc = "none"

\* Shutdown returns, unless it waits for a queue that was created lazily after it
\* had signalled the others, and that nobody will close.
ShutdownTerminates ==
    shutdown.pc # "none" ~> \/ shutdown.pc = "done"
                            \/ shutdown.gen # 0 /\ shutdown.gen \notin closing

-----------------------------------------------------------------------------
(* The contract the request path implements.                                *)

ProviderOutcomes == {"response", "providerError"}

OutcomeOf(r) ==
    CASE r = NoAnswer -> "open"
      [] r.kind \in ProviderOutcomes -> "provider"
      [] r.kind = "cancelled" -> "cancelled"
      [] OTHER -> "refused"

Contract == INSTANCE CallContract WITH
    outcome <- [c \in Calls |-> OutcomeOf(result[c])],
    execs <- execs

\* The request path implements CallContract: one provider execution at most, and
\* none, before or after, for a call that was refused by a drain loop, a full
\* queue, a failed transfer or a closing provider.
ContractSpec == Contract!Spec

-----------------------------------------------------------------------------
(* The inductive invariant behind the safety properties.                    *)

Holding == {"check", "reroute", "send", "blocked", "wait"}

\* A pooled message is blank; any other belongs to the call that took it.
PoolInv ==
    \A m \in Msgs :
      IF m \in pool
        THEN callOf[m] = NoCall /\ response[m] = NoAnswer /\ errCh[m] = NoAnswer
        ELSE /\ callOf[m] \in Calls
             /\ msg[callOf[m]] = m
             /\ stage[callOf[m]] \in Holding \cup {"returned"}

\* A call owns its message and holds a queue from the moment it takes them, and
\* has no outcome before it returns.
CallInv ==
    \A c \in Calls :
      /\ stage[c] \in Holding => msg[c] \in Msgs /\ callOf[msg[c]] = c /\ msg[c] \notin pool
      /\ stage[c] \in Holding \cup {"hooks"} => pq[c] \in Gens
      /\ stage[c] # "returned" => result[c] = NoAnswer
      /\ stage[c] \notin {"wait", "returned"} => execs[c] = 0 /\ hooks[c] = 0
      /\ stage[c] = "returned" => result[c] # NoAnswer /\ result[c].call = c
      /\ hooks[c] <= 1
      /\ execs[c] <= 1
      /\ result[c].kind \in ProviderOutcomes => execs[c] = 1
      /\ result[c].kind \notin ProviderOutcomes \cup {"none", "cancelled"} => execs[c] = 0

\* Only waiting calls, and calls that gave up waiting, have messages in flight,
\* and those are unanswered and unbilled.
FlightInv ==
    \A m \in Flight :
      LET c == callOf[m] IN
      /\ m \notin pool
      /\ response[m] = NoAnswer
      /\ errCh[m] = NoAnswer
      /\ hooks[c] = 0
      /\ \/ stage[c] = "wait"
         \/ stage[c] = "returned" /\ result[c].kind = "cancelled"

\* The provider has run for the messages in "deliver" and for no other in flight.
ExecInv ==
    \A m \in Flight : execs[callOf[m]] = IF m \in Delivering THEN 1 ELSE 0

DeliverInv ==
    \A x \in WorkerIds : worker[x].pc = "deliver" =>
      worker[x].out.call = callOf[worker[x].msg] /\ worker[x].out.kind \in ProviderOutcomes

\* What a channel holds was written for the call that owns the message.
ChannelInv ==
    \A m \in Msgs :
      /\ response[m] # NoAnswer =>
            /\ response[m] = Answer(callOf[m], "response")
            /\ errCh[m] = NoAnswer
            /\ execs[callOf[m]] = 1
      /\ errCh[m] # NoAnswer =>
            /\ errCh[m].call = callOf[m]
            /\ errCh[m].kind # "response"
            /\ execs[callOf[m]] = IF errCh[m].kind = "providerError" THEN 1 ELSE 0
      /\ response[m] # NoAnswer \/ errCh[m] # NoAnswer => hooks[callOf[m]] = 0
      /\ response[m] # NoAnswer \/ errCh[m] # NoAnswer =>
            \/ stage[callOf[m]] = "wait"
            \/ stage[callOf[m]] = "returned" /\ result[callOf[m]].kind = "cancelled"

\* Whoever holds the provider lock finds the published queue as it left it.
Replacing == admin.pc \in {"transfer", "cancelRest", "retire"}
LockInv ==
    /\ \A c \in Calls : stage[c] = "preparing" => lock = "call"
    /\ \A c, d \in Calls : stage[c] = "preparing" /\ stage[d] = "preparing" => c = d
    /\ admin.pc # "none" => lock = "admin" /\ published # 0
    /\ lock = "call" \/ admin.pc = "preparing" =>
          published # 0 /\ \A w \in Workers : worker[<<published, w>>] = Off
    /\ Replacing => admin.old \in Gens /\ admin.old # published
    /\ admin.pc \in {"removeWait", "removeRetired"} => admin.old = published
    /\ admin.pc = "removeRetired" => WorkersGone(published)
    /\ admin.pc # "transfer" => admin.carry = NoMsg

\* Every generation but the published one has no workers left, or someone who
\* still has to wait for them.
GenInv ==
    /\ published <= genCount
    /\ \A x \in WorkerIds : x[1] > genCount => worker[x] = Off
    /\ \A g \in 1..genCount : g # published =>
          WorkersGone(g) \/ g \in retired \/ (Replacing /\ g = admin.old)
    /\ published = 0 => retired = {}

\* The inductive invariant of the request path.
Inv ==
    /\ TypeOK
    /\ SingleHolder
    /\ PoolInv
    /\ CallInv
    /\ FlightInv
    /\ ExecInv
    /\ DeliverInv
    /\ ChannelInv
    /\ LockInv
    /\ GenInv

=============================================================================
