--------------------------- MODULE HandoverProofs ---------------------------
(***************************************************************************)
(* Proofs about how ProviderQueue hands messages and generations over: no  *)
(* message of a waiting call is lost, and the final sweeps of Cleanup,     *)
(* RemoveProvider and Shutdown see all that was sent before them.  They    *)
(* rest on the invariant Inv, proved in ProviderQueueProofs, and on the    *)
(* invariant HandoverInv of the administrators' bookkeeping below.         *)
(***************************************************************************)
EXTENDS ProviderQueueProofs

\* What UpdateProvider does under the lifecycle lock that Shutdown takes.
Updating == {"preparing", "transfer", "cancelRest", "retire"}

\* UpdateProvider and Shutdown exclude each other, so no generation is retired
\* once Shutdown has waited for the retired ones.
ExclusionInv ==
    /\ shutdown.pc # "none" => admin.pc \notin Updating
    /\ shutdown.pc \in {"sweep", "done"} => retired = {}

\* Retired, replaced and swept generations have been created, the retired ones are
\* not published, and UpdateProvider refills no generation that was swept.
BookInv ==
    /\ \A g \in retired : g <= genCount /\ g # published
    /\ \A g \in swept : g <= genCount
    /\ shutdown.gen <= genCount
    /\ Replacing => admin.old <= genCount
    /\ admin.pc = "transfer" => published \notin swept

\* The inductive invariant of the hand-overs.
HandoverInv ==
    /\ ExclusionInv
    /\ BookInv
    /\ WaitingCallIsTracked
    /\ OnlyLateCallsStranded

-----------------------------------------------------------------------------
(* What a step has to respect.                                              *)

\* The administrators' books are kept by steps that do not write them.
LEMMA BookFrame ==
  ASSUME ExclusionInv, BookInv, UNCHANGED <<swept, adminVars>>
  PROVE  ExclusionInv' /\ BookInv'
  BY DEF ExclusionInv, BookInv, Replacing, adminVars

\* Nobody begins to wait, no message leaves its holder unanswered.
LEMMA TrackedFrame ==
  ASSUME WaitingCallIsTracked, Flight \subseteq Flight', ctxDone \subseteq ctxDone',
         UNCHANGED <<msg, response, errCh>>,
         \A d \in Calls : stage'[d] = "wait" => stage[d] = "wait"
  PROVE  WaitingCallIsTracked'
  BY DEF WaitingCallIsTracked

\* A call returns and gives its message back: it is nobody else's.
LEMMA TrackedRelease ==
  ASSUME Inv, WaitingCallIsTracked, NEW c \in Calls, stage[c] \in Holding,
         stage' = [stage EXCEPT ![c] = "returned"], releaseChannelMessage(msg[c]),
         Flight' = Flight, UNCHANGED <<msg, ctxDone>>
  PROVE  WaitingCallIsTracked'
<1> SUFFICES ASSUME NEW d \in Calls, stage'[d] = "wait", d \notin ctxDone
             PROVE  msg[d] \in Flight \/ response'[msg[d]] # NoAnswer \/ errCh'[msg[d]] # NoAnswer
  BY DEF WaitingCallIsTracked
<1>1. d # c /\ stage[d] = "wait"
  BY DEF Inv, TypeOK
<1>2. msg[c] \in Msgs /\ msg[d] \in Msgs /\ msg[d] # msg[c]
  BY <1>1 DEF Inv, CallInv, Holding
<1>3. response'[msg[d]] = response[msg[d]] /\ errCh'[msg[d]] = errCh[msg[d]]
  BY <1>2 DEF Inv, TypeOK, releaseChannelMessage
<1> QED
  BY <1>1, <1>3 DEF WaitingCallIsTracked

\* A message leaves its holder answered, or its caller gone.
LEMMA TrackedAnswer ==
  ASSUME Inv, WaitingCallIsTracked, NEW m \in Flight, Flight' = Flight \ {m},
         UNCHANGED <<stage, msg, ctxDone>>,
         \A n \in Msgs : n # m => response'[n] = response[n] /\ errCh'[n] = errCh[n],
         \/ response'[m] # NoAnswer \/ errCh'[m] # NoAnswer
         \/ callOf[m] \in ctxDone
  PROVE  WaitingCallIsTracked'
<1> SUFFICES ASSUME NEW d \in Calls, stage[d] = "wait", d \notin ctxDone
             PROVE  msg[d] \in Flight' \/ response'[msg[d]] # NoAnswer \/ errCh'[msg[d]] # NoAnswer
  BY DEF WaitingCallIsTracked
<1>1. msg[d] \in Msgs /\ callOf[msg[d]] = d
  BY DEF Inv, CallInv, Holding
<1>2. CASE msg[d] = m
  BY <1>1, <1>2
<1>3. CASE msg[d] # m
  BY <1>1, <1>3 DEF WaitingCallIsTracked
<1> QED
  BY <1>2, <1>3

\* AnswerError leaves the message answered, or its caller is gone.
LEMMA TrackedAnswerError ==
  ASSUME Inv, WaitingCallIsTracked, NEW m \in Flight, Flight' = Flight \ {m},
         NEW k \in AnswerKinds, AnswerError(m, k), UNCHANGED <<stage, msg, ctxDone, response>>
  PROVE  WaitingCallIsTracked'
<1>1. m \in Msgs /\ callOf[m] \in Calls /\ errCh \in [Msgs -> Answers \cup {NoAnswer}]
  BY FlightOwner DEF Inv, TypeOK
<1>2. Answer(callOf[m], k) # NoAnswer
  BY <1>1, ConstantsAssumption DEF Answer, NoAnswer
<1>3. \A n \in Msgs : n # m => errCh'[n] = errCh[n]
  BY <1>1 DEF AnswerError
<1>4. errCh'[m] # NoAnswer \/ callOf[m] \in ctxDone
  BY <1>1, <1>2 DEF AnswerError
<1> QED
  BY <1>3, <1>4, TrackedAnswer

\* Nothing but late calls' messages gets into a queue that was swept and has no
\* workers, and what is in a queue keeps its request.
LEMMA StrandFrame ==
  ASSUME Inv, OnlyLateCallsStranded, late \subseteq late',
         \A m \in Flight : callOf'[m] = callOf[m],
         \A g \in Gens : g \in swept' /\ WorkersGone(g)' =>
            \/ Len(queue'[g]) = 0
            \/ /\ g \in swept /\ WorkersGone(g)
               /\ \A i \in 1..Len(queue'[g]) :
                     \/ callOf'[queue'[g][i]] \in late'
                     \/ \E j \in 1..Len(queue[g]) : queue'[g][i] = queue[g][j],
         swept' \subseteq Gens
  PROVE  OnlyLateCallsStranded'
<1> SUFFICES ASSUME NEW g \in swept', WorkersGone(g)', NEW i \in 1..Len(queue'[g])
             PROVE  callOf'[queue'[g][i]] \in late'
  BY DEF OnlyLateCallsStranded, WorkersGone
<1>1. g \in Gens /\ Len(queue'[g]) # 0
  OBVIOUS
<1>2. g \in swept /\ WorkersGone(g)
  BY <1>1
<1>3. CASE \E j \in 1..Len(queue[g]) : queue'[g][i] = queue[g][j]
  <2>1. PICK j \in 1..Len(queue[g]) : queue'[g][i] = queue[g][j]
    BY <1>3
  <2>2. callOf[queue[g][j]] \in late
    BY <1>2 DEF OnlyLateCallsStranded
  <2>3. queue[g][j] \in Flight
    BY <1>1 DEF Inv, TypeOK, Flight, Positions
  <2> QED
    BY <2>1, <2>2, <2>3
<1> QED
  BY <1>1, <1>3

-----------------------------------------------------------------------------
(* Steps of callers.                                                        *)

\* Steps that touch no queue and no book: only messages that are not in flight
\* change hands.
LEMMA CallerHandover ==
  ASSUME Inv, HandoverInv, NEW c \in Calls,
         UNCHANGED <<late, queueVars, adminVars>>,
         \A m \in Flight : callOf'[m] = callOf[m],
         WaitingCallIsTracked'
  PROVE  HandoverInv'
<1>1. ExclusionInv' /\ BookInv'
  BY BookFrame DEF HandoverInv, queueVars
<1>2. swept' \subseteq Gens
  BY DEF Inv, TypeOK, queueVars
<1>3. \A g \in Gens : WorkersGone(g)' = WorkersGone(g)
  BY DEF WorkersGone, queueVars
<1>4. OnlyLateCallsStranded'
  BY <1>2, <1>3, StrandFrame DEF HandoverInv, queueVars
<1> QED
  BY <1>1, <1>4 DEF HandoverInv

\* A call moves on or returns without touching a message.
LEMMA QuietHandover ==
  ASSUME Inv, HandoverInv, NEW c \in Calls, ctxDone \subseteq ctxDone',
         \A d \in Calls : stage'[d] = "wait" => stage[d] = "wait",
         UNCHANGED <<msg, late, msgVars, queueVars, adminVars>>
  PROVE  HandoverInv'
<1>1. Flight' = Flight
  BY FlightFrame DEF queueVars, adminVars
<1>2. WaitingCallIsTracked'
  BY <1>1, TrackedFrame DEF HandoverInv, msgVars
<1> QED
  BY <1>2, CallerHandover DEF msgVars

\* A call returns and gives its message back.
LEMMA ReleaseHandover ==
  ASSUME Inv, HandoverInv, NEW c \in Calls, stage[c] \in Holding, msg[c] \notin Flight,
         stage' = [stage EXCEPT ![c] = "returned"], releaseChannelMessage(msg[c]),
         UNCHANGED <<msg, ctxDone, late, queueVars, adminVars>>
  PROVE  HandoverInv'
<1>1. Flight' = Flight
  BY FlightFrame DEF queueVars, adminVars
<1>2. WaitingCallIsTracked'
  BY <1>1, TrackedRelease DEF HandoverInv
<1>3. \A m \in Flight : callOf'[m] = callOf[m]
  BY DEF releaseChannelMessage, Inv, TypeOK, Flight
<1> QED
  BY <1>2, <1>3, CallerHandover

\* The steps of a call up to its send, and after its answer.
LEMMA CallHandover ==
  ASSUME Inv, HandoverInv, NEW c \in Calls,
         \/ CtxCancel(c) \/ CallGetQueue(c) \/ CallNoProvider(c) \/ CallShortCircuit(c)
         \/ CallNoRequest(c) \/ CallAbandon(c) \/ CallCheck(c) \/ CallReroute(c)
         \/ CallGiveUp(c) \/ CallQueueFull(c) \/ CallReceive(c)
  PROVE  HandoverInv'
<1>0. stage \in [Calls -> Stages]
  BY DEF Inv, TypeOK
<1>1. CASE CtxCancel(c)
  BY <1>1, QuietHandover DEF CtxCancel
<1>2. CASE CallGetQueue(c) \/ CallNoProvider(c) \/ CallShortCircuit(c) \/ CallNoRequest(c)
           \/ CallAbandon(c)
  <2>1. /\ UNCHANGED <<msg, ctxDone, late, msgVars, queueVars, adminVars>>
        /\ stage' = [stage EXCEPT ![c] = "hooks"] \/ stage' = [stage EXCEPT ![c] = "returned"]
    BY <1>2 DEF CallGetQueue, CallNoProvider, CallShortCircuit, CallNoRequest, CallAbandon, Return
  <2>2. \A d \in Calls : stage'[d] = "wait" => stage[d] = "wait"
    BY <1>0, <2>1
  <2> QED
    BY <2>1, <2>2, QuietHandover
<1>3. CASE CallCheck(c) \/ CallReroute(c) \/ CallGiveUp(c) \/ CallQueueFull(c)
  <2>1. /\ UNCHANGED <<msg, ctxDone, late, queueVars, adminVars>>
        /\ stage[c] \in {"check", "reroute", "send", "blocked"}
        /\ \/ /\ UNCHANGED msgVars
              /\ \E s \in {"send", "reroute", "blocked"} : stage' = [stage EXCEPT ![c] = s]
           \/ stage' = [stage EXCEPT ![c] = "returned"] /\ releaseChannelMessage(msg[c])
    BY <1>3 DEF CallCheck, CallReroute, CallGiveUp, CallQueueFull, Return
  <2>2. CASE /\ UNCHANGED msgVars
             /\ \E s \in {"send", "reroute", "blocked"} : stage' = [stage EXCEPT ![c] = s]
    <3>1. \A d \in Calls : stage'[d] = "wait" => stage[d] = "wait"
      BY <1>0, <2>2
    <3> QED
      BY <2>1, <2>2, <3>1, QuietHandover
  <2>3. CASE stage' = [stage EXCEPT ![c] = "returned"] /\ releaseChannelMessage(msg[c])
    <3>1. msg[c] \notin Flight /\ stage[c] \in Holding
      BY <2>1, UnsentNotInFlight DEF Holding
    <3> QED
      BY <2>1, <2>3, <3>1, ReleaseHandover
  <2> QED
    BY <2>1, <2>2, <2>3
<1>4. CASE CallReceive(c)
  <2>1. /\ UNCHANGED <<msg, ctxDone, late, queueVars, adminVars>>
        /\ stage[c] \in Holding
        /\ stage' = [stage EXCEPT ![c] = "returned"] /\ releaseChannelMessage(msg[c])
        /\ response[msg[c]] # NoAnswer \/ errCh[msg[c]] # NoAnswer
    BY <1>4 DEF CallReceive, Return, Holding
  <2>2. msg[c] \notin Flight
    BY <2>1, FlightOwner
  <2> QED
    BY <2>1, <2>2, ReleaseHandover
<1> QED
  BY <1>1, <1>2, <1>3, <1>4

\* A message is taken from the pool: nobody waits for it.
LEMMA getChannelMessageHandover ==
  ASSUME Inv, HandoverInv, NEW c \in Calls, getChannelMessage(c)
  PROVE  HandoverInv'
<1>1. PICK m \in pool :
        /\ callOf' = [callOf EXCEPT ![m] = c]
        /\ response' = [response EXCEPT ![m] = NoAnswer]
        /\ errCh' = [errCh EXCEPT ![m] = NoAnswer]
        /\ msg' = [msg EXCEPT ![c] = m]
  BY DEF getChannelMessage
<1>2. /\ UNCHANGED <<ctxDone, late, queueVars, adminVars>>
      /\ stage' = [stage EXCEPT ![c] = "check"]
  BY DEF getChannelMessage
<1>3. Flight' = Flight
  BY <1>2, FlightFrame DEF queueVars, adminVars
<1>4. \A n \in Flight : callOf'[n] = callOf[n]
  BY <1>1, FlightOwner DEF Inv, TypeOK
<1>5. WaitingCallIsTracked'
  <2> SUFFICES ASSUME NEW d \in Calls, stage'[d] = "wait", d \notin ctxDone
               PROVE  msg'[d] \in Flight \/ response'[msg'[d]] # NoAnswer \/ errCh'[msg'[d]] # NoAnswer
    BY <1>2, <1>3 DEF WaitingCallIsTracked
  <2>1. d # c /\ stage[d] = "wait"
    BY <1>2 DEF Inv, TypeOK
  <2>2. msg'[d] = msg[d] /\ msg[d] \in Msgs /\ msg[d] \notin pool
    BY <1>1, <2>1 DEF Inv, TypeOK, CallInv, Holding
  <2>3. response'[msg[d]] = response[msg[d]] /\ errCh'[msg[d]] = errCh[msg[d]]
    BY <1>1, <2>2 DEF Inv, TypeOK
  <2> QED
    BY <2>1, <2>2, <2>3 DEF HandoverInv, WaitingCallIsTracked
<1> QED
  BY <1>2, <1>4, <1>5, CallerHandover

\* A call sends: its message is in flight, and it is late if the queue was swept.
LEMMA CallSendHandover ==
  ASSUME Inv, HandoverInv, NEW c \in Calls, CallSend(c)
  PROVE  HandoverInv'
<1> USE DEF Gens
<1>g. PICK g \in Gens : g = pq[c]
  BY DEF CallSend, Inv, CallInv, Holding
<1>m. PICK m \in Msgs : m = msg[c] /\ callOf[m] = c
  BY DEF CallSend, Inv, CallInv, Holding
<1>0. /\ queue' = [queue EXCEPT ![g] = Append(@, m)]
      /\ late' = IF g \in swept THEN late \cup {c} ELSE late
      /\ stage' = [stage EXCEPT ![c] = "wait"]
      /\ UNCHANGED <<msg, ctxDone, callOf, response, errCh, swept, worker, adminVars>>
  BY <1>g, <1>m DEF CallSend, msgVars
<1>1. queue \in [Gens -> Seq(Msgs)] /\ swept \subseteq Gens /\ stage \in [Calls -> Stages]
  BY DEF Inv, TypeOK
<1>2. /\ queue' \in [Gens -> Seq(Msgs)]
      /\ Len(queue[g]) \in Nat
      /\ \A h \in Gens : h # g => queue'[h] = queue[h]
      /\ Len(queue'[g]) = Len(queue[g]) + 1
      /\ queue'[g][Len(queue[g]) + 1] = m
      /\ \A i \in 1..Len(queue[g]) : queue'[g][i] = queue[g][i]
  BY <1>0, <1>1, PushQueue
<1>3. Flight \subseteq Flight' /\ m \in Flight'
  BY <1>0, <1>1, <1>2, SMTT(30) DEF Flight, Positions, adminVars
<1>4. ExclusionInv' /\ BookInv'
  BY <1>0, BookFrame DEF HandoverInv
<1>5. WaitingCallIsTracked'
  BY <1>m, <1>0, <1>1, <1>3 DEF HandoverInv, WaitingCallIsTracked
<1>6. \A h \in Gens : WorkersGone(h)' = WorkersGone(h)
  BY <1>0 DEF WorkersGone
<1>7. OnlyLateCallsStranded'
  <2>1. late \subseteq late'
    BY <1>0
  <2>2. ASSUME NEW h \in Gens, h \in swept
        PROVE  \A i \in 1..Len(queue'[h]) :
                     \/ callOf'[queue'[h][i]] \in late'
                     \/ \E j \in 1..Len(queue[h]) : queue'[h][i] = queue[h][j]
    <3>1. CASE h = g
      <4>1. callOf'[m] \in late'
        BY <1>m, <1>0, <2>2, <3>1
      <4>2. \A i \in 1..Len(queue'[g]) : i \in 1..Len(queue[g]) \/ i = Len(queue[g]) + 1
        BY <1>2
      <4> QED
        BY <1>2, <3>1, <4>1, <4>2
    <3>2. CASE h # g
      BY <1>2, <3>2
    <3> QED
      BY <3>1, <3>2
  <2> QED
    BY <1>0, <1>1, <1>6, <2>1, <2>2, StrandFrame DEF HandoverInv
<1> QED
  BY <1>4, <1>5, <1>7 DEF HandoverInv

-----------------------------------------------------------------------------
(* Steps of workers.                                                        *)

\* Receiving the head of a queue: what is left was there before.
LEMMA PopKeeps ==
  ASSUME Inv, NEW g \in Gens, queue[g] # << >>, queue' = [queue EXCEPT ![g] = Tail(@)]
  PROVE  \A h \in Gens : \A i \in 1..Len(queue'[h]) :
            \E j \in 1..Len(queue[h]) : queue'[h][i] = queue[h][j]
<1> USE DEF Gens
<1>1. queue \in [Gens -> Seq(Msgs)]
  BY DEF Inv, TypeOK
<1>2. /\ Len(queue[g]) \in Nat
      /\ \A h \in Gens : h # g => queue'[h] = queue[h]
      /\ Len(queue'[g]) = Len(queue[g]) - 1
      /\ \A i \in 1..Len(queue'[g]) : queue'[g][i] = queue[g][i + 1]
  BY <1>1, PopQueue
<1>3. \A i \in 1..Len(queue'[g]) : i + 1 \in 1..Len(queue[g]) /\ queue'[g][i] = queue[g][i + 1]
  BY <1>2
<1> QED
  BY <1>2, <1>3

\* A drain loop, in a worker, in UpdateProvider, or in one of the final sweeps.
LEMMA DrainHandover ==
  ASSUME Inv, HandoverInv, NEW g \in Gens, NEW k \in AnswerKinds, DrainOne(g, k),
         UNCHANGED <<callVars, closing, swept, worker, adminVars>>
  PROVE  HandoverInv'
<1> USE DEF Gens
<1>0. /\ queue[g] # << >> /\ queue' = [queue EXCEPT ![g] = Tail(@)]
      /\ AnswerError(Head(queue[g]), k) /\ UNCHANGED <<callOf, response>>
  BY DEF DrainOne
<1>m. PICK m : m = Head(queue[g])
  OBVIOUS
<1>1. m \in Flight /\ Flight' = Flight \ {m}
  BY <1>m, <1>0, PopFlight DEF adminVars
<1>2. ExclusionInv' /\ BookInv'
  BY BookFrame DEF HandoverInv
<1>3. WaitingCallIsTracked'
  BY <1>m, <1>0, <1>1, TrackedAnswerError DEF HandoverInv, callVars
<1>4. \A h \in Gens : WorkersGone(h)' = WorkersGone(h)
  BY DEF WorkersGone
<1>5. OnlyLateCallsStranded'
  <2>1. \A h \in Gens : \A i \in 1..Len(queue'[h]) :
            \E j \in 1..Len(queue[h]) : queue'[h][i] = queue[h][j]
    BY <1>0, PopKeeps
  <2>2. swept' \subseteq Gens /\ late \subseteq late'
    BY DEF Inv, TypeOK, callVars
  <2> QED
    BY <1>0, <1>4, <2>1, <2>2, StrandFrame DEF HandoverInv
<1> QED
  BY <1>2, <1>3, <1>5 DEF HandoverInv

\* A worker that goes on working keeps its generation from being gone.
LEMMA WorkerAlive ==
  ASSUME Inv, NEW x \in WorkerIds, NEW v, v.pc \notin {"off", "exited"},
         worker' = [worker EXCEPT ![x] = v]
  PROVE  \A h \in Gens : WorkersGone(h)' => WorkersGone(h)
<1> SUFFICES ASSUME NEW h \in Gens, WorkersGone(h)', NEW w \in Workers
             PROVE  worker[<<h, w>>].pc \in {"off", "exited"}
  BY DEF WorkersGone
<1>1. <<h, w>> \in WorkerIds /\ worker'[<<h, w>>].pc \in {"off", "exited"}
  BY DEF WorkersGone, WorkerIds
<1>2. <<h, w>> # x
  BY <1>1 DEF Inv, TypeOK
<1> QED
  BY <1>1, <1>2 DEF Inv, TypeOK

\* Steps of a worker that leave the queues alone and do not end it.
LEMMA WorkingHandover ==
  ASSUME Inv, HandoverInv, NEW x \in WorkerIds, NEW v, v.pc \notin {"off", "exited"},
         worker' = [worker EXCEPT ![x] = v], UNCHANGED <<late, callOf, queue, swept, adminVars>>,
         WaitingCallIsTracked'
  PROVE  HandoverInv'
<1>1. ExclusionInv' /\ BookInv'
  BY BookFrame DEF HandoverInv
<1>2. \A h \in Gens : WorkersGone(h)' => WorkersGone(h)
  BY WorkerAlive
<1>3. swept' \subseteq Gens
  BY DEF Inv, TypeOK
<1>4. OnlyLateCallsStranded'
  BY <1>2, <1>3, StrandFrame DEF HandoverInv
<1> QED
  BY <1>1, <1>4 DEF HandoverInv

\* A worker takes the head of its queue.
LEMMA WorkerReceiveHandover ==
  ASSUME Inv, HandoverInv, NEW x \in WorkerIds, WorkerReceive(x)
  PROVE  HandoverInv'
<1> USE DEF Gens
<1>g. PICK g \in Gens : g = x[1]
  BY DEF WorkerIds
<1>m. PICK m : m = Head(queue[g])
  OBVIOUS
<1>0. /\ queue[g] # << >> /\ queue' = [queue EXCEPT ![g] = Tail(@)]
      /\ worker[x].pc = "idle" /\ worker' = [worker EXCEPT ![x] = Busy(m)]
      /\ UNCHANGED <<callVars, msgVars, swept, adminVars>>
  BY <1>g, <1>m DEF WorkerReceive
<1>1. /\ queue \in [Gens -> Seq(Msgs)] /\ worker \in [WorkerIds -> WorkerStates]
      /\ worker[x].msg = NoMsg /\ NoMsg \notin Msgs
  BY <1>0, WorkerShape, ConstantsAssumption DEF Inv, TypeOK
<1>2. /\ Len(queue[g]) \in Nat
      /\ m = queue[g][1]
      /\ \A h \in Gens : h # g => queue'[h] = queue[h]
      /\ Len(queue'[g]) = Len(queue[g]) - 1
      /\ \A i \in 1..Len(queue'[g]) : queue'[g][i] = queue[g][i + 1]
  BY <1>m, <1>0, <1>1, PopQueue
<1>3. worker'[x].msg = m /\ \A y \in WorkerIds : y # x => worker'[y] = worker[y]
  BY <1>0, <1>1 DEF Busy
<1>4. Flight \subseteq Flight'
  <2> SUFFICES ASSUME NEW n \in Flight PROVE n \in Flight'
    OBVIOUS
  <2>1. CASE \E h \in Gens : \E i \in Positions(h) : queue[h][i] = n
    <3>1. PICK h \in Gens : \E i \in Positions(h) : queue[h][i] = n
      BY <2>1
    <3>i. PICK i \in Positions(h) : queue[h][i] = n
      BY <3>1
    <3>2. CASE h = g /\ i = 1
      BY <1>2, <1>3, <3>i, <3>2 DEF Flight
    <3>3. CASE h = g /\ i # 1
      <4>1. i - 1 \in 1..Len(queue'[g]) /\ queue'[g][i - 1] = n
        BY <1>2, <3>i, <3>3 DEF Positions
      <4> QED
        BY <4>1 DEF Flight, Positions
    <3>4. CASE h # g
      BY <1>2, <3>i, <3>4 DEF Flight, Positions
    <3> QED
      BY <3>2, <3>3, <3>4
  <2>2. CASE \E y \in WorkerIds : worker[y].msg = n
    BY <1>1, <1>3, <2>2 DEF Flight
  <2>3. CASE admin.carry = n
    BY <1>0, <2>3 DEF Flight, adminVars
  <2> QED
    BY <2>1, <2>2, <2>3 DEF Flight
<1>5. WaitingCallIsTracked'
  BY <1>0, <1>4, TrackedFrame DEF HandoverInv, callVars, msgVars
<1>6. ExclusionInv' /\ BookInv'
  BY <1>0, BookFrame DEF HandoverInv
<1>7. OnlyLateCallsStranded'
  <2>1. \A h \in Gens : \A i \in 1..Len(queue'[h]) :
            \E j \in 1..Len(queue[h]) : queue'[h][i] = queue[h][j]
    BY <1>0, PopKeeps
  <2>2. Busy(m).pc \notin {"off", "exited"}
    BY DEF Busy
  <2>3. \A h \in Gens : WorkersGone(h)' => WorkersGone(h)
    BY <1>0, <2>2, WorkerAlive
  <2>4. swept' \subseteq Gens /\ late \subseteq late' /\ callOf' = callOf /\ swept' = swept
    BY <1>0 DEF Inv, TypeOK, callVars, msgVars
  <2> QED
    BY <2>1, <2>3, <2>4, StrandFrame DEF HandoverInv
<1> QED
  BY <1>5, <1>6, <1>7 DEF HandoverInv

\* A worker answers its message, with the provider's outcome or without.
LEMMA WorkerAnswerHandover ==
  ASSUME Inv, HandoverInv, NEW x \in WorkerIds, WorkerKeyError(x) \/ WorkerDeliver(x)
  PROVE  HandoverInv'
<1>m. PICK m : m = worker[x].msg
  OBVIOUS
<1>a. PICK a : a = worker[x].out
  OBVIOUS
<1>0. /\ worker[x].pc \in {"busy", "deliver"} /\ worker' = [worker EXCEPT ![x] = Idle]
      /\ UNCHANGED <<stage, msg, ctxDone, late, callOf, queue, swept, adminVars>>
  BY DEF WorkerKeyError, WorkerDeliver, callVars
<1>1. m \in Flight /\ Flight' = Flight \ {m}
  BY <1>m, <1>0, DropFlight DEF adminVars
<1>2. /\ m \in Msgs /\ callOf[m] \in Calls
      /\ response \in [Msgs -> Answers \cup {NoAnswer}]
      /\ errCh \in [Msgs -> Answers \cup {NoAnswer}]
  BY <1>1, FlightOwner DEF Inv, TypeOK
<1>3. WaitingCallIsTracked'
  <2>1. CASE WorkerKeyError(x)
    <3>1. errCh' = [errCh EXCEPT ![m] = Answer(callOf[m], "keyError")] /\ response' = response
      BY <1>m, <2>1 DEF WorkerKeyError
    <3>2. Answer(callOf[m], "keyError") # NoAnswer
      BY DEF Answer, NoAnswer
    <3>3. errCh'[m] # NoAnswer /\ \A n \in Msgs : n # m => errCh'[n] = errCh[n]
      BY <1>2, <3>1, <3>2
    <3> QED
      BY <1>0, <1>1, <3>1, <3>3, TrackedAnswer DEF HandoverInv
  <2>2. CASE WorkerDeliver(x)
    <3>1. a # NoAnswer
      BY <1>a, <2>2 DEF WorkerDeliver, Inv, DeliverInv, ProviderOutcomes, NoAnswer
    <3>2. \/ response' = [response EXCEPT ![m] = a] /\ errCh' = errCh
          \/ errCh' = [errCh EXCEPT ![m] = a] /\ response' = response
          \/ callOf[m] \in ctxDone /\ errCh' = errCh /\ response' = response
      BY <1>m, <1>a, <2>2 DEF WorkerDeliver
    <3>3. /\ \A n \in Msgs : n # m => response'[n] = response[n] /\ errCh'[n] = errCh[n]
          /\ response'[m] # NoAnswer \/ errCh'[m] # NoAnswer \/ callOf[m] \in ctxDone
      BY <1>2, <3>1, <3>2
    <3> QED
      BY <1>0, <1>1, <3>3, TrackedAnswer DEF HandoverInv
  <2> QED
    BY <2>1, <2>2
<1>4. Idle.pc \notin {"off", "exited"}
  BY DEF Idle
<1> QED
  BY <1>0, <1>3, <1>4, WorkingHandover

\* A worker calls the provider, or sees done: its message stays where it is.
LEMMA WorkerKeepsHandover ==
  ASSUME Inv, HandoverInv, NEW x \in WorkerIds, WorkerExecute(x) \/ WorkerSeeDone(x)
  PROVE  HandoverInv'
<1>0. worker \in [WorkerIds -> WorkerStates] /\ worker[x] \in WorkerStates
  BY DEF Inv, TypeOK
<1>1. PICK v : /\ worker' = [worker EXCEPT ![x] = v]
               /\ v.pc \notin {"off", "exited"} /\ v.msg = worker[x].msg
  <2>1. CASE WorkerExecute(x)
    BY <2>1 DEF WorkerExecute, Deliver
  <2>2. CASE WorkerSeeDone(x)
    <3>1. worker' = [worker EXCEPT ![x] = Drain] /\ Drain.pc = "drain" /\ Drain.msg = NoMsg
      BY <2>2 DEF WorkerSeeDone, Drain
    <3>2. worker[x].msg = NoMsg
      BY <1>0, <2>2, WorkerShape DEF WorkerSeeDone
    <3> QED
      BY <3>1, <3>2
  <2> QED
    BY <2>1, <2>2
<1>2. UNCHANGED <<stage, msg, ctxDone, late, msgVars, queue, swept, adminVars>>
  BY DEF WorkerExecute, WorkerSeeDone, callVars
<1>3. \A y \in WorkerIds : worker'[y].msg = worker[y].msg
  BY <1>0, <1>1
<1>4. Flight' = Flight
  BY <1>2, <1>3, SameHands DEF adminVars
<1>5. WaitingCallIsTracked'
  BY <1>2, <1>4, TrackedFrame DEF HandoverInv, msgVars
<1> QED
  BY <1>1, <1>2, <1>5, WorkingHandover DEF msgVars

\* A worker drains its queue and leaves when it sees it empty.
LEMMA WorkerDrainHandover ==
  ASSUME Inv, HandoverInv, NEW x \in WorkerIds, WorkerDrain(x)
  PROVE  HandoverInv'
<1> USE DEF Gens
<1>g. PICK g \in Gens : g = x[1]
  BY DEF WorkerIds
<1>1. CASE DrainOne(g, "closed") /\ UNCHANGED worker
  <2>1. UNCHANGED <<callVars, closing, swept, worker, adminVars>> /\ "closed" \in AnswerKinds
    BY <1>1 DEF WorkerDrain, AnswerKinds
  <2> QED
    BY <1>1, <2>1, DrainHandover
<1>2. CASE queue[g] = << >> /\ worker' = [worker EXCEPT ![x] = Exited] /\ UNCHANGED <<queue, msgVars>>
  <2>0. /\ UNCHANGED <<callVars, msgVars, queue, swept, adminVars>>
        /\ worker \in [WorkerIds -> WorkerStates] /\ worker[x].msg = NoMsg
    BY <1>2, WorkerShape DEF WorkerDrain, Inv, TypeOK
  <2>1. \A y \in WorkerIds : worker'[y].msg = worker[y].msg
    BY <1>2, <2>0 DEF Exited
  <2>2. Flight' = Flight
    BY <2>0, <2>1, SameHands DEF adminVars
  <2>3. WaitingCallIsTracked'
    BY <2>0, <2>2, TrackedFrame DEF HandoverInv, callVars, msgVars
  <2>4. ExclusionInv' /\ BookInv'
    BY <2>0, BookFrame DEF HandoverInv
  <2>5. \A h \in Gens : h # g => WorkersGone(h)' = WorkersGone(h)
    <3>1. \A h \in Gens : h # g => \A w \in Workers : worker'[<<h, w>>] = worker[<<h, w>>]
      BY <1>g, <1>2, <2>0 DEF WorkerIds
    <3> QED
      BY <3>1 DEF WorkersGone
  <2>6. Len(queue'[g]) = 0
    BY <1>2, <2>0
  <2>7. swept' \subseteq Gens /\ late \subseteq late' /\ callOf' = callOf /\ swept' = swept /\ queue' = queue
    BY <2>0 DEF Inv, TypeOK, callVars, msgVars
  <2>8. OnlyLateCallsStranded'
    BY <2>5, <2>6, <2>7, StrandFrame DEF HandoverInv
  <2> QED
    BY <2>3, <2>4, <2>8 DEF HandoverInv
<1> QED
  BY <1>g, <1>1, <1>2 DEF WorkerDrain

-----------------------------------------------------------------------------
(* Steps of administrators.                                                 *)

\* Steps that write the books, start workers, or mark an empty queue as swept.
LEMMA BooksHandover ==
  ASSUME Inv, HandoverInv, ExclusionInv', BookInv',
         UNCHANGED <<msg, ctxDone, late, msgVars, queue, admin.carry>>,
         \A x \in WorkerIds : worker'[x].msg = worker[x].msg,
         \A d \in Calls : stage'[d] = "wait" => stage[d] = "wait",
         \A h \in Gens : WorkersGone(h)' => WorkersGone(h),
         swept' \subseteq Gens,
         \A h \in swept' : h \in swept \/ queue[h] = << >>
  PROVE  HandoverInv'
<1>1. Flight' = Flight
  BY SameHands
<1>2. WaitingCallIsTracked'
  BY <1>1, TrackedFrame DEF HandoverInv, msgVars
<1>3. \A h \in Gens : queue[h] = << >> => Len(queue[h]) = 0
  OBVIOUS
<1>4. callOf' = callOf /\ queue' = queue /\ late \subseteq late'
  BY DEF msgVars
<1>5. OnlyLateCallsStranded'
  BY <1>3, <1>4, StrandFrame DEF HandoverInv
<1> QED
  BY <1>2, <1>5 DEF HandoverInv

\* A new generation's workers have no messages, and are not gone.
LEMMA StartWorkersKeeps ==
  ASSUME NEW g \in Gens, \A w \in Workers : worker[<<g, w>>] = Off, StartWorkers(g)
  PROVE  /\ \A x \in WorkerIds : worker'[x].msg = worker[x].msg
         /\ \A h \in Gens : WorkersGone(h)' => WorkersGone(h)
<1>1. \A x \in WorkerIds : worker'[x].msg = worker[x].msg
  BY DEF StartWorkers, WorkerIds, Off, Idle
<1>2. ASSUME NEW h \in Gens, WorkersGone(h)', NEW w \in Workers
      PROVE  worker[<<h, w>>].pc \in {"off", "exited"}
  <2>1. <<h, w>> \in WorkerIds /\ worker'[<<h, w>>].pc \in {"off", "exited"} /\ <<h, w>>[1] = h
    BY <1>2 DEF WorkersGone, WorkerIds
  <2>2. h # g
    BY <2>1 DEF StartWorkers, Idle
  <2> QED
    BY <2>1, <2>2 DEF StartWorkers
<1> QED
  BY <1>1, <1>2 DEF WorkersGone

\* A queue is created, lazily or by UpdateProvider.
LEMMA PrepareHandover ==
  ASSUME Inv, HandoverInv, (\E c \in Calls : CallLazyCreate(c)) \/ UpdatePrepare
  PROVE  HandoverInv'
<1> USE DEF Gens
<1>0. /\ genCount \in 1..MaxGen /\ genCount < MaxGen /\ MaxGen \in Nat /\ lock = "free"
      /\ genCount' = genCount + 1 /\ published' = genCount + 1 /\ stage \in [Calls -> Stages]
      /\ retired \subseteq Gens /\ swept \subseteq Gens /\ shutdown.gen \in 0..MaxGen
      /\ UNCHANGED <<msg, ctxDone, late, msgVars, queueVars, retired, shutdown>>
  BY ConstantsAssumption DEF Inv, TypeOK, CallLazyCreate, UpdatePrepare, PrepareStore, callVars
<1>1. admin.pc = "none" /\ admin.carry = NoMsg
  BY <1>0 DEF Inv, LockInv
<1>2. /\ \A d \in Calls : stage'[d] = "wait" => stage[d] = "wait"
      /\ admin'.carry = NoMsg /\ admin'.pc \notin {"transfer", "cancelRest", "retire"}
      /\ admin'.pc # "none" => shutdown.pc = "none"
  BY <1>0, <1>1 DEF CallLazyCreate, UpdatePrepare, LifecycleOpen, NoOp, callVars
<1>3. ExclusionInv'
  BY <1>0, <1>2 DEF HandoverInv, ExclusionInv, Updating
<1>4. BookInv'
  BY <1>0, <1>2 DEF HandoverInv, BookInv, Replacing, queueVars
<1> QED
  BY <1>0, <1>1, <1>2, <1>3, <1>4, BooksHandover DEF queueVars, WorkersGone

\* Its workers start, or its provider could not be built.
LEMMA PreparedHandover ==
  ASSUME Inv, HandoverInv, (\E c \in Calls : CallPrepared(c)) \/ UpdatePrepared
  PROVE  HandoverInv'
<1> USE DEF Gens
<1>0. /\ published \in Gens /\ \A w \in Workers : worker[<<published, w>>] = Off
      /\ stage \in [Calls -> Stages] /\ swept \subseteq Gens
      /\ admin.pc \in {"none", "preparing"} /\ admin.carry = NoMsg
      /\ StartWorkers(published) \/ UNCHANGED worker
      /\ UNCHANGED <<msg, ctxDone, late, msgVars, queue, swept, published, genCount, retired,
                     shutdown>>
  <2>1. lock = "call" \/ admin.pc = "preparing"
    BY DEF CallPrepared, UpdatePrepared, Inv, LockInv
  <2>2. published # 0 /\ \A w \in Workers : worker[<<published, w>>] = Off
    BY <2>1 DEF Inv, LockInv
  <2>3. published \in Gens /\ stage \in [Calls -> Stages] /\ swept \subseteq Gens
    BY <2>2, ConstantsAssumption DEF Inv, TypeOK
  <2>4. admin.pc \in {"none", "preparing"} /\ admin.carry = NoMsg
    BY <2>1 DEF Inv, LockInv
  <2> QED
    BY <2>2, <2>3, <2>4 DEF CallPrepared, UpdatePrepared, callVars
<1>1. /\ \A x \in WorkerIds : worker'[x].msg = worker[x].msg
      /\ \A h \in Gens : WorkersGone(h)' => WorkersGone(h)
  <2>1. CASE StartWorkers(published)
    BY <1>0, <2>1, StartWorkersKeeps
  <2>2. CASE UNCHANGED worker
    BY <2>2 DEF WorkersGone
  <2> QED
    BY <1>0, <2>1, <2>2
<1>2. admin' = admin \/ admin' = NoOp
  BY DEF CallPrepared, UpdatePrepared
<1>3. \A d \in Calls : stage'[d] = "wait" => stage[d] = "wait"
  BY <1>0 DEF CallPrepared, UpdatePrepared, Return, callVars
<1>4. admin'.carry = NoMsg /\ admin'.pc \in {"none", admin.pc}
  BY <1>0, <1>2 DEF NoOp
<1>5. ExclusionInv' /\ BookInv'
  BY <1>0, <1>4 DEF HandoverInv, ExclusionInv, BookInv, Replacing, Updating
<1> QED
  BY <1>0, <1>1, <1>3, <1>4, <1>5, BooksHandover

\* UpdateProvider publishes a generation that nobody has swept.
LEMMA UpdateBeginHandover == ASSUME Inv, HandoverInv, UpdateBegin PROVE HandoverInv'
<1> USE DEF Gens
<1>0. /\ genCount \in 1..MaxGen /\ genCount < MaxGen /\ MaxGen \in Nat /\ lock = "free"
      /\ published \in 0..MaxGen /\ published <= genCount
      /\ retired \subseteq Gens /\ swept \subseteq Gens /\ shutdown.gen \in 0..MaxGen
      /\ genCount' = genCount + 1 /\ published' = genCount + 1
      /\ shutdown.pc = "none" /\ StartWorkers(genCount + 1)
      /\ admin'.pc = "transfer" /\ admin'.old = published /\ admin'.carry = NoMsg
      /\ UNCHANGED <<callVars, msgVars, queue, swept, retired, shutdown>>
  BY ConstantsAssumption DEF Inv, TypeOK, GenInv, UpdateBegin, LifecycleOpen
<1>1. admin.carry = NoMsg
  BY <1>0 DEF Inv, LockInv
<1>2. genCount + 1 \in Gens /\ \A w \in Workers : worker[<<genCount + 1, w>>] = Off
  BY <1>0 DEF Inv, GenInv, WorkerIds
<1>3. /\ \A x \in WorkerIds : worker'[x].msg = worker[x].msg
      /\ \A h \in Gens : WorkersGone(h)' => WorkersGone(h)
  BY <1>0, <1>2, StartWorkersKeeps
<1>4. ExclusionInv'
  BY <1>0 DEF ExclusionInv
<1>5. BookInv'
  BY <1>0 DEF HandoverInv, BookInv, Replacing
<1> QED
  BY <1>0, <1>1, <1>3, <1>4, <1>5, BooksHandover DEF callVars

\* UpdateProvider takes a message out of the old queue into its own hands.
LEMMA UpdateTakeHandover == ASSUME Inv, HandoverInv, UpdateTake PROVE HandoverInv'
<1> USE DEF Gens
<1>g. PICK g \in Gens : g = admin.old
  BY DEF Inv, LockInv, Replacing, UpdateTake
<1>m. PICK m : m = Head(queue[g])
  OBVIOUS
<1>0. /\ queue[g] # << >> /\ queue' = [queue EXCEPT ![g] = Tail(@)]
      /\ admin' = [admin EXCEPT !.carry = m] /\ admin.carry = NoMsg
      /\ queue \in [Gens -> Seq(Msgs)] /\ NoMsg \notin Msgs /\ swept \subseteq Gens
      /\ UNCHANGED <<callVars, msgVars, swept, worker, published, genCount, retired, shutdown>>
  BY <1>g, <1>m, ConstantsAssumption DEF UpdateTake, Inv, TypeOK
<1>1. admin'.carry = m /\ admin'.pc = admin.pc /\ admin'.old = admin.old
  BY <1>0 DEF Inv, TypeOK
<1>2. /\ Len(queue[g]) \in Nat
      /\ m = queue[g][1]
      /\ \A h \in Gens : h # g => queue'[h] = queue[h]
      /\ Len(queue'[g]) = Len(queue[g]) - 1
      /\ \A i \in 1..Len(queue'[g]) : queue'[g][i] = queue[g][i + 1]
  BY <1>m, <1>0, PopQueue
<1>3. Flight \subseteq Flight'
  <2> SUFFICES ASSUME NEW n \in Flight PROVE n \in Flight'
    OBVIOUS
  <2>1. CASE \E h \in Gens : \E i \in Positions(h) : queue[h][i] = n
    <3>1. PICK h \in Gens : \E i \in Positions(h) : queue[h][i] = n
      BY <2>1
    <3>i. PICK i \in Positions(h) : queue[h][i] = n
      BY <3>1
    <3>2. CASE h = g /\ i = 1
      BY <1>1, <1>2, <3>i, <3>2 DEF Flight
    <3>3. CASE h = g /\ i # 1
      <4>1. i - 1 \in 1..Len(queue'[g]) /\ queue'[g][i - 1] = n
        BY <1>2, <3>i, <3>3 DEF Positions
      <4> QED
        BY <4>1 DEF Flight, Positions
    <3>4. CASE h # g
      BY <1>2, <3>i, <3>4 DEF Flight, Positions
    <3> QED
      BY <3>2, <3>3, <3>4
  <2>2. CASE \E y \in WorkerIds : worker[y].msg = n
    BY <1>0, <2>2 DEF Flight
  <2> QED
    BY <1>0, <2>1, <2>2 DEF Flight
<1>4. WaitingCallIsTracked'
  BY <1>0, <1>3, TrackedFrame DEF HandoverInv, callVars, msgVars
<1>5. ExclusionInv' /\ BookInv'
  BY <1>0, <1>1 DEF HandoverInv, ExclusionInv, BookInv, Replacing
<1>6. \A h \in Gens : \A i \in 1..Len(queue'[h]) :
            \E j \in 1..Len(queue[h]) : queue'[h][i] = queue[h][j]
  BY <1>0, PopKeeps
<1>7. OnlyLateCallsStranded'
  BY <1>0, <1>6, StrandFrame DEF HandoverInv, WorkersGone, callVars, msgVars
<1> QED
  BY <1>4, <1>5, <1>7 DEF HandoverInv

\* UpdateProvider puts the message in the new queue, which nobody has swept, or
\* answers it.
LEMMA UpdatePutHandover == ASSUME Inv, HandoverInv, UpdatePut PROVE HandoverInv'
<1> USE DEF Gens
<1>g. PICK g \in Gens : g = published
  BY DEF Inv, TypeOK, LockInv, UpdatePut
<1>m. PICK m \in Msgs : m = admin.carry
  BY DEF Inv, TypeOK, UpdatePut
<1>0. /\ admin.pc = "transfer" /\ g \notin swept
      /\ queue \in [Gens -> Seq(Msgs)] /\ NoMsg \notin Msgs /\ swept \subseteq Gens
      /\ admin'.carry = NoMsg /\ admin'.pc \in {"transfer", "cancelRest"} /\ admin'.old = admin.old
      /\ UNCHANGED <<callVars, callOf, response, swept, worker, published, genCount, retired,
                     shutdown>>
  BY <1>g, <1>m, ConstantsAssumption DEF UpdatePut, Inv, TypeOK, HandoverInv, BookInv, msgVars
<1>1. ExclusionInv' /\ BookInv'
  BY <1>0 DEF HandoverInv, ExclusionInv, BookInv, Replacing, Updating
<1>2. \A h \in Gens : WorkersGone(h)' = WorkersGone(h)
  BY <1>0 DEF WorkersGone
<1>3. CASE queue' = [queue EXCEPT ![g] = Append(@, m)] /\ UNCHANGED msgVars
  <2>1. /\ Len(queue[g]) \in Nat
        /\ \A h \in Gens : h # g => queue'[h] = queue[h]
        /\ Len(queue'[g]) = Len(queue[g]) + 1
        /\ queue'[g][Len(queue[g]) + 1] = m
        /\ \A i \in 1..Len(queue[g]) : queue'[g][i] = queue[g][i]
    BY <1>0, <1>3, PushQueue
  <2>2. Flight \subseteq Flight'
    <3> SUFFICES ASSUME NEW n \in Flight PROVE n \in Flight'
      OBVIOUS
    <3>1. CASE \E h \in Gens : \E i \in Positions(h) : queue[h][i] = n
      BY <2>1, <3>1 DEF Flight, Positions
    <3>2. CASE \E y \in WorkerIds : worker[y].msg = n
      BY <1>0, <3>2 DEF Flight
    <3>3. CASE n = m
      <4>1. Len(queue[g]) + 1 \in 1..Len(queue'[g])
        BY <2>1
      <4> QED
        BY <2>1, <3>3, <4>1 DEF Flight, Positions
    <3> QED
      BY <1>m, <3>1, <3>2, <3>3 DEF Flight
  <2>3. WaitingCallIsTracked'
    BY <1>0, <1>3, <2>2, TrackedFrame DEF HandoverInv, callVars, msgVars
  <2>4. OnlyLateCallsStranded'
    BY <1>0, <1>2, <2>1, StrandFrame DEF HandoverInv, callVars
  <2> QED
    BY <1>1, <2>3, <2>4 DEF HandoverInv
<1>4. CASE AnswerError(m, "transferFull") /\ UNCHANGED queue
  <2>1. m \in Flight
    BY <1>m DEF Flight
  <2>2. Flight' = Flight \ {m}
    <3>1. /\ \A h \in Gens : \A i \in Positions(h) : queue[h][i] # m
          /\ \A y \in WorkerIds : worker[y].msg # m
      BY <1>m, <1>0 DEF Inv, SingleHolder
    <3>2. queue' = queue /\ worker' = worker /\ admin'.carry = NoMsg
      BY <1>0, <1>4
    <3> QED
      BY <1>m, <1>0, <3>1, <3>2 DEF Flight, Positions
  <2>3. "transferFull" \in AnswerKinds
    BY DEF AnswerKinds
  <2>4. WaitingCallIsTracked'
    BY <1>0, <1>4, <2>1, <2>2, <2>3, TrackedAnswerError DEF HandoverInv, callVars
  <2>5. OnlyLateCallsStranded'
    BY <1>0, <1>2, <1>4, StrandFrame DEF HandoverInv, callVars
  <2> QED
    BY <1>1, <2>4, <2>5 DEF HandoverInv
<1> QED
  BY <1>g, <1>m, <1>3, <1>4 DEF UpdatePut

\* The rest of the old queue is cancelled, the old generation is retired.
LEMMA UpdateEndHandover ==
  ASSUME Inv, HandoverInv, UpdateCancelRest \/ UpdateTransferred \/ UpdateRetire
  PROVE  HandoverInv'
<1> USE DEF Gens
<1>0. Replacing /\ admin.old \in Gens /\ admin.old # published /\ swept \subseteq Gens
  BY DEF UpdateCancelRest, UpdateTransferred, UpdateRetire, Inv, LockInv, TypeOK, Replacing
<1>1. CASE UpdateCancelRest
  <2>1. "transferFull" \in AnswerKinds
    BY DEF AnswerKinds
  <2> QED
    BY <1>0, <1>1, <2>1, DrainHandover DEF UpdateCancelRest
<1>2. CASE UpdateTransferred
  <2>1. /\ admin'.pc = "retire" /\ admin'.old = admin.old /\ admin'.carry = admin.carry
        /\ UNCHANGED <<callVars, msgVars, queueVars, published, genCount, retired, shutdown>>
    BY <1>2 DEF UpdateTransferred, Inv, TypeOK
  <2>2. ExclusionInv' /\ BookInv'
    BY <1>0, <2>1 DEF HandoverInv, ExclusionInv, BookInv, Replacing, Updating, queueVars
  <2> QED
    BY <1>0, <2>1, <2>2, BooksHandover DEF callVars, queueVars, WorkersGone
<1>3. CASE UpdateRetire
  <2>1. /\ admin.pc = "retire" /\ admin'.pc = "none" /\ admin'.carry = admin.carry
        /\ retired' = retired \cup {admin.old}
        /\ UNCHANGED <<callVars, msgVars, queue, swept, worker, published, genCount, shutdown>>
    BY <1>3 DEF UpdateRetire, Inv, LockInv, NoOp
  <2>2. shutdown.pc = "none"
    BY <2>1 DEF HandoverInv, ExclusionInv, Updating
  <2>3. ExclusionInv' /\ BookInv'
    BY <1>0, <2>1, <2>2 DEF HandoverInv, ExclusionInv, BookInv, Replacing
  <2> QED
    BY <1>0, <2>1, <2>3, BooksHandover DEF callVars, WorkersGone
<1> QED
  BY <1>1, <1>2, <1>3

\* The cleanup of a retired generation: wait, sweep, Done.
LEMMA CleanupHandover == ASSUME Inv, HandoverInv, NEW g \in Gens, Cleanup(g) PROVE HandoverInv'
<1> USE DEF Gens
<1>1. CASE DrainOne(g, "closed") /\ UNCHANGED <<retired, swept>>
  <2>1. UNCHANGED <<callVars, closing, swept, worker, adminVars>> /\ "closed" \in AnswerKinds
    BY <1>1 DEF Cleanup, AnswerKinds, adminVars
  <2> QED
    BY <1>1, <2>1, DrainHandover
<1>2. CASE /\ queue[g] = << >> /\ swept' = swept \cup {g} /\ retired' = retired \ {g}
           /\ UNCHANGED <<queue, msgVars>>
  <2>1. /\ g \in retired /\ swept \subseteq Gens
        /\ UNCHANGED <<callVars, worker, published, genCount, admin, shutdown>>
    BY DEF Cleanup, Inv, TypeOK
  <2>2. ExclusionInv' /\ BookInv'
    BY <1>2, <2>1 DEF HandoverInv, ExclusionInv, BookInv, Replacing
  <2> QED
    BY <1>2, <2>1, <2>2, BooksHandover DEF callVars, WorkersGone
<1> QED
  BY <1>1, <1>2 DEF Cleanup

\* RemoveProvider: signal, wait, sweep, wait for the retired, forget.
LEMMA RemoveHandover ==
  ASSUME Inv, HandoverInv, RemoveBegin \/ RemoveSweep \/ RemoveFinish
  PROVE  HandoverInv'
<1> USE DEF Gens
<1>0. swept \subseteq Gens /\ published \in 0..MaxGen /\ published <= genCount /\ retired \subseteq Gens
  BY DEF Inv, TypeOK, GenInv
<1>1. CASE RemoveBegin
  <2>1. /\ admin'.pc = "removeWait" /\ admin'.carry = NoMsg /\ admin.carry = NoMsg
        /\ UNCHANGED <<callVars, msgVars, queue, swept, worker, published, genCount, retired, shutdown>>
    BY <1>1 DEF RemoveBegin, Inv, LockInv
  <2>2. ExclusionInv' /\ BookInv'
    BY <2>1 DEF HandoverInv, ExclusionInv, BookInv, Replacing, Updating
  <2> QED
    BY <1>0, <2>1, <2>2, BooksHandover DEF callVars, WorkersGone
<1>2. CASE RemoveSweep
  <2>0. admin.old \in Gens /\ admin.old = published /\ admin.pc = "removeWait"
    BY <1>0, <1>2 DEF RemoveSweep, Inv, LockInv
  <2>1. CASE DrainOne(admin.old, "closed") /\ UNCHANGED <<admin, swept>>
    <3>1. UNCHANGED <<callVars, closing, swept, worker, adminVars>> /\ "closed" \in AnswerKinds
      BY <1>2, <2>1 DEF RemoveSweep, AnswerKinds, adminVars
    <3> QED
      BY <2>0, <2>1, <3>1, DrainHandover
  <2>2. CASE /\ queue[admin.old] = << >> /\ swept' = swept \cup {admin.old}
             /\ admin' = [admin EXCEPT !.pc = "removeRetired"] /\ UNCHANGED <<queue, msgVars>>
    <3>1. /\ admin'.pc = "removeRetired" /\ admin'.carry = admin.carry
          /\ UNCHANGED <<callVars, worker, published, genCount, retired, shutdown>>
      BY <1>2, <2>2 DEF RemoveSweep, Inv, TypeOK
    <3>2. ExclusionInv'
      BY <3>1 DEF HandoverInv, ExclusionInv, Updating
    <3>3. BookInv'
      BY <1>0, <2>0, <2>2, <3>1 DEF HandoverInv, BookInv, Replacing
    <3> QED
      BY <1>0, <2>0, <2>2, <3>1, <3>2, <3>3, BooksHandover DEF callVars, WorkersGone
  <2> QED
    BY <1>2, <2>1, <2>2 DEF RemoveSweep
<1>3. CASE RemoveFinish
  <2>1. /\ admin'.pc = "none" /\ admin'.carry = NoMsg /\ admin.carry = NoMsg /\ retired = {}
        /\ UNCHANGED <<callVars, msgVars, queue, swept, worker, genCount, retired, shutdown>>
    BY <1>3 DEF RemoveFinish, NoOp, Inv, LockInv, queueVars
  <2>2. ExclusionInv' /\ BookInv'
    BY <2>1 DEF HandoverInv, ExclusionInv, BookInv, Replacing, Updating
  <2> QED
    BY <1>0, <2>1, <2>2, BooksHandover DEF callVars, WorkersGone
<1> QED
  BY <1>1, <1>2, <1>3

\* Shutdown: signal, wait for the published generation and the retired, sweep.
LEMMA ShutdownHandover ==
  ASSUME Inv, HandoverInv, ShutdownBegin \/ ShutdownStep
  PROVE  HandoverInv'
<1> USE DEF Gens
<1>0. /\ swept \subseteq Gens /\ published \in 0..MaxGen /\ published <= genCount
      /\ shutdown.gen \in 0..MaxGen /\ genCount \in Nat
  BY ConstantsAssumption DEF Inv, TypeOK, GenInv
<1>1. CASE ShutdownBegin \/ ShutdownRange \/ ShutdownWait \/ ShutdownWaitOld
  <2>1. /\ UNCHANGED <<callVars, msgVars, queue, swept, worker, published, genCount, retired, admin>>
        /\ shutdown.pc = "none" => admin.pc \notin Updating
        /\ shutdown'.gen \in {0, published, shutdown.gen}
        /\ shutdown'.pc \in {"sweep", "done"} => retired = {}
    BY <1>1 DEF ShutdownBegin, ShutdownRange, ShutdownWait, ShutdownWaitOld, Updating, queueVars,
       Inv, TypeOK
  <2>2. ExclusionInv'
    BY <2>1 DEF HandoverInv, ExclusionInv
  <2>3. BookInv'
    BY <1>0, <2>1 DEF HandoverInv, BookInv, Replacing
  <2> QED
    BY <1>0, <2>1, <2>2, <2>3, BooksHandover DEF callVars, WorkersGone
<1>2. CASE ShutdownSweep
  <2>1. CASE shutdown.gen # 0 /\ DrainOne(shutdown.gen, "closed") /\ UNCHANGED <<shutdown, swept>>
    <3>1. UNCHANGED <<callVars, closing, swept, worker, adminVars>> /\ "closed" \in AnswerKinds
      BY <1>2, <2>1 DEF ShutdownSweep, AnswerKinds, adminVars
    <3> QED
      BY <1>0, <2>1, <3>1, DrainHandover
  <2>2. CASE /\ shutdown' = [shutdown EXCEPT !.pc = "done"] /\ UNCHANGED <<queue, msgVars>>
             /\ \/ swept' = swept
                \/ /\ shutdown.gen # 0 /\ queue[shutdown.gen] = << >>
                   /\ swept' = swept \cup {shutdown.gen}
    <3>1. /\ shutdown'.pc = "done" /\ shutdown'.gen = shutdown.gen /\ shutdown.pc = "sweep"
          /\ UNCHANGED <<callVars, worker, published, genCount, retired, admin>>
      BY <1>2, <2>2 DEF ShutdownSweep, Inv, TypeOK
    <3>2. ExclusionInv'
      BY <3>1 DEF HandoverInv, ExclusionInv
    <3>3. BookInv'
      BY <1>0, <2>2, <3>1 DEF HandoverInv, ExclusionInv, BookInv, Replacing, Updating
    <3> QED
      BY <1>0, <2>2, <3>1, <3>2, <3>3, BooksHandover DEF callVars, WorkersGone
  <2> QED
    BY <1>2, <2>1, <2>2 DEF ShutdownSweep
<1> QED
  BY <1>1, <1>2 DEF ShutdownStep

-----------------------------------------------------------------------------
(* The theorems.                                                            *)

LEMMA HandoverInit == Init => HandoverInv
<1> SUFFICES ASSUME Init PROVE HandoverInv
  OBVIOUS
<1> QED
  BY DEF Init, HandoverInv, ExclusionInv, BookInv, WaitingCallIsTracked, OnlyLateCallsStranded,
     Replacing, NoOp, NotShutdown

LEMMA HandoverNext == Inv /\ HandoverInv /\ [Next]_vars => HandoverInv'
<1> SUFFICES ASSUME Inv, HandoverInv, [Next]_vars PROVE HandoverInv'
  OBVIOUS
<1>1. ASSUME NEW c \in Calls, CtxCancel(c) \/ CallStart(c) PROVE HandoverInv'
  BY <1>1, CallHandover, PrepareHandover DEF CallStart
<1>2. ASSUME NEW c \in Calls, CallStep(c) PROVE HandoverInv'
  BY <1>2, PreparedHandover, CallHandover, getChannelMessageHandover, CallSendHandover DEF CallStep
<1>3. ASSUME NEW x \in WorkerIds, WorkerStep(x) PROVE HandoverInv'
  BY <1>3, WorkerReceiveHandover, WorkerAnswerHandover, WorkerKeepsHandover,
     WorkerDrainHandover DEF WorkerStep
<1>4. ASSUME NEW g \in Gens, Cleanup(g) PROVE HandoverInv'
  BY <1>4, CleanupHandover
<1>5. CASE AdminStart
  BY <1>5, PrepareHandover, UpdateBeginHandover, RemoveHandover DEF AdminStart
<1>6. CASE AdminStep
  BY <1>6, PreparedHandover, UpdateTakeHandover, UpdatePutHandover, UpdateEndHandover,
     RemoveHandover DEF AdminStep
<1>7. CASE ShutdownBegin \/ ShutdownStep
  BY <1>7, ShutdownHandover
<1>8. CASE UNCHANGED vars
  <2>1. UNCHANGED <<callVars, msgVars, queueVars, adminVars>>
    BY <1>8 DEF vars
  <2>2. UNCHANGED <<msg, ctxDone, late, msgVars, queue, worker, swept, stage, admin.carry>>
    BY <2>1 DEF callVars, queueVars, adminVars
  <2>3. ExclusionInv' /\ BookInv'
    BY <2>1, <2>2, BookFrame DEF HandoverInv
  <2>4. swept' \subseteq Gens
    BY <2>2 DEF Inv, TypeOK
  <2> QED
    BY <2>2, <2>3, <2>4, BooksHandover DEF WorkersGone
<1> QED
  BY <1>1, <1>2, <1>3, <1>4, <1>5, <1>6, <1>7, <1>8 DEF Next

\* The books of the administrators and the messages of the calls stay together, in
\* every interleaving of calls, workers, updates, removals and Shutdown.
THEOREM HandoverInvariant == Spec => []HandoverInv
<1>1. Init => HandoverInv
  BY HandoverInit
<1>2. Inv /\ HandoverInv /\ [Next]_vars => HandoverInv'
  BY HandoverNext
<1> QED
  BY <1>1, <1>2, InvariantHolds, PTL DEF Spec

\* No message is lost between queues, workers, UpdateProvider's transfer and the
\* drain loops: a call that waits has its answer or somebody who will answer it.
THEOREM NoWaitingCallIsLost == Spec => []WaitingCallIsTracked
<1>1. HandoverInv => WaitingCallIsTracked
  BY DEF HandoverInv
<1> QED
  BY <1>1, HandoverInvariant, PTL

\* In a queue that was swept and has no workers, only calls that sent after the
\* sweep are left: Cleanup, RemoveProvider and Shutdown miss nothing older.
THEOREM SweepsMissOnlyLateCalls == Spec => []OnlyLateCallsStranded
<1>1. HandoverInv => OnlyLateCallsStranded
  BY DEF HandoverInv
<1> QED
  BY <1>1, HandoverInvariant, PTL

\* When Shutdown has returned, no generation but the published one has workers.
THEOREM ShutdownLeavesNoOldWorkers == Spec => []ShutdownWaitsForOld
<1>1. Inv /\ HandoverInv => ShutdownWaitsForOld
  <2> SUFFICES ASSUME Inv, HandoverInv, shutdown.pc = "done", NEW g \in Gens, g # published
               PROVE  WorkersGone(g)
    BY DEF ShutdownWaitsForOld
  <2>1. retired = {} /\ ~Replacing
    BY DEF HandoverInv, ExclusionInv, Updating, Replacing
  <2>2. genCount \in Gens
    BY DEF Inv, TypeOK
  <2>3. CASE g <= genCount
    BY <2>1, <2>2, <2>3 DEF Inv, GenInv, Gens
  <2>4. CASE g > genCount
    BY <2>4 DEF Inv, GenInv, WorkersGone, WorkerIds, Off
  <2> QED
    BY <2>2, <2>3, <2>4 DEF Gens
<1> QED
  BY <1>1, HandoverInvariant, InvariantHolds, PTL

=============================================================================
