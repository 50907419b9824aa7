------------------------ MODULE ProviderQueueProofs ------------------------
(***************************************************************************)
(* Proofs about ProviderQueue, for every number of calls, messages,        *)
(* workers, generations and every buffer size.                             *)
(***************************************************************************)
EXTENDS ProviderQueue, TLAPS

USE DEF Gens

-----------------------------------------------------------------------------
(* Facts about the data.                                                    *)

\* Receiving from a queue drops its first position.
LEMMA PopQueue ==
  ASSUME NEW q \in [Gens -> Seq(Msgs)], NEW g \in Gens, q[g] # << >>
  PROVE  LET r == [q EXCEPT ![g] = Tail(@)] IN
         /\ r \in [Gens -> Seq(Msgs)]
         /\ Len(q[g]) \in Nat /\ Len(q[g]) >= 1
         /\ Head(q[g]) = q[g][1]
         /\ Head(q[g]) \in Msgs
         /\ \A h \in Gens : h # g => r[h] = q[h]
         /\ Len(r[g]) = Len(q[g]) - 1
         /\ \A i \in 1..Len(r[g]) : r[g][i] = q[g][i + 1]
  OBVIOUS

\* Sending to a queue adds one position at its end.
LEMMA PushQueue ==
  ASSUME NEW q \in [Gens -> Seq(Msgs)], NEW g \in Gens, NEW m \in Msgs
  PROVE  LET r == [q EXCEPT ![g] = Append(@, m)] IN
         /\ r \in [Gens -> Seq(Msgs)]
         /\ Len(q[g]) \in Nat
         /\ \A h \in Gens : h # g => r[h] = q[h]
         /\ Len(r[g]) = Len(q[g]) + 1
         /\ r[g][Len(q[g]) + 1] = m
         /\ \A i \in 1..Len(q[g]) : r[g][i] = q[g][i]
  OBVIOUS

\* What a worker's record can look like.
LEMMA WorkerShape ==
  ASSUME NEW v \in WorkerStates
  PROVE  /\ v.pc \in {"off", "idle", "drain", "exited", "busy", "deliver"}
         /\ v.pc = "off" => v = Off
         /\ v.pc \in {"off", "idle", "drain", "exited"} => v.msg = NoMsg
         /\ v.pc \in {"busy", "deliver"} => v.msg \in Msgs
         /\ v.pc = "deliver" => v.out \in Answers
  BY DEF WorkerStates, Off, Idle, Drain, Exited, Busy, Deliver

\* Steps that leave queues, workers and UpdateProvider's hands alone.
LEMMA FlightFrame ==
  ASSUME UNCHANGED <<queue, worker, admin.carry>>
  PROVE  Flight' = Flight /\ Delivering' = Delivering /\ (SingleHolder => SingleHolder')
  BY DEF Flight, Delivering, SingleHolder, Positions

\* A message in flight belongs to a call that waits for it or gave up waiting.
LEMMA FlightOwner ==
  ASSUME Inv, NEW m \in Flight
  PROVE  /\ m \in Msgs /\ m \notin pool
         /\ callOf[m] \in Calls
         /\ msg[callOf[m]] = m
         /\ stage[callOf[m]] \in {"wait", "returned"}
         /\ response[m] = NoAnswer /\ errCh[m] = NoAnswer
         /\ hooks[callOf[m]] = 0
  BY DEF Inv, FlightInv, PoolInv, Flight

\* The parts of the invariant about calls and messages.
CoreInv == PoolInv /\ CallInv /\ FlightInv /\ ExecInv /\ ChannelInv

-----------------------------------------------------------------------------
\* The invariant holds initially.
LEMMA InvInit == Init => Inv
<1> SUFFICES ASSUME Init PROVE Inv
  OBVIOUS
<1> USE ConstantsAssumption DEF Init
<1>1. TypeOK
  BY SMTT(30) DEF TypeOK, Stages, NoAnswer, Off, Idle, Drain, Exited, WorkerStates,
     WorkerIds, NoOp, NotShutdown
<1>2. Flight = {}
  BY DEF Flight, Positions, Idle, Off, NoOp
<1>3. SingleHolder
  BY DEF SingleHolder, Positions, Idle, Off, NoOp, WorkerIds
<1>4. PoolInv /\ CallInv
  BY DEF PoolInv, CallInv, Holding, NoAnswer, ProviderOutcomes
<1>5. FlightInv /\ ExecInv
  BY <1>2 DEF FlightInv, ExecInv
<1>6. DeliverInv /\ ChannelInv
  BY DEF DeliverInv, ChannelInv, Idle, Off, NoAnswer
<1>7. LockInv /\ GenInv
  BY DEF LockInv, GenInv, WorkersGone, Replacing, NoOp, Off, Idle, WorkerIds
<1> QED
  BY <1>1, <1>3, <1>4, <1>5, <1>6, <1>7 DEF Inv

-----------------------------------------------------------------------------
(* Steps of callers.                                                        *)

\* A call returns a and gives its message back, nobody else holding it.
LEMMA ReleaseAndReturn ==
  ASSUME Inv, NEW c \in Calls, stage[c] \in Holding,
         NEW a \in Results, a.call = c,
         a.kind \in ProviderOutcomes => execs[c] = 1,
         a.kind \notin ProviderOutcomes => execs[c] = 0 \/ a.kind = "cancelled",
         msg[c] \notin Flight,
         Return(c, a), releaseChannelMessage(msg[c]),
         \/ hooks' = hooks
         \/ hooks[c] = 0 /\ hooks' = [hooks EXCEPT ![c] = @ + 1],
         UNCHANGED <<pq, msg, ctxDone, execs, late, queueVars, adminVars>>
  PROVE  Inv'
<1> DEFINE m == msg[c]
<1>0. /\ m \in Msgs /\ m \notin pool /\ callOf[m] = c /\ result[c] = NoAnswer
      /\ TypeOK
  BY DEF Inv, CallInv, Holding
<1>1. TypeOK'
  BY <1>0 DEF TypeOK, Stages, Return, releaseChannelMessage, queueVars, adminVars
<1>2. Flight' = Flight /\ Delivering' = Delivering /\ SingleHolder'
  BY FlightFrame DEF Inv, queueVars, adminVars
<1>3. \A n \in Flight : /\ n \in Msgs /\ n # m /\ n \notin pool
                        /\ callOf[n] \in Calls /\ callOf[n] # c
  BY <1>0, FlightOwner
<1>4. PoolInv'
  BY <1>0 DEF Inv, PoolInv, Holding, TypeOK, Return, releaseChannelMessage
<1>5. CallInv'
  <2> SUFFICES ASSUME NEW d \in Calls
               PROVE  CallInv!(d)'
    BY DEF CallInv
  <2>1. CASE d = c
    BY <1>0, <2>1 DEF Inv, CallInv, Holding, TypeOK, Return, NoAnswer, Results, ProviderOutcomes, AnswerKinds, LocalKinds
  <2>2. CASE d # c
    <3>1. stage[d] \in Holding => msg[d] # m
      BY <1>0, <2>2 DEF Inv, CallInv
    <3> QED
      BY <1>0, <2>2, <3>1 DEF Inv, CallInv, Holding, TypeOK, Return, releaseChannelMessage
  <2> QED
    BY <2>1, <2>2
<1>6. FlightInv' /\ ExecInv'
  BY <1>0, <1>2, <1>3 DEF Inv, FlightInv, ExecInv, TypeOK, Return, releaseChannelMessage
<1>7. DeliverInv'
  BY <1>0, <1>3, WorkerShape DEF Inv, DeliverInv, TypeOK, Flight, releaseChannelMessage, queueVars
<1>8. ChannelInv'
  BY <1>0 DEF Inv, ChannelInv, PoolInv, TypeOK, Holding, Return, releaseChannelMessage
<1>9. LockInv' /\ GenInv'
  BY <1>0 DEF Inv, TypeOK, Return, LockInv, GenInv, WorkersGone, Replacing, queueVars, adminVars
<1> QED
  BY <1>1, <1>2, <1>4, <1>5, <1>6, <1>7, <1>8, <1>9 DEF Inv

\* A call moves on, or returns without a message, touching neither messages nor
\* queues.
LEMMA QuietCallStep ==
  ASSUME Inv, NEW c \in Calls, NEW s \in Stages,
         stage' = [stage EXCEPT ![c] = s],
         \/ stage[c] \in {"check", "reroute", "send"} /\ s \in {"reroute", "send", "blocked"}
         \/ stage[c] \in {"idle", "preparing", "hooks"} /\ s \in {"hooks", "preparing", "returned"}
         \/ stage[c] = "wait" /\ s = "returned",
         NEW k \in LocalKinds,
         IF s = "returned" THEN result' = [result EXCEPT ![c] = Answer(c, k)] ELSE UNCHANGED result,
         stage[c] = "wait" => k = "cancelled",
         pq' \in [Calls -> 0..MaxGen],
         \A d \in Calls : d # c => pq'[d] = pq[d],
         s \in {"hooks", "reroute", "send", "blocked"} => pq'[c] \in Gens,
         \/ hooks' = hooks
         \/ stage[c] = "hooks" /\ s = "returned" /\ hooks' = [hooks EXCEPT ![c] = @ + 1],
         UNCHANGED <<msg, ctxDone, execs, late, msgVars, queue, admin.carry>>,
         UNCHANGED worker \/ (SingleHolder' /\ Flight' = Flight /\ Delivering' = Delivering /\ DeliverInv')
  PROVE  /\ CoreInv' /\ SingleHolder' /\ DeliverInv'
         /\ stage' \in [Calls -> Stages]
         /\ result' \in [Calls -> Results \cup {NoAnswer}]
         /\ hooks' \in [Calls -> Nat]
<1>0. TypeOK
  BY DEF Inv
<1>1. Answer(c, k) \in Results
  BY DEF Answer, Results
<1>2. Flight' = Flight /\ Delivering' = Delivering /\ SingleHolder'
  BY FlightFrame DEF Inv
<1>3. stage' \in [Calls -> Stages] /\ hooks' \in [Calls -> Nat]
  <2>1. stage \in [Calls -> Stages] /\ hooks \in [Calls -> Nat]
    BY <1>0 DEF TypeOK
  <2>2. stage' \in [Calls -> Stages]
    BY <2>1
  <2>3. CASE hooks' = hooks
    BY <2>1, <2>2, <2>3
  <2>4. CASE hooks' = [hooks EXCEPT ![c] = @ + 1]
    BY <2>1, <2>2, <2>4
  <2> QED
    BY <2>3, <2>4
<1>c. result' \in [Calls -> Results \cup {NoAnswer}]
  BY <1>0, <1>1 DEF TypeOK
<1>a. \A d \in Calls : d # c => stage'[d] = stage[d] /\ result'[d] = result[d] /\ hooks'[d] = hooks[d]
  BY <1>0 DEF TypeOK
<1>b. /\ stage'[c] = s
      /\ s = "returned" => result'[c] = Answer(c, k)
      /\ s # "returned" => result'[c] = result[c]
      /\ hooks'[c] = hooks[c] \/ (stage[c] = "hooks" /\ s = "returned" /\ hooks'[c] = hooks[c] + 1)
  BY <1>0 DEF TypeOK
<1>4. PoolInv'
  BY <1>0 DEF Inv, PoolInv, Holding, TypeOK, msgVars
<1>5. CallInv'
  <2> SUFFICES ASSUME NEW d \in Calls
               PROVE  CallInv!(d)'
    BY DEF CallInv
  <2>1. CASE d = c
    <3>1. CallInv!(c) /\ execs' = execs /\ msg' = msg /\ callOf' = callOf /\ pool' = pool
      BY DEF Inv, CallInv, msgVars
    <3>2. CASE s = "returned"
      BY <1>b, <2>1, <3>1, <3>2 DEF Holding, NoAnswer, Answer, ProviderOutcomes, LocalKinds
    <3>3. CASE s # "returned"
      BY <1>b, <2>1, <3>1, <3>3 DEF Holding
    <3> QED
      BY <3>2, <3>3
  <2>2. CASE d # c
    BY <1>0, <1>a, <2>2 DEF Inv, CallInv, Holding, TypeOK, msgVars
  <2> QED
    BY <2>1, <2>2
<1>6. FlightInv'
  <2> SUFFICES ASSUME NEW m \in Flight
               PROVE  FlightInv!(m)'
    BY <1>2 DEF FlightInv
  <2>0. callOf' = callOf /\ pool' = pool /\ response' = response /\ errCh' = errCh /\ FlightInv!(m)
    BY DEF msgVars, Inv, FlightInv
  <2>1. CASE callOf[m] = c
    BY <1>b, <2>0, <2>1 DEF Answer
  <2>2. CASE callOf[m] # c
    BY <1>a, <2>0, <2>2, FlightOwner
  <2> QED
    BY <2>1, <2>2
<1>7. ExecInv'
  BY <1>2 DEF Inv, ExecInv, msgVars
<1>8. ChannelInv'
  <2> SUFFICES ASSUME NEW m \in Msgs
               PROVE  ChannelInv!(m)'
    BY DEF ChannelInv
  <2>1. CASE callOf[m] = c
    BY <1>0, <2>1 DEF Inv, ChannelInv, TypeOK, msgVars, Answer
  <2>2. CASE callOf[m] # c
    BY <1>0, <2>2 DEF Inv, ChannelInv, TypeOK, msgVars, PoolInv
  <2> QED
    BY <2>1, <2>2
<1>9. DeliverInv'
  BY DEF Inv, DeliverInv, msgVars
<1> QED
  BY <1>2, <1>3, <1>c, <1>4, <1>5, <1>6, <1>7, <1>8, <1>9 DEF CoreInv

\* What is in flight depends on who holds what only.
LEMMA SameHands ==
  ASSUME UNCHANGED <<queue, admin.carry>>,
         \A x \in WorkerIds : worker'[x].msg = worker[x].msg
  PROVE  Flight' = Flight /\ (SingleHolder => SingleHolder')
<1>1. Flight' = Flight
  BY DEF Flight, Positions
<1>2. ASSUME SingleHolder PROVE SingleHolder'
  BY <1>2 DEF SingleHolder, Positions
<1> QED
  BY <1>1, <1>2

\* Starting the workers of a generation that has none puts no message in flight.
LEMMA StartWorkersFlight ==
  ASSUME Inv, NEW g \in Gens, \A w \in Workers : worker[<<g, w>>] = Off,
         StartWorkers(g), UNCHANGED <<queue, admin.carry, callOf>>
  PROVE  /\ worker' \in [WorkerIds -> WorkerStates]
         /\ SingleHolder' /\ Flight' = Flight /\ Delivering' = Delivering /\ DeliverInv'
<1>1. \A x \in WorkerIds : worker'[x].msg = worker[x].msg
  BY DEF StartWorkers, WorkerIds, Off, Idle
<1>2. \A x \in WorkerIds :
        worker'[x] = worker[x] \/ (worker'[x].pc # "deliver" /\ worker[x].pc # "deliver")
  BY DEF StartWorkers, WorkerIds, Off, Idle
<1>3. worker' \in [WorkerIds -> WorkerStates]
  BY SMTT(20) DEF Inv, TypeOK, StartWorkers, WorkerStates
<1>4. SingleHolder' /\ Flight' = Flight
  BY <1>1, SameHands DEF Inv
<1>5. Delivering' = Delivering
  BY <1>2 DEF Delivering
<1>6. DeliverInv'
  BY <1>2 DEF Inv, DeliverInv
<1> QED
  BY <1>3, <1>4, <1>5, <1>6

\* A call that has not handed its message over is its only holder.
LEMMA UnsentNotInFlight ==
  ASSUME Inv, NEW c \in Calls, stage[c] \in {"check", "reroute", "send", "blocked"}
  PROVE  msg[c] \notin Flight /\ execs[c] = 0
  BY DEF Inv, FlightInv, CallInv, Holding

\* A cancellation, and the ways a call finds or fails to find its queue.
LEMMA CallStartInv == ASSUME Inv, NEW c \in Calls, CtxCancel(c) \/ CallStart(c) PROVE Inv'
<1> USE DEF callVars, msgVars, queueVars, adminVars
<1>1. CASE CtxCancel(c)
  <2> USE <1>1 DEF CtxCancel
  <2>1. Flight' = Flight /\ Delivering' = Delivering /\ SingleHolder'
    BY FlightFrame DEF Inv
  <2>2. TypeOK'
    BY DEF Inv, TypeOK
  <2>3. CoreInv' /\ DeliverInv'
    BY <2>1 DEF Inv, CoreInv, PoolInv, CallInv, FlightInv, ExecInv, ChannelInv, DeliverInv
  <2>4. LockInv' /\ GenInv'
    BY DEF Inv, LockInv, GenInv, WorkersGone, Replacing
  <2> QED
    BY <2>1, <2>2, <2>3, <2>4 DEF Inv, CoreInv
<1>2. CASE CallGetQueue(c)
  <2> USE <1>2 DEF CallGetQueue
  <2>0. published \in Gens /\ TypeOK
    BY SMTT(20) DEF Inv, TypeOK
  <2>1. "hooks" \in Stages /\ "cancelled" \in LocalKinds
    BY DEF Stages, LocalKinds
  <2>2. /\ pq' \in [Calls -> 0..MaxGen] /\ pq'[c] \in Gens
        /\ \A d \in Calls : d # c => pq'[d] = pq[d]
    BY <2>0 DEF TypeOK
  <2>3. /\ CoreInv' /\ SingleHolder' /\ DeliverInv' /\ stage' \in [Calls -> Stages]
    BY <2>1, <2>2, QuietCallStep
  <2>4. TypeOK'
    BY <2>0, <2>2, <2>3 DEF TypeOK
  <2>5. LockInv' /\ GenInv'
    BY <2>0 DEF Inv, TypeOK, LockInv, GenInv, WorkersGone, Replacing
  <2> QED
    BY <2>3, <2>4, <2>5 DEF Inv, CoreInv
<1>3. CASE CallNoProvider(c)
  <2> USE <1>3 DEF CallNoProvider, Return
  <2>0. TypeOK
    BY DEF Inv
  <2>1. "returned" \in Stages /\ "noProvider" \in LocalKinds
    BY DEF Stages, LocalKinds
  <2>3. /\ CoreInv' /\ SingleHolder' /\ DeliverInv' /\ stage' \in [Calls -> Stages]
        /\ result' \in [Calls -> Results \cup {NoAnswer}]
    BY <2>0, <2>1, QuietCallStep DEF TypeOK
  <2>4. TypeOK'
    BY <2>0, <2>3 DEF TypeOK
  <2>5. LockInv' /\ GenInv'
    BY <2>0 DEF Inv, TypeOK, LockInv, GenInv, WorkersGone, Replacing
  <2> QED
    BY <2>3, <2>4, <2>5 DEF Inv, CoreInv
<1>4. CASE CallLazyCreate(c)
  <2> USE <1>4 DEF CallLazyCreate, PrepareStore
  <2>0. TypeOK /\ genCount + 1 \in Gens
    <3>1. TypeOK /\ genCount \in Gens /\ genCount < MaxGen /\ MaxGen \in Nat
      BY ConstantsAssumption DEF Inv, TypeOK
    <3> QED
      BY <3>1
  <2>1. "preparing" \in Stages /\ "cancelled" \in LocalKinds
    BY DEF Stages, LocalKinds
  <2>2. pq' \in [Calls -> 0..MaxGen]
    BY <2>0 DEF TypeOK
  <2>3. /\ CoreInv' /\ SingleHolder' /\ DeliverInv' /\ stage' \in [Calls -> Stages]
    BY <2>1, <2>2, QuietCallStep
  <2>4. TypeOK'
    BY SMTT(20), <2>0, <2>3 DEF TypeOK
  <2>5. admin.pc = "none" /\ \A d \in Calls : stage[d] # "preparing"
    BY DEF Inv, LockInv
  <2>6. \A w \in Workers : worker[<<genCount + 1, w>>] = Off
    BY <2>0 DEF Inv, GenInv, WorkerIds, TypeOK
  <2>7. LockInv'
    BY <2>0, <2>5, <2>6 DEF Inv, TypeOK, LockInv, Replacing
  <2>a. \A x \in WorkerIds : x[1] > genCount + 1 => worker[x] = Off
    BY <2>0 DEF Inv, TypeOK, GenInv, WorkerIds
  <2>b. \A g \in 1..genCount : WorkersGone(g)
    BY <2>0, <2>5 DEF Inv, GenInv, Replacing, TypeOK
  <2>8. GenInv'
    BY <2>0, <2>a, <2>b DEF TypeOK, GenInv, WorkersGone
  <2> QED
    BY <2>3, <2>4, <2>7, <2>8 DEF Inv, CoreInv
<1> QED
  BY <1>1, <1>2, <1>3, <1>4 DEF CallStart

\* Lazy creation ends: the workers start, or the provider could not be built.
LEMMA CallPreparedInv == ASSUME Inv, NEW c \in Calls, CallPrepared(c) PROVE Inv'
<1> USE DEF CallPrepared
<1>0. /\ TypeOK /\ lock = "call" /\ published \in Gens /\ admin.pc = "none"
      /\ \A w \in Workers : worker[<<published, w>>] = Off
      /\ \A d \in Calls : stage[d] = "preparing" => d = c
  BY SMTT(20) DEF Inv, LockInv, TypeOK
<1>1. CASE /\ StartWorkers(published)
           /\ pq' = [pq EXCEPT ![c] = published]
           /\ stage' = [stage EXCEPT ![c] = "hooks"]
           /\ UNCHANGED result
  <2>1. /\ worker' \in [WorkerIds -> WorkerStates]
        /\ SingleHolder' /\ Flight' = Flight /\ Delivering' = Delivering /\ DeliverInv'
    BY <1>0, <1>1, StartWorkersFlight DEF msgVars
  <2>2. /\ pq' \in [Calls -> 0..MaxGen] /\ pq'[c] \in Gens
        /\ \A d \in Calls : d # c => pq'[d] = pq[d]
    BY <1>0, <1>1 DEF TypeOK
  <2>3. "hooks" \in Stages /\ "cancelled" \in LocalKinds
    BY DEF Stages, LocalKinds
  <2>4. /\ CoreInv' /\ stage' \in [Calls -> Stages]
    BY ZenonT(30), <1>1, <2>1, <2>2, <2>3, QuietCallStep
  <2>5. TypeOK'
    BY <1>0, <1>1, <2>1, <2>2, <2>4 DEF TypeOK, msgVars
  <2>6. LockInv'
    BY <1>0, <1>1 DEF Inv, TypeOK, LockInv, Replacing
  <2>7. \A x \in WorkerIds : x[1] # published => worker'[x] = worker[x]
    BY <1>1 DEF StartWorkers
  <2>8. \A g \in Gens : g # published => WorkersGone(g)' = WorkersGone(g)
    BY <2>7 DEF WorkersGone, WorkerIds
  <2>9. GenInv'
    <3>1. GenInv /\ genCount \in Gens /\ published \in Gens /\ ~Replacing
      BY <1>0 DEF Inv, TypeOK, Replacing
    <3>2. \A x \in WorkerIds : x[1] > genCount => worker'[x] = Off
      BY <2>7, <3>1 DEF GenInv, WorkerIds
    <3>3. \A g \in 1..genCount : g \in Gens
      BY <3>1, ConstantsAssumption
    <3> QED
      BY <2>8, <3>1, <3>2, <3>3 DEF GenInv
  <2> QED
    BY <2>1, <2>4, <2>5, <2>6, <2>9 DEF Inv, CoreInv
<1>2. CASE /\ Return(c, Answer(c, "noProvider"))
           /\ UNCHANGED <<pq, worker>>
  <2>1. "returned" \in Stages /\ "noProvider" \in LocalKinds
    BY DEF Stages, LocalKinds
  <2>2. pq' \in [Calls -> 0..MaxGen]
    BY <1>0, <1>2 DEF TypeOK
  <2>3. /\ CoreInv' /\ SingleHolder' /\ DeliverInv' /\ stage' \in [Calls -> Stages]
        /\ result' \in [Calls -> Results \cup {NoAnswer}]
    BY ZenonT(30), <1>2, <2>1, <2>2, QuietCallStep DEF Return
  <2>4. TypeOK'
    BY <1>0, <1>2, <2>3 DEF TypeOK, msgVars
  <2>5. LockInv'
    BY <1>0, <1>2 DEF Inv, TypeOK, LockInv, Replacing, Return, WorkersGone
  <2>6. GenInv'
    BY <1>2 DEF Inv, GenInv, Replacing, WorkersGone
  <2> QED
    BY <2>3, <2>4, <2>5, <2>6 DEF Inv, CoreInv
<1> QED
  BY <1>1, <1>2

\* A call ends by itself: short-circuited, without a request, or abandoned.
LEMMA CallAloneInv ==
  ASSUME Inv, NEW c \in Calls, CallShortCircuit(c) \/ CallNoRequest(c) \/ CallAbandon(c)
  PROVE  Inv'
<1>0. TypeOK /\ "returned" \in Stages /\ {"shortCircuit", "noRequest", "cancelled"} \subseteq LocalKinds
  BY DEF Inv, Stages, LocalKinds
<1>1. /\ CoreInv' /\ SingleHolder' /\ DeliverInv' /\ stage' \in [Calls -> Stages]
      /\ result' \in [Calls -> Results \cup {NoAnswer}] /\ hooks' \in [Calls -> Nat]
  <2>0. pq \in [Calls -> 0..MaxGen]
    BY <1>0 DEF TypeOK
  <2>1. CASE CallShortCircuit(c)
    BY <1>0, <2>0, <2>1, QuietCallStep DEF CallShortCircuit, Return, queueVars, adminVars
  <2>2. CASE CallAbandon(c)
    BY <1>0, <2>0, <2>2, QuietCallStep DEF CallAbandon, Return, queueVars, adminVars
  <2>3. CASE CallNoRequest(c)
    BY <1>0, <2>0, <2>3, QuietCallStep DEF CallNoRequest, Return, queueVars, adminVars
  <2> QED
    BY <2>1, <2>2, <2>3
<1>2. UNCHANGED <<pq, msg, ctxDone, execs, late, msgVars, queueVars, adminVars>>
  BY DEF CallShortCircuit, CallNoRequest, CallAbandon
<1>3. TypeOK'
  BY <1>0, <1>1, <1>2 DEF TypeOK, msgVars, queueVars, adminVars
<1>4. stage' = [stage EXCEPT ![c] = "returned"]
  BY DEF CallShortCircuit, CallNoRequest, CallAbandon, Return
<1>5. LockInv' /\ GenInv'
  BY <1>0, <1>2, <1>4 DEF Inv, TypeOK, LockInv, GenInv, WorkersGone, Replacing, queueVars, adminVars
<1> QED
  BY <1>1, <1>3, <1>5 DEF Inv, CoreInv

\* A call takes a message out of the pool.
LEMMA getChannelMessageInv == ASSUME Inv, NEW c \in Calls, getChannelMessage(c) PROVE Inv'
<1>0. TypeOK
  BY DEF Inv
<1>1. PICK m \in pool :
        /\ pool' = pool \ {m}
        /\ callOf' = [callOf EXCEPT ![m] = c]
        /\ response' = [response EXCEPT ![m] = NoAnswer]
        /\ errCh' = [errCh EXCEPT ![m] = NoAnswer]
        /\ msg' = [msg EXCEPT ![c] = m]
  BY DEF getChannelMessage
<1>2. /\ stage[c] = "hooks" /\ stage' = [stage EXCEPT ![c] = "check"]
      /\ UNCHANGED <<pq, ctxDone, result, hooks, execs, late, queueVars, adminVars>>
  BY DEF getChannelMessage
<1>3. m \in Msgs /\ m \notin Flight
  BY <1>0 DEF Inv, TypeOK, FlightInv
<1>4. TypeOK'
  BY <1>0, <1>1, <1>2, <1>3 DEF TypeOK, Stages, queueVars, adminVars
<1>5. Flight' = Flight /\ Delivering' = Delivering /\ SingleHolder'
  BY <1>2, FlightFrame DEF Inv, queueVars, adminVars
<1>6. \A n \in Msgs \ pool : n # m /\ callOf[n] # c /\ callOf[n] \in Calls
  BY <1>2, <1>3 DEF Inv, PoolInv, Holding
<1>7. PoolInv'
  BY <1>0, <1>1, <1>2, <1>3, <1>6 DEF Inv, PoolInv, TypeOK, Holding
<1>8. CallInv'
  <2> SUFFICES ASSUME NEW d \in Calls PROVE CallInv!(d)'
    BY DEF CallInv
  <2>1. CallInv!(d)
    BY DEF Inv, CallInv
  <2>2. CASE d = c
    BY <1>0, <1>1, <1>2, <1>3, <2>1, <2>2 DEF TypeOK, Holding
  <2>3. CASE d # c
    BY <1>0, <1>1, <1>2, <1>3, <2>1, <2>3 DEF TypeOK, Holding
  <2> QED
    BY <2>2, <2>3
<1>9. FlightInv' /\ ExecInv'
  BY SMTT(20), <1>0, <1>1, <1>2, <1>3, <1>5, <1>6, FlightOwner DEF Inv, FlightInv, ExecInv, TypeOK
<1>10. DeliverInv'
  BY <1>0, <1>1, <1>2, <1>3, WorkerShape DEF Inv, DeliverInv, TypeOK, Flight, queueVars
<1>11. ChannelInv'
  BY <1>0, <1>1, <1>2, <1>3, <1>6 DEF Inv, ChannelInv, PoolInv, TypeOK
<1>12. LockInv' /\ GenInv'
  BY <1>0, <1>2 DEF Inv, TypeOK, LockInv, GenInv, WorkersGone, Replacing, queueVars, adminVars
<1> QED
  BY <1>4, <1>5, <1>7, <1>8, <1>9, <1>10, <1>11, <1>12 DEF Inv

\* A call refuses itself, before it handed its message over.
LEMMA RefuseInv ==
  ASSUME Inv, NEW c \in Calls, stage[c] \in {"check", "reroute", "send", "blocked"},
         NEW k \in LocalKinds, Return(c, Answer(c, k)), releaseChannelMessage(msg[c]),
         UNCHANGED <<pq, msg, ctxDone, hooks, execs, late, queueVars, adminVars>>
  PROVE  Inv'
<1>1. /\ Answer(c, k) \in Results /\ Answer(c, k).call = c
      /\ Answer(c, k).kind \notin ProviderOutcomes
  BY DEF Answer, Results, LocalKinds, ProviderOutcomes
<1>2. msg[c] \notin Flight /\ execs[c] = 0 /\ stage[c] \in Holding
  BY UnsentNotInFlight DEF Holding
<1> QED
  BY <1>1, <1>2, ReleaseAndReturn

\* A call goes on towards its send with another stage or another queue.
LEMMA AdvanceInv ==
  ASSUME Inv, NEW c \in Calls, stage[c] \in {"check", "reroute", "send"},
         NEW s \in {"reroute", "send", "blocked"}, NEW g \in Gens,
         stage' = [stage EXCEPT ![c] = s], pq' = [pq EXCEPT ![c] = g],
         UNCHANGED <<result, msgVars, msg, ctxDone, hooks, execs, late, queueVars, adminVars>>
  PROVE  Inv'
<1>0. TypeOK /\ s \in Stages /\ "cancelled" \in LocalKinds
  BY DEF Inv, Stages, LocalKinds
<1>1. /\ pq' \in [Calls -> 0..MaxGen] /\ pq'[c] \in Gens
      /\ \A d \in Calls : d # c => pq'[d] = pq[d]
  BY <1>0 DEF TypeOK
<1>2. /\ CoreInv' /\ SingleHolder' /\ DeliverInv' /\ stage' \in [Calls -> Stages]
  BY <1>0, <1>1, QuietCallStep DEF queueVars, adminVars
<1>3. TypeOK'
  BY <1>0, <1>1, <1>2 DEF TypeOK, msgVars, queueVars, adminVars
<1>4. LockInv' /\ GenInv'
  BY <1>0 DEF Inv, TypeOK, LockInv, GenInv, WorkersGone, Replacing, queueVars, adminVars
<1> QED
  BY <1>2, <1>3, <1>4 DEF Inv, CoreInv

\* The steps of a call up to its send that do not send.
LEMMA CallBeforeSendInv ==
  ASSUME Inv, NEW c \in Calls, CallCheck(c) \/ CallReroute(c) \/ CallGiveUp(c) \/ CallQueueFull(c)
  PROVE  Inv'
<1>0. /\ {"shuttingDown", "cancelled", "dropped"} \subseteq LocalKinds
      /\ stage[c] \in {"check", "reroute", "send", "blocked"} /\ pq \in [Calls -> 0..MaxGen]
      /\ pq[c] \in Gens /\ published \in 0..MaxGen
  BY DEF LocalKinds, CallCheck, CallReroute, CallGiveUp, CallQueueFull, Inv, TypeOK,
     CallInv, Holding
<1>1. pq = [pq EXCEPT ![c] = pq[c]]
  BY <1>0
<1>2. CASE CallCheck(c)
  <2>1. CASE /\ pq[c] \notin closing /\ stage' = [stage EXCEPT ![c] = "send"]
             /\ UNCHANGED <<pq, result, msgVars>>
    BY <1>0, <1>1, <1>2, <2>1, AdvanceInv DEF CallCheck
  <2>2. CASE /\ published \notin {0, pq[c]} /\ pq' = [pq EXCEPT ![c] = published]
             /\ stage' = [stage EXCEPT ![c] = "reroute"]
             /\ UNCHANGED <<result, msgVars>>
    <3>1. published \in Gens
      BY <1>0, <2>2
    <3> QED
      BY <1>0, <1>2, <2>2, <3>1, AdvanceInv DEF CallCheck
  <2>3. CASE /\ releaseChannelMessage(msg[c]) /\ Return(c, Answer(c, "shuttingDown"))
             /\ UNCHANGED pq
    BY <1>0, <1>2, <2>3, RefuseInv DEF CallCheck
  <2> QED
    BY <1>2, <2>1, <2>2, <2>3 DEF CallCheck
<1>3. CASE CallGiveUp(c)
  BY <1>0, <1>3, RefuseInv DEF CallGiveUp
<1>4. CASE CallQueueFull(c)
  <2>1. CASE releaseChannelMessage(msg[c]) /\ Return(c, Answer(c, "dropped"))
    BY <1>0, <1>4, <2>1, RefuseInv DEF CallQueueFull
  <2>2. CASE /\ stage' = [stage EXCEPT ![c] = "blocked"]
             /\ UNCHANGED <<result, msgVars>>
    BY <1>0, <1>1, <1>4, <2>2, AdvanceInv DEF CallQueueFull
  <2> QED
    BY <1>4, <2>1, <2>2 DEF CallQueueFull
<1>5. CASE CallReroute(c)
  <2>1. CASE stage' = [stage EXCEPT ![c] = "send"] /\ UNCHANGED <<result, msgVars>>
    BY <1>0, <1>1, <1>5, <2>1, AdvanceInv DEF CallReroute
  <2>2. CASE releaseChannelMessage(msg[c]) /\ Return(c, Answer(c, "shuttingDown"))
    BY <1>0, <1>5, <2>2, RefuseInv DEF CallReroute
  <2> QED
    BY <1>5, <2>1, <2>2 DEF CallReroute
<1> QED
  BY <1>2, <1>3, <1>4, <1>5

\* A call takes its answer and gives its message back.
LEMMA CallReceiveInv == ASSUME Inv, NEW c \in Calls, CallReceive(c) PROVE Inv'
<1> DEFINE m == msg[c]
<1>0. /\ m \in Msgs /\ m \notin pool /\ callOf[m] = c
      /\ stage[c] = "wait" /\ stage[c] \in Holding
      /\ TypeOK
  BY DEF Inv, CallInv, CallReceive, Holding
<1>1. hooks' = hooks \/ hooks' = [hooks EXCEPT ![c] = @ + 1]
  BY DEF CallReceive
<1>2. /\ releaseChannelMessage(m)
      /\ UNCHANGED <<pq, msg, ctxDone, execs, late, queueVars, adminVars>>
  BY DEF CallReceive
<1>3. CASE response[m] # NoAnswer /\ Return(c, response[m])
  <2>1. m \notin Flight
    BY <1>3 DEF Inv, FlightInv
  <2>2. response[m] = Answer(c, "response") /\ execs[c] = 1 /\ hooks[c] = 0
    BY <1>0, <1>3 DEF Inv, ChannelInv
  <2>3. /\ response[m] \in Results /\ response[m].call = c
        /\ response[m].kind \in ProviderOutcomes
    BY <2>2 DEF Answer, Results, AnswerKinds, ProviderOutcomes
  <2> QED
    BY <1>0, <1>1, <1>2, <1>3, <2>1, <2>2, <2>3, ReleaseAndReturn
<1>4. CASE errCh[m] # NoAnswer /\ Return(c, errCh[m])
  <2>1. m \notin Flight
    BY <1>4 DEF Inv, FlightInv
  <2>2. errCh[m] \in Answers
    BY <1>0, <1>4 DEF TypeOK
  <2>3. /\ errCh[m].call = c /\ hooks[c] = 0
        /\ errCh[m].kind \in ProviderOutcomes => execs[c] = 1
        /\ errCh[m].kind \notin ProviderOutcomes => execs[c] = 0
    BY <1>0, <1>4 DEF Inv, ChannelInv, ProviderOutcomes
  <2>4. errCh[m] \in Results
    BY <2>2 DEF Answers, Results
  <2> QED
    BY <1>0, <1>1, <1>2, <1>4, <2>1, <2>3, <2>4, ReleaseAndReturn
<1> QED
  BY <1>3, <1>4 DEF CallReceive

\* A call hands its message over.
LEMMA CallSendInv == ASSUME Inv, NEW c \in Calls, CallSend(c) PROVE Inv'
<1> DEFINE g == pq[c]
<1> DEFINE m == msg[c]
<1>0. /\ TypeOK /\ g \in Gens /\ m \in Msgs /\ m \notin pool /\ callOf[m] = c
      /\ m \notin Flight /\ execs[c] = 0 /\ hooks[c] = 0 /\ result[c] = NoAnswer
      /\ stage[c] \in {"send", "blocked"}
  BY UnsentNotInFlight DEF CallSend, Inv, CallInv, Holding
<1>1. /\ queue' = [queue EXCEPT ![g] = Append(@, m)]
      /\ stage' = [stage EXCEPT ![c] = "wait"]
      /\ late' \subseteq Calls
      /\ UNCHANGED <<pq, msg, ctxDone, result, hooks, execs, msgVars, closing, swept,
                     worker, adminVars>>
  BY <1>0 DEF CallSend, TypeOK
<1>2. /\ queue' \in [Gens -> Seq(Msgs)]
      /\ Len(queue[g]) \in Nat
      /\ \A h \in Gens : h # g => queue'[h] = queue[h]
      /\ Len(queue'[g]) = Len(queue[g]) + 1
      /\ queue'[g][Len(queue[g]) + 1] = m
      /\ \A i \in 1..Len(queue[g]) : queue'[g][i] = queue[g][i]
  BY <1>0, <1>1, PushQueue DEF TypeOK
<1>3. TypeOK'
  BY <1>0, <1>1, <1>2 DEF TypeOK, Stages, msgVars, adminVars
<1>4. response[m] = NoAnswer /\ errCh[m] = NoAnswer
  BY <1>0 DEF Inv, ChannelInv
<1>5. /\ SingleHolder' /\ Flight' = Flight \cup {m}
      /\ Delivering' = Delivering /\ m \notin Delivering
  <2>1. /\ \A h \in Gens : \A i \in Positions(h) : queue[h][i] # m
        /\ \A x \in WorkerIds : worker[x].msg # m
        /\ admin.carry # m
    BY <1>0 DEF Flight
  <2>2. \A h \in Gens : \A i \in 1..Len(queue'[h]) :
          \/ i \in 1..Len(queue[h]) /\ queue'[h][i] = queue[h][i]
          \/ h = g /\ i = Len(queue[g]) + 1 /\ queue'[h][i] = m
    BY <1>0, <1>2
  <2>3. SingleHolder'
    BY SMTT(20), <1>1, <2>1, <2>2 DEF Inv, SingleHolder, Positions, adminVars
  <2>4. Flight' \subseteq Flight \cup {m}
    BY <1>1, <2>2 DEF Flight, Positions, adminVars
  <2>5. \A h \in Gens : \A i \in 1..Len(queue[h]) :
           i \in 1..Len(queue'[h]) /\ queue'[h][i] = queue[h][i]
    BY SMTT(20), <1>0, <1>2
  <2>6. Flight \subseteq Flight'
    BY <1>1, <2>5 DEF Flight, Positions, adminVars
  <2>7. m \in Flight'
    BY <1>0, <1>2 DEF Flight, Positions
  <2>8. Delivering' = Delivering /\ m \notin Delivering
    BY <1>1, <2>1 DEF Delivering
  <2> QED
    BY <2>3, <2>4, <2>6, <2>7, <2>8
<1>6. PoolInv'
  BY <1>0, <1>1 DEF Inv, PoolInv, TypeOK, Holding, msgVars
<1>7. CallInv'
  BY <1>0, <1>1 DEF Inv, CallInv, TypeOK, Holding, msgVars
<1>a. \A n \in Flight : n # m /\ callOf[n] # c /\ stage'[callOf[n]] = stage[callOf[n]]
  BY <1>0, <1>1, FlightOwner DEF TypeOK
<1>b. stage'[c] = "wait"
  BY <1>0, <1>1 DEF TypeOK
<1>8. FlightInv' /\ ExecInv'
  BY <1>0, <1>1, <1>4, <1>5, <1>a, <1>b DEF Inv, FlightInv, ExecInv, msgVars
<1>9. DeliverInv'
  BY <1>1 DEF Inv, DeliverInv, msgVars
<1>10. ChannelInv'
  BY <1>0, <1>1, <1>4 DEF Inv, ChannelInv, PoolInv, TypeOK, msgVars
<1>11. LockInv' /\ GenInv'
  BY <1>0, <1>1 DEF Inv, TypeOK, LockInv, GenInv, WorkersGone, Replacing, adminVars
<1> QED
  BY <1>3, <1>5, <1>6, <1>7, <1>8, <1>9, <1>10, <1>11 DEF Inv

-----------------------------------------------------------------------------
(* Steps that answer a message, or give it up because its caller is gone.   *)

\* m leaves the hands of its last holder with at most one answer in its channels.
LEMMA AnswerInv ==
  ASSUME Inv, NEW m \in Flight,
         Flight' = Flight \ {m},
         \A n \in Flight : n # m => (n \in Delivering' <=> n \in Delivering),
         UNCHANGED <<stage, pq, msg, result, execs, pool, callOf>>,
         response' \in [Msgs -> Answers \cup {NoAnswer}],
         errCh' \in [Msgs -> Answers \cup {NoAnswer}],
         \A n \in Msgs : n # m => response'[n] = response[n] /\ errCh'[n] = errCh[n],
         \/ response'[m] = NoAnswer
         \/ response'[m] = Answer(callOf[m], "response") /\ execs[callOf[m]] = 1,
         \/ errCh'[m] = NoAnswer
         \/ \E k \in AnswerKinds \ {"response"} :
              /\ errCh'[m] = Answer(callOf[m], k)
              /\ execs[callOf[m]] = IF k = "providerError" THEN 1 ELSE 0,
         response'[m] = NoAnswer \/ errCh'[m] = NoAnswer,
         \A d \in Calls : d # callOf[m] => hooks'[d] = hooks[d],
         hooks'[callOf[m]] \in {0, 1},
         hooks'[callOf[m]] = 1 => response'[m] = NoAnswer /\ errCh'[m] = NoAnswer
  PROVE  CoreInv'
<1> DEFINE c == callOf[m]
<1>0. /\ TypeOK /\ m \in Msgs /\ m \notin pool /\ c \in Calls
      /\ stage[c] \in {"wait", "returned"}
      /\ stage[c] = "wait" \/ (stage[c] = "returned" /\ result[c].kind = "cancelled")
  BY FlightOwner DEF Inv, FlightInv
<1>1. PoolInv'
  BY <1>0 DEF Inv, PoolInv
<1>2. CallInv'
  <2> SUFFICES ASSUME NEW d \in Calls PROVE CallInv!(d)'
    BY DEF CallInv
  <2>1. CallInv!(d)
    BY DEF Inv, CallInv
  <2>2. CASE d = c
    BY <1>0, <2>1, <2>2
  <2>3. CASE d # c
    BY <2>1, <2>3
  <2> QED
    BY <2>2, <2>3
<1>3. \A n \in Flight : n # m => n \in Msgs /\ callOf[n] # c /\ callOf[n] \in Calls
  BY FlightOwner
<1>4. FlightInv'
  BY <1>3 DEF Inv, FlightInv
<1>5. ExecInv'
  BY <1>3 DEF Inv, ExecInv
<1>6. ChannelInv'
  <2> SUFFICES ASSUME NEW n \in Msgs PROVE ChannelInv!(n)'
    BY DEF ChannelInv
  <2>1. CASE n = m
    BY <1>0, <2>1 DEF Answer, AnswerKinds
  <2>2. CASE n # m
    <3>1. ChannelInv!(n)
      BY DEF Inv, ChannelInv
    <3>2. response[n] # NoAnswer \/ errCh[n] # NoAnswer => callOf[n] \in Calls /\ callOf[n] # c
      BY <1>0, <2>2, FlightOwner DEF Inv, PoolInv
    <3> QED
      BY <2>2, <3>1, <3>2
  <2> QED
    BY <2>1, <2>2
<1> QED
  BY <1>1, <1>2, <1>4, <1>5, <1>6 DEF CoreInv

\* The error sent, or not, by AnswerError.
LEMMA AnswerErrorInv ==
  ASSUME Inv, NEW m \in Flight, m \notin Delivering,
         NEW k \in {"keyError", "closed", "transferFull"}, AnswerError(m, k),
         Flight' = Flight \ {m}, Delivering' = Delivering,
         UNCHANGED <<stage, pq, msg, result, hooks, execs, pool, callOf, response>>
  PROVE  CoreInv' /\ errCh' \in [Msgs -> Answers \cup {NoAnswer}]
<1>0. /\ TypeOK /\ m \in Msgs /\ callOf[m] \in Calls /\ execs[callOf[m]] = 0
      /\ response[m] = NoAnswer /\ errCh[m] = NoAnswer /\ hooks[callOf[m]] = 0
  BY FlightOwner DEF Inv, ExecInv
<1>1. Answer(callOf[m], k) \in Answers /\ k \in AnswerKinds \ {"response"} /\ k # "providerError"
  BY <1>0 DEF Answer, Answers, AnswerKinds
<1>2. errCh' \in [Msgs -> Answers \cup {NoAnswer}] /\ response' \in [Msgs -> Answers \cup {NoAnswer}]
  <2>1. errCh \in [Msgs -> Answers \cup {NoAnswer}] /\ response \in [Msgs -> Answers \cup {NoAnswer}]
    BY <1>0 DEF TypeOK
  <2>2. CASE errCh' = errCh
    BY <2>1, <2>2
  <2>3. CASE errCh' = [errCh EXCEPT ![m] = Answer(callOf[m], k)]
    BY <1>1, <2>1, <2>3
  <2> QED
    BY <2>2, <2>3 DEF AnswerError
<1>3. /\ errCh'[m] = NoAnswer \/ errCh'[m] = Answer(callOf[m], k)
      /\ \A n \in Msgs : n # m => errCh'[n] = errCh[n]
  BY <1>0 DEF AnswerError, TypeOK
<1> QED
  BY <1>0, <1>1, <1>2, <1>3, AnswerInv

\* What popping m from a queue leaves in the queues: nothing but what was there,
\* at distinct positions, and everything that was there except m.
NothingNew(m) ==
  \A h \in Gens : \A i \in 1..Len(queue'[h]) :
     queue'[h][i] # m /\ \E j \in 1..Len(queue[h]) : queue[h][j] = queue'[h][i]
AllDistinct ==
  \A h1, h2 \in Gens : \A i \in 1..Len(queue'[h1]), j \in 1..Len(queue'[h2]) :
     queue'[h1][i] = queue'[h2][j] => h1 = h2 /\ i = j
NothingLost(m) ==
  \A h \in Gens : \A i \in 1..Len(queue[h]) : queue[h][i] # m =>
     \E j \in 1..Len(queue'[h]) : queue'[h][j] = queue[h][i]

\* Popping the head of a queue: the message had no other holder, and the other
\* positions are kept, shifted.
LEMMA PopPositions ==
  ASSUME Inv, NEW g \in Gens, queue[g] # << >>, queue' = [queue EXCEPT ![g] = Tail(@)],
         NEW m, m = Head(queue[g])
  PROVE  /\ queue' \in [Gens -> Seq(Msgs)]
         /\ m \in Msgs /\ m # NoMsg /\ m \in Flight /\ m \notin Delivering
         /\ \A x \in WorkerIds : worker[x].msg # m
         /\ admin.carry # m
         /\ NothingNew(m) /\ AllDistinct /\ NothingLost(m)
<1>q. queue \in [Gens -> Seq(Msgs)]
  BY DEF Inv, TypeOK
<1>1. /\ queue' \in [Gens -> Seq(Msgs)]
      /\ Len(queue[g]) \in Nat /\ Len(queue[g]) >= 1
      /\ m = queue[g][1] /\ m \in Msgs
      /\ \A h \in Gens : h # g => queue'[h] = queue[h]
      /\ Len(queue'[g]) = Len(queue[g]) - 1
      /\ \A i \in 1..Len(queue'[g]) : queue'[g][i] = queue[g][i + 1]
  BY <1>q, PopQueue
<1>2. SingleHolder /\ 1 \in Positions(g) /\ m # NoMsg
  BY <1>1, ConstantsAssumption DEF Inv, Positions
<1>3. m \in Flight
  BY <1>1, <1>2 DEF Flight
<1>4. (\A x \in WorkerIds : worker[x].msg # m) /\ admin.carry # m
  BY <1>1, <1>2 DEF SingleHolder
<1>a. m \notin Delivering
  BY <1>4 DEF Delivering
<1>5. \A h \in Gens : \A i \in 1..Len(queue'[h]) :
        \E j \in 1..Len(queue[h]) : /\ queue'[h][i] = queue[h][j]
                                    /\ j = IF h = g THEN i + 1 ELSE i
  BY <1>1
<1>6. \A h \in Gens : \A i \in 1..Len(queue'[h]) : queue'[h][i] # m
  <2> SUFFICES ASSUME NEW h \in Gens, NEW i \in 1..Len(queue'[h]), queue'[h][i] = m PROVE FALSE
    OBVIOUS
  <2>1. PICK j \in 1..Len(queue[h]) : /\ queue'[h][i] = queue[h][j]
                                     /\ j = IF h = g THEN i + 1 ELSE i
    BY <1>5
  <2>2. h = g /\ j = 1
    BY <1>1, <1>2, <2>1 DEF SingleHolder, Positions
  <2> QED
    BY <1>1, <2>1, <2>2
<1>7. \A h1, h2 \in Gens : \A i \in 1..Len(queue'[h1]), j \in 1..Len(queue'[h2]) :
        queue'[h1][i] = queue'[h2][j] => h1 = h2 /\ i = j
  <2> SUFFICES ASSUME NEW h1 \in Gens, NEW h2 \in Gens, NEW i \in 1..Len(queue'[h1]),
                      NEW j \in 1..Len(queue'[h2]), queue'[h1][i] = queue'[h2][j]
               PROVE  h1 = h2 /\ i = j
    OBVIOUS
  <2>1. PICK a \in 1..Len(queue[h1]) : /\ queue'[h1][i] = queue[h1][a]
                                      /\ a = IF h1 = g THEN i + 1 ELSE i
    BY <1>5
  <2>2. PICK b \in 1..Len(queue[h2]) : /\ queue'[h2][j] = queue[h2][b]
                                      /\ b = IF h2 = g THEN j + 1 ELSE j
    BY <1>5
  <2>3. h1 = h2 /\ a = b
    BY <1>2, <2>1, <2>2 DEF SingleHolder, Positions
  <2> QED
    BY <1>1, <2>1, <2>2, <2>3
<1>8. \A h \in Gens : \A i \in 1..Len(queue[h]) : queue[h][i] # m =>
        \E j \in 1..Len(queue'[h]) : queue'[h][j] = queue[h][i]
  <2> SUFFICES ASSUME NEW h \in Gens, NEW i \in 1..Len(queue[h]), queue[h][i] # m
               PROVE  \E j \in 1..Len(queue'[h]) : queue'[h][j] = queue[h][i]
    OBVIOUS
  <2>1. CASE h # g
    BY <1>1, <2>1
  <2>2. CASE h = g
    <3>1. i - 1 \in 1..Len(queue'[h]) /\ queue'[h][i - 1] = queue[h][i]
      BY <1>1, <2>2
    <3> QED
      BY <3>1
  <2> QED
    BY <2>1, <2>2
<1>9. NothingNew(m)
  BY SMTT(20), <1>5, <1>6 DEF NothingNew
<1>10. AllDistinct /\ NothingLost(m)
  BY <1>7, <1>8 DEF AllDistinct, NothingLost
<1> QED
  BY <1>1, <1>2, <1>3, <1>4, <1>a, <1>9, <1>10

\* A queue's head is discarded: it leaves flight, and no other does.
LEMMA PopFlight ==
  ASSUME Inv, NEW g \in Gens, queue[g] # << >>,
         queue' = [queue EXCEPT ![g] = Tail(@)], UNCHANGED <<worker, admin.carry>>
  PROVE  /\ Head(queue[g]) \in Flight /\ Head(queue[g]) \notin Delivering
         /\ Flight' = Flight \ {Head(queue[g])} /\ Delivering' = Delivering
         /\ SingleHolder' /\ queue' \in [Gens -> Seq(Msgs)]
<1>m. PICK m : m = Head(queue[g])
  OBVIOUS
<1>1. /\ queue' \in [Gens -> Seq(Msgs)]
      /\ m \in Msgs /\ m \in Flight /\ m \notin Delivering
      /\ \A x \in WorkerIds : worker[x].msg # m
      /\ admin.carry # m
      /\ NothingNew(m) /\ AllDistinct /\ NothingLost(m)
  BY <1>m, PopPositions
<1>2. SingleHolder'
  <2>1. \A h \in Gens : \A i \in 1..Len(queue'[h]) :
          queue'[h][i] # admin.carry /\ \A x \in WorkerIds : queue'[h][i] # worker[x].msg
    BY <1>1 DEF Inv, SingleHolder, Positions, NothingNew
  <2> QED
    BY <1>1, <2>1 DEF Inv, SingleHolder, Positions, AllDistinct
<1>3. ASSUME NEW n \in Flight' PROVE n \in Flight /\ n # m
  <2>0. n \in Msgs
    BY <1>3 DEF Flight
  <2>1. CASE \E h \in Gens : \E i \in 1..Len(queue'[h]) : queue'[h][i] = n
    <3>1. PICK h \in Gens : \E i \in 1..Len(queue'[h]) : queue'[h][i] = n
      BY <2>1
    <3>2. PICK i \in 1..Len(queue'[h]) : queue'[h][i] = n
      BY <3>1
    <3>3. n # m /\ \E j \in 1..Len(queue[h]) : queue[h][j] = n
      BY ZenonT(30), <1>1, <3>2 DEF NothingNew
    <3> QED
      BY <2>0, <3>3 DEF Flight, Positions
  <2>2. CASE (\E x \in WorkerIds : worker[x].msg = n) \/ admin.carry = n
    BY <1>1, <2>0, <2>2 DEF Flight
  <2> QED
    BY <2>1, <2>2 DEF Flight, Positions
<1>4. ASSUME NEW n \in Flight, n # m PROVE n \in Flight'
  <2>0. n \in Msgs
    BY <1>4 DEF Flight
  <2>1. CASE \E h \in Gens : \E i \in 1..Len(queue[h]) : queue[h][i] = n
    <3>1. PICK h \in Gens : \E i \in 1..Len(queue[h]) : queue[h][i] = n
      BY <2>1
    <3>2. PICK i \in 1..Len(queue[h]) : queue[h][i] = n
      BY <3>1
    <3>3. \E j \in 1..Len(queue'[h]) : queue'[h][j] = n
      <4>1. NothingLost(m)
        BY <1>1
      <4>2. queue[h][i] # m
        BY <1>4, <3>2
      <4>3. \E j \in 1..Len(queue'[h]) : queue'[h][j] = queue[h][i]
        BY <4>1, <4>2, Zenon DEF NothingLost
      <4> QED
        BY <3>2, <4>3, Zenon
    <3> QED
      BY <2>0, <3>3 DEF Flight, Positions
  <2>2. CASE (\E x \in WorkerIds : worker[x].msg = n) \/ admin.carry = n
    BY <2>0, <2>2 DEF Flight
  <2> QED
    BY <1>4, <2>1, <2>2 DEF Flight, Positions
<1>5. Delivering' = Delivering
  BY DEF Delivering
<1> QED
  BY <1>m, <1>1, <1>2, <1>3, <1>4, <1>5

\* One turn of any of the drain loops.
LEMMA DrainOneInv ==
  ASSUME Inv, NEW g \in Gens, NEW k \in {"closed", "transferFull"}, DrainOne(g, k),
         UNCHANGED <<callVars, closing, swept, worker, adminVars>>
  PROVE  Inv'
<1> DEFINE m == Head(queue[g])
<1>0. TypeOK
  BY DEF Inv
<1>1. /\ m \in Flight /\ m \notin Delivering
      /\ Flight' = Flight \ {m} /\ Delivering' = Delivering
      /\ SingleHolder' /\ queue' \in [Gens -> Seq(Msgs)]
  BY PopFlight DEF DrainOne, adminVars
<1>2. CoreInv' /\ errCh' \in [Msgs -> Answers \cup {NoAnswer}]
  BY <1>1, AnswerErrorInv DEF DrainOne, callVars
<1>3. TypeOK'
  BY <1>0, <1>1, <1>2 DEF TypeOK, DrainOne, callVars, adminVars
<1>4. DeliverInv'
  BY DEF Inv, DeliverInv, DrainOne
<1>5. LockInv' /\ GenInv'
  BY DEF Inv, LockInv, GenInv, WorkersGone, Replacing, callVars, adminVars
<1> QED
  BY <1>1, <1>2, <1>3, <1>4, <1>5 DEF Inv, CoreInv

-----------------------------------------------------------------------------
(* Steps of workers.                                                        *)

\* A running worker's step brings no worker back to a generation without any.
LEMMA WorkerGenInv ==
  ASSUME Inv, NEW x \in WorkerIds, worker[x].pc \notin {"off", "exited"},
         NEW v \in WorkerStates, worker' = [worker EXCEPT ![x] = v],
         UNCHANGED <<stage, adminVars>>
  PROVE  LockInv' /\ GenInv' /\ worker' \in [WorkerIds -> WorkerStates]
<1>0. worker \in [WorkerIds -> WorkerStates] /\ published \in 0..MaxGen /\ genCount \in Gens
  BY DEF Inv, TypeOK
<1>1. \A y \in WorkerIds : y # x => worker'[y] = worker[y]
  BY <1>0
<1>2. \A y \in WorkerIds : worker[y] = Off => y # x /\ worker'[y] = Off
  BY <1>1 DEF Off
<1>3. \A g \in Gens : WorkersGone(g) => WorkersGone(g)'
  <2> SUFFICES ASSUME NEW g \in Gens, WorkersGone(g) PROVE WorkersGone(g)'
    OBVIOUS
  <2>1. \A w \in Workers : <<g, w>> \in WorkerIds /\ <<g, w>> # x
    BY DEF WorkersGone, WorkerIds
  <2> QED
    BY <1>1, <2>1 DEF WorkersGone
<1>4. \A g \in Gens, w \in Workers : <<g, w>> \in WorkerIds
  BY DEF WorkerIds
<1>5. LockInv'
  <2>1. lock = "call" \/ admin.pc = "preparing" =>
          published # 0 /\ \A w \in Workers : worker'[<<published, w>>] = Off
    BY <1>0, <1>2, <1>4 DEF Inv, LockInv
  <2>2. admin.pc = "removeRetired" => WorkersGone(published)'
    BY <1>0, <1>3 DEF Inv, LockInv, adminVars
  <2> QED
    BY <2>1, <2>2 DEF Inv, LockInv, Replacing, adminVars
<1>6. GenInv'
  <2>1. \A g \in 1..genCount : g \in Gens
    BY <1>0, ConstantsAssumption
  <2> QED
    BY <1>2, <1>3, <2>1 DEF Inv, GenInv, Replacing, adminVars
<1> QED
  BY <1>0, <1>5, <1>6

\* A worker that gives its message away without passing it on.
LEMMA DropFlight ==
  ASSUME Inv, NEW x \in WorkerIds, worker[x].pc \in {"busy", "deliver"},
         worker' = [worker EXCEPT ![x] = Idle], UNCHANGED <<queue, admin.carry, callOf>>
  PROVE  /\ worker[x].msg \in Flight
         /\ Flight' = Flight \ {worker[x].msg}
         /\ \A n \in Flight : n # worker[x].msg => (n \in Delivering' <=> n \in Delivering)
         /\ SingleHolder' /\ DeliverInv'
<1> DEFINE m == worker[x].msg
<1>0. worker \in [WorkerIds -> WorkerStates] /\ m \in Msgs /\ m # NoMsg /\ SingleHolder
  BY WorkerShape, ConstantsAssumption DEF Inv, TypeOK
<1>1. /\ \A y \in WorkerIds : y # x => worker'[y] = worker[y] /\ worker[y].msg # m
      /\ worker'[x] = Idle /\ Idle.msg = NoMsg /\ Idle.pc = "idle"
  BY <1>0 DEF SingleHolder, Idle
<1>2. /\ \A g \in Gens : \A i \in Positions(g) : queue[g][i] # m /\ queue[g][i] # NoMsg
      /\ admin.carry # m
  BY <1>0, ConstantsAssumption DEF SingleHolder, Inv, TypeOK, Positions
<1>3. m \in Flight
  BY <1>0 DEF Flight
<1>4. Flight' = Flight \ {m}
  <2>1. \A n \in Msgs : n # m =>
          ((\E y \in WorkerIds : worker'[y].msg = n) <=> (\E y \in WorkerIds : worker[y].msg = n))
    BY <1>0, <1>1, ConstantsAssumption
  <2>2. \A y \in WorkerIds : worker'[y].msg # m
    BY <1>0, <1>1
  <2> QED
    BY <1>2, <2>1, <2>2 DEF Flight, Positions
<1>5. \A n \in Flight : n # m => (n \in Delivering' <=> n \in Delivering)
  BY <1>1 DEF Delivering
<1>6. SingleHolder'
  BY <1>0, <1>1, <1>2 DEF SingleHolder, Positions
<1>7. DeliverInv'
  BY <1>1 DEF Inv, DeliverInv
<1> QED
  BY <1>3, <1>4, <1>5, <1>6, <1>7

\* A worker answers that there is no key.
LEMMA WorkerKeyErrorInv == ASSUME Inv, NEW x \in WorkerIds, WorkerKeyError(x) PROVE Inv'
<1> DEFINE m == worker[x].msg
<1>0. TypeOK /\ Idle \in WorkerStates /\ worker[x].pc = "busy"
  BY DEF Inv, WorkerStates, WorkerKeyError
<1>1. /\ m \in Flight /\ Flight' = Flight \ {m}
      /\ \A n \in Flight : n # m => (n \in Delivering' <=> n \in Delivering)
      /\ SingleHolder' /\ DeliverInv'
  BY DropFlight DEF WorkerKeyError, adminVars
<1>2. m \notin Delivering
  <2>1. m \in Msgs /\ m # NoMsg
    BY <1>1, ConstantsAssumption DEF Flight
  <2> QED
    BY <1>0, <2>1 DEF Delivering, Inv, SingleHolder
<1>3. /\ m \in Msgs /\ callOf[m] \in Calls /\ execs[callOf[m]] = 0
      /\ response[m] = NoAnswer /\ hooks[callOf[m]] = 0
  BY <1>1, <1>2, FlightOwner DEF Inv, ExecInv
<1>4. Answer(callOf[m], "keyError") \in Answers /\ "keyError" \in AnswerKinds \ {"response"}
  BY <1>3 DEF Answer, Answers, AnswerKinds
<1>5. /\ errCh' \in [Msgs -> Answers \cup {NoAnswer}]
      /\ errCh'[m] = Answer(callOf[m], "keyError")
      /\ \A n \in Msgs : n # m => errCh'[n] = errCh[n]
      /\ response' \in [Msgs -> Answers \cup {NoAnswer}]
  BY <1>0, <1>3, <1>4 DEF WorkerKeyError, TypeOK
<1>6. UNCHANGED <<callVars, pool, callOf, response, queue, closing, swept, adminVars>>
  BY DEF WorkerKeyError
<1>7. CoreInv'
  BY <1>1, <1>3, <1>4, <1>5, <1>6, AnswerInv DEF callVars
<1>8. LockInv' /\ GenInv' /\ worker' \in [WorkerIds -> WorkerStates]
  BY <1>0, <1>6, WorkerGenInv DEF WorkerKeyError, callVars
<1>9. TypeOK'
  BY <1>0, <1>5, <1>6, <1>8 DEF TypeOK, callVars, adminVars
<1> QED
  BY <1>1, <1>7, <1>8, <1>9 DEF Inv, CoreInv

\* A worker delivers the outcome, or bills it when its caller is gone.
LEMMA WorkerDeliverInv == ASSUME Inv, NEW x \in WorkerIds, WorkerDeliver(x) PROVE Inv'
<1> DEFINE m == worker[x].msg
<1> DEFINE a == worker[x].out
<1> DEFINE c == callOf[m]
<1>0. TypeOK /\ Idle \in WorkerStates /\ worker[x].pc = "deliver"
  BY DEF Inv, WorkerStates, WorkerDeliver
<1>1. /\ m \in Flight /\ Flight' = Flight \ {m}
      /\ \A n \in Flight : n # m => (n \in Delivering' <=> n \in Delivering)
      /\ SingleHolder' /\ DeliverInv'
  BY DropFlight DEF WorkerDeliver, adminVars
<1>2. m \in Delivering
  BY <1>0, <1>1 DEF Delivering, Flight
<1>3. /\ m \in Msgs /\ c \in Calls /\ execs[c] = 1
      /\ response[m] = NoAnswer /\ errCh[m] = NoAnswer /\ hooks[c] = 0
  BY <1>1, <1>2, FlightOwner DEF Inv, ExecInv
<1>4. a \in Answers /\ a.call = c /\ a.kind \in ProviderOutcomes
  BY <1>0, WorkerShape DEF Inv, TypeOK, DeliverInv
<1>5. a = Answer(c, a.kind) /\ "providerError" \in AnswerKinds \ {"response"}
  BY <1>4 DEF Answer, Answers, AnswerKinds
<1>6. UNCHANGED <<stage, pq, msg, ctxDone, result, execs, late, pool, callOf, queue,
                  closing, swept, adminVars>> /\ worker' = [worker EXCEPT ![x] = Idle]
  BY DEF WorkerDeliver
<1>7. /\ response \in [Msgs -> Answers \cup {NoAnswer}] /\ errCh \in [Msgs -> Answers \cup {NoAnswer}]
      /\ hooks \in [Calls -> Nat]
  BY <1>0 DEF TypeOK
<1>8. /\ CoreInv' /\ hooks' \in [Calls -> Nat]
      /\ response' \in [Msgs -> Answers \cup {NoAnswer}] /\ errCh' \in [Msgs -> Answers \cup {NoAnswer}]
  <2>1. CASE a.kind = "response" /\ response' = [response EXCEPT ![m] = a] /\ UNCHANGED <<errCh, hooks>>
    <3>1. /\ response' \in [Msgs -> Answers \cup {NoAnswer}]
          /\ response'[m] = Answer(c, "response")
          /\ \A n \in Msgs : n # m => response'[n] = response[n]
      BY <1>3, <1>4, <1>5, <1>7, <2>1
    <3> QED
      BY <1>1, <1>3, <1>6, <1>7, <2>1, <3>1, AnswerInv
  <2>2. CASE a.kind # "response" /\ errCh' = [errCh EXCEPT ![m] = a] /\ UNCHANGED <<response, hooks>>
    <3>1. /\ errCh' \in [Msgs -> Answers \cup {NoAnswer}]
          /\ errCh'[m] = Answer(c, "providerError")
          /\ \A n \in Msgs : n # m => errCh'[n] = errCh[n]
      BY <1>3, <1>4, <1>5, <1>7, <2>2 DEF ProviderOutcomes
    <3> QED
      BY <1>1, <1>3, <1>5, <1>6, <1>7, <2>2, <3>1, AnswerInv
  <2>3. CASE /\ hooks' = hooks \/ hooks' = [hooks EXCEPT ![c] = @ + 1]
             /\ UNCHANGED <<response, errCh>>
    <3>1. /\ hooks' \in [Calls -> Nat] /\ hooks'[c] \in {0, 1}
          /\ \A d \in Calls : d # c => hooks'[d] = hooks[d]
      BY <1>3, <1>7, <2>3
    <3> QED
      BY <1>1, <1>3, <1>6, <1>7, <2>3, <3>1, AnswerInv
  <2> QED
    BY <2>1, <2>2, <2>3 DEF WorkerDeliver
<1>9. LockInv' /\ GenInv' /\ worker' \in [WorkerIds -> WorkerStates]
  BY <1>0, <1>6, WorkerGenInv
<1>10. TypeOK'
  BY <1>0, <1>6, <1>8, <1>9 DEF TypeOK, adminVars
<1> QED
  BY <1>1, <1>8, <1>9, <1>10 DEF Inv, CoreInv

\* A worker takes the head of its queue.
LEMMA WorkerReceiveInv == ASSUME Inv, NEW x \in WorkerIds, WorkerReceive(x) PROVE Inv'
<1>g. PICK g \in Gens : g = x[1]
  BY DEF WorkerIds
<1>m. PICK m : m = Head(queue[g])
  OBVIOUS
<1>0. /\ TypeOK /\ queue[g] # << >> /\ worker[x].pc = "idle"
      /\ worker' = [worker EXCEPT ![x] = Busy(m)]
      /\ queue' = [queue EXCEPT ![g] = Tail(@)]
      /\ UNCHANGED <<callVars, msgVars, closing, swept, adminVars>>
  BY <1>g, <1>m DEF Inv, WorkerReceive
<1>1. /\ queue' \in [Gens -> Seq(Msgs)]
      /\ m \in Msgs /\ m # NoMsg /\ m \in Flight /\ m \notin Delivering
      /\ \A y \in WorkerIds : worker[y].msg # m
      /\ admin.carry # m
      /\ NothingNew(m) /\ AllDistinct /\ NothingLost(m)
  BY <1>0, <1>m, PopPositions
<1>2. \A h \in Gens : \A i \in 1..Len(queue'[h]) :
        queue'[h][i] # m /\ \E j \in 1..Len(queue[h]) : queue[h][j] = queue'[h][i]
  BY <1>1 DEF NothingNew
<1>3. \A h1, h2 \in Gens : \A i \in 1..Len(queue'[h1]), j \in 1..Len(queue'[h2]) :
        queue'[h1][i] = queue'[h2][j] => h1 = h2 /\ i = j
  BY <1>1 DEF AllDistinct
<1>4. \A h \in Gens : \A i \in 1..Len(queue[h]) : queue[h][i] # m =>
        \E j \in 1..Len(queue'[h]) : queue'[h][j] = queue[h][i]
  BY <1>1 DEF NothingLost
<1>5. /\ worker'[x].msg = m /\ worker'[x].pc = "busy" /\ worker[x].msg = NoMsg
      /\ \A y \in WorkerIds : y # x => worker'[y] = worker[y]
      /\ Busy(m) \in WorkerStates
  BY <1>0, <1>1, WorkerShape DEF TypeOK, Busy, WorkerStates
<1>6. SingleHolder'
  <2>1. \A h \in Gens : \A i \in 1..Len(queue'[h]) :
          queue'[h][i] # admin.carry /\ \A y \in WorkerIds : queue'[h][i] # worker'[y].msg
    <3> SUFFICES ASSUME NEW h \in Gens, NEW i \in 1..Len(queue'[h])
                 PROVE  queue'[h][i] # admin.carry
                        /\ \A y \in WorkerIds : queue'[h][i] # worker'[y].msg
      OBVIOUS
    <3>1. PICK j \in 1..Len(queue[h]) : queue[h][j] = queue'[h][i]
      BY <1>2
    <3>2. queue[h][j] # admin.carry /\ \A y \in WorkerIds : queue[h][j] # worker[y].msg
      BY DEF Inv, SingleHolder, Positions
    <3> QED
      BY <1>2, <1>5, <3>1, <3>2
  <2>2. /\ \A y, z \in WorkerIds :
             worker'[y].msg = worker'[z].msg /\ worker'[y].msg # NoMsg => y = z
        /\ \A y \in WorkerIds : worker'[y].msg = admin.carry => admin.carry = NoMsg
    BY <1>1, <1>5 DEF Inv, SingleHolder
  <2>3. admin' = admin
    BY <1>0 DEF adminVars
  <2> QED
    BY <1>3, <2>1, <2>2, <2>3 DEF SingleHolder, Positions
<1>7. Flight' = Flight
  <2>0. admin' = admin
    BY <1>0 DEF adminVars
  <2>1. ASSUME NEW n \in Flight PROVE n \in Flight'
    <3>1. CASE n = m
      BY <1>1, <1>5, <3>1 DEF Flight
    <3>2. CASE n # m
      <4>1. n \in Msgs /\ n # NoMsg
        BY ConstantsAssumption DEF Flight
      <4>2. ASSUME NEW y \in WorkerIds, worker[y].msg = n PROVE worker'[y].msg = n
        BY <1>5, <4>1, <4>2
      <4>3. CASE \E h \in Gens : \E i \in 1..Len(queue[h]) : queue[h][i] = n
        <5>1. PICK h \in Gens : \E i \in 1..Len(queue[h]) : queue[h][i] = n
          BY <4>3
        <5>2. \E i \in 1..Len(queue'[h]) : queue'[h][i] = n
          BY <1>4, <3>2, <5>1
        <5> QED
          BY <4>1, <5>2 DEF Flight, Positions
      <4>4. CASE (\E y \in WorkerIds : worker[y].msg = n) \/ admin.carry = n
        BY <2>0, <4>1, <4>2, <4>4 DEF Flight
      <4> QED
        BY <4>3, <4>4 DEF Flight, Positions
    <3> QED
      BY <3>1, <3>2
  <2>2. ASSUME NEW n \in Flight' PROVE n \in Flight
    <3>1. CASE \E h \in Gens : \E i \in 1..Len(queue'[h]) : queue'[h][i] = n
      BY <1>2, <3>1 DEF Flight, Positions
    <3>2. CASE \E y \in WorkerIds : worker'[y].msg = n
      BY <1>1, <1>5, <3>2 DEF Flight
    <3>3. CASE admin.carry = n
      BY <3>3 DEF Flight
    <3> QED
      BY <2>0, <3>1, <3>2, <3>3 DEF Flight, Positions
  <2> QED
    BY <2>1, <2>2
<1>9. Delivering' = Delivering
  BY <1>0, <1>5 DEF Delivering
<1>10. CoreInv'
  BY <1>0, <1>7, <1>9 DEF Inv, CoreInv, PoolInv, CallInv, FlightInv, ExecInv, ChannelInv,
     callVars, msgVars
<1>11. DeliverInv'
  BY <1>0, <1>5 DEF Inv, DeliverInv, msgVars
<1>12. LockInv' /\ GenInv' /\ worker' \in [WorkerIds -> WorkerStates]
  BY <1>0, <1>5, WorkerGenInv DEF callVars
<1>13. TypeOK'
  BY <1>0, <1>1, <1>12 DEF TypeOK, callVars, msgVars, adminVars
<1> QED
  BY <1>6, <1>10, <1>11, <1>12, <1>13 DEF Inv, CoreInv

\* A worker calls the provider.
LEMMA WorkerExecuteInv == ASSUME Inv, NEW x \in WorkerIds, WorkerExecute(x) PROVE Inv'
<1> DEFINE m == worker[x].msg
<1> DEFINE c == callOf[m]
<1>a. TypeOK /\ worker[x] \in WorkerStates /\ worker[x].pc = "busy"
  BY DEF Inv, TypeOK, WorkerExecute
<1>0. /\ m \in Msgs /\ m # NoMsg
      /\ execs' = [execs EXCEPT ![c] = @ + 1]
      /\ UNCHANGED <<stage, pq, msg, ctxDone, result, hooks, late, msgVars, queue, closing,
                     swept, adminVars>>
  BY <1>a, WorkerShape, ConstantsAssumption DEF WorkerExecute
<1>1. PICK k \in ProviderOutcomes : worker' = [worker EXCEPT ![x] = Deliver(m, Answer(c, k))]
  BY DEF WorkerExecute, ProviderOutcomes
<1>2. m \in Flight /\ m \notin Delivering
  BY <1>0, <1>a DEF Flight, Delivering, Inv, SingleHolder
<1>3. /\ c \in Calls /\ execs[c] = 0 /\ response[m] = NoAnswer /\ errCh[m] = NoAnswer
      /\ stage[c] = "wait" \/ (stage[c] = "returned" /\ result[c].kind = "cancelled")
  BY <1>2, FlightOwner DEF Inv, ExecInv, FlightInv
<1>4. /\ worker'[x].pc = "deliver" /\ worker'[x].msg = m /\ worker'[x].out = Answer(c, k)
      /\ \A y \in WorkerIds : y # x => worker'[y] = worker[y]
      /\ Deliver(m, Answer(c, k)) \in WorkerStates
  BY <1>0, <1>a, <1>1, <1>3 DEF TypeOK, Deliver, WorkerStates, Answer, Answers, AnswerKinds, ProviderOutcomes
<1>5. \A y \in WorkerIds : worker'[y].msg = worker[y].msg
  BY <1>4
<1>6. Flight' = Flight /\ SingleHolder'
  BY <1>0, <1>a, <1>5, SameHands DEF Inv, adminVars
<1>7. Delivering' = Delivering \cup {m}
  BY <1>0, <1>a, <1>4 DEF Delivering
<1>8. \A d \in Calls : execs'[d] = IF d = c THEN 1 ELSE execs[d]
  BY <1>0, <1>a, <1>3 DEF TypeOK
<1>9. \A n \in Flight : n # m => callOf[n] # c /\ callOf[n] \in Calls
  BY <1>2, FlightOwner
<1>10. PoolInv' /\ FlightInv'
  BY <1>0, <1>a, <1>6 DEF Inv, PoolInv, FlightInv, msgVars
<1>11. ExecInv'
  BY <1>0, <1>a, <1>3, <1>6, <1>7, <1>8, <1>9 DEF Inv, ExecInv, msgVars
<1>12. CallInv'
  <2> SUFFICES ASSUME NEW d \in Calls PROVE CallInv!(d)'
    BY DEF CallInv
  <2>1. CallInv!(d) /\ UNCHANGED <<stage, pq, msg, result, hooks, pool, callOf>>
    BY <1>0 DEF Inv, CallInv, msgVars
  <2>2. CASE d = c
    <3>1. execs'[d] = 1 /\ stage[d] \in {"wait", "returned"}
      BY <1>3, <1>8, <2>2
    <3>2. result[d].kind \in {"none", "cancelled"}
      BY <1>3, <2>1, <2>2 DEF NoAnswer
    <3> QED
      BY <2>1, <3>1, <3>2
  <2>3. CASE d # c
    BY <1>8, <2>1, <2>3
  <2> QED
    BY <2>2, <2>3
<1>13. ChannelInv'
  <2> SUFFICES ASSUME NEW n \in Msgs PROVE ChannelInv!(n)'
    BY DEF ChannelInv
  <2>1. ChannelInv!(n) /\ UNCHANGED <<stage, result, hooks, callOf, response, errCh>>
    BY <1>0 DEF Inv, ChannelInv, msgVars
  <2>2. response[n] # NoAnswer \/ errCh[n] # NoAnswer => callOf[n] \in Calls /\ callOf[n] # c
    BY <1>2, <1>3, FlightOwner DEF Inv, PoolInv
  <2> QED
    BY <1>8, <2>1, <2>2
<1>14. DeliverInv'
  BY <1>0, <1>a, <1>4 DEF Inv, DeliverInv, Answer, msgVars
<1>15. LockInv' /\ GenInv' /\ worker' \in [WorkerIds -> WorkerStates]
  BY <1>0, <1>a, <1>1, <1>4, WorkerGenInv
<1>16. TypeOK'
  <2>1. execs' \in [Calls -> Nat]
    BY <1>0, <1>a, <1>3 DEF TypeOK
  <2> QED
    BY <1>0, <1>a, <1>15, <2>1 DEF TypeOK, msgVars, adminVars
<1> QED
  BY <1>6, <1>10, <1>11, <1>12, <1>13, <1>14, <1>15, <1>16 DEF Inv

\* A worker without a message changes its state only.
LEMMA WorkerMoveInv ==
  ASSUME Inv, NEW x \in WorkerIds, worker[x].pc \in {"idle", "drain"},
         NEW v \in {Drain, Exited}, worker' = [worker EXCEPT ![x] = v],
         UNCHANGED <<callVars, msgVars, queue, closing, swept, adminVars>>
  PROVE  Inv'
<1>a. TypeOK /\ worker[x] \in WorkerStates
  BY DEF Inv, TypeOK
<1>b. v \in WorkerStates /\ v.msg = NoMsg /\ v.pc # "deliver"
  BY DEF WorkerStates, Drain, Exited
<1>0. TypeOK /\ v \in WorkerStates /\ v.msg = NoMsg /\ v.pc # "deliver" /\ worker[x].msg = NoMsg
  BY <1>a, <1>b, WorkerShape
<1>1. /\ worker'[x] = v
      /\ \A y \in WorkerIds : y # x => worker'[y] = worker[y]
  BY <1>0 DEF TypeOK
<1>2. \A y \in WorkerIds : worker'[y].msg = worker[y].msg
  BY <1>0, <1>1
<1>3. Flight' = Flight /\ SingleHolder'
  BY <1>2, SameHands DEF Inv, adminVars
<1>4. Delivering' = Delivering /\ DeliverInv'
  BY <1>0, <1>1 DEF Inv, Delivering, DeliverInv, msgVars
<1>5. CoreInv'
  BY <1>3, <1>4 DEF Inv, CoreInv, PoolInv, CallInv, FlightInv, ExecInv, ChannelInv,
     callVars, msgVars
<1>6. LockInv' /\ GenInv' /\ worker' \in [WorkerIds -> WorkerStates]
  BY <1>0, WorkerGenInv DEF callVars
<1>7. TypeOK'
  BY <1>0, <1>6 DEF TypeOK, callVars, msgVars, adminVars
<1> QED
  BY <1>3, <1>4, <1>5, <1>6, <1>7 DEF Inv, CoreInv

\* Every step of a worker.
LEMMA WorkerStepInv == ASSUME Inv, NEW x \in WorkerIds, WorkerStep(x) PROVE Inv'
<1>0. x[1] \in Gens
  BY DEF WorkerIds
<1>1. CASE WorkerSeeDone(x)
  BY <1>1, WorkerMoveInv DEF WorkerSeeDone
<1>2. CASE WorkerDrain(x)
  <2>1. CASE DrainOne(x[1], "closed") /\ UNCHANGED worker
    BY <1>0, <1>2, <2>1, DrainOneInv DEF WorkerDrain
  <2>2. CASE worker' = [worker EXCEPT ![x] = Exited] /\ UNCHANGED <<queue, msgVars>>
    BY <1>2, <2>2, WorkerMoveInv DEF WorkerDrain
  <2> QED
    BY <1>2, <2>1, <2>2 DEF WorkerDrain
<1> QED
  BY <1>1, <1>2, WorkerReceiveInv, WorkerKeyErrorInv, WorkerExecuteInv, WorkerDeliverInv
  DEF WorkerStep

-----------------------------------------------------------------------------
(* Steps of UpdateProvider, RemoveProvider, the cleanups and Shutdown.      *)

\* Administrators touch neither calls nor messages: what is in flight decides.
LEMMA CoreFrame ==
  ASSUME Inv, Flight' = Flight, Delivering' = Delivering, UNCHANGED <<callVars, msgVars>>
  PROVE  CoreInv'
  BY DEF Inv, CoreInv, PoolInv, CallInv, FlightInv, ExecInv, ChannelInv, callVars, msgVars

\* Steps that move neither messages nor workers.
LEMMA QuietAdminStep ==
  ASSUME Inv, UNCHANGED <<callVars, msgVars, queue, worker, admin.carry>>
  PROVE  CoreInv' /\ SingleHolder' /\ DeliverInv'
<1>1. Flight' = Flight /\ Delivering' = Delivering /\ SingleHolder'
  BY FlightFrame DEF Inv
<1>2. CoreInv'
  BY <1>1, CoreFrame
<1>3. DeliverInv'
  BY DEF Inv, DeliverInv, msgVars
<1> QED
  BY <1>1, <1>2, <1>3

\* UpdateProvider on a provider without a queue stores one, still without workers.
LEMMA UpdatePrepareInv == ASSUME Inv, UpdatePrepare PROVE Inv'
<1> USE DEF UpdatePrepare, PrepareStore
<1>0. TypeOK /\ genCount + 1 \in Gens
  <2>1. TypeOK /\ genCount \in Gens /\ genCount < MaxGen /\ MaxGen \in Nat
    BY ConstantsAssumption DEF Inv, TypeOK
  <2> QED
    BY <2>1
<1>1. admin.pc = "none" /\ admin.carry = NoMsg /\ \A d \in Calls : stage[d] # "preparing"
  BY DEF Inv, LockInv
<1>2. /\ admin'.pc = "preparing" /\ admin'.carry = NoMsg /\ admin'.old = 0
      /\ admin' \in [pc : {"preparing"}, old : 0..MaxGen, carry : Msgs \cup {NoMsg}]
  BY ConstantsAssumption DEF NoOp
<1>3. CoreInv' /\ SingleHolder' /\ DeliverInv'
  BY <1>1, <1>2, QuietAdminStep DEF queueVars
<1>4. TypeOK'
  BY SMTT(20), <1>0, <1>2 DEF TypeOK, callVars, msgVars, queueVars
<1>5. \A w \in Workers : worker[<<genCount + 1, w>>] = Off
  BY <1>0 DEF Inv, GenInv, WorkerIds, TypeOK
<1>6. LockInv'
  BY <1>0, <1>1, <1>2, <1>5 DEF Inv, TypeOK, LockInv, Replacing, callVars, queueVars
<1>7. \A x \in WorkerIds : x[1] > genCount + 1 => worker[x] = Off
  BY <1>0 DEF Inv, TypeOK, GenInv, WorkerIds
<1>8. \A g \in 1..genCount : WorkersGone(g)
  <2>1. GenInv /\ published = 0 /\ genCount \in Nat
    BY <1>0 DEF Inv, TypeOK
  <2> QED
    BY <1>1, <2>1 DEF GenInv, Replacing
<1>9. GenInv'
  <2>1. \A g \in 1..genCount : WorkersGone(g)'
    BY <1>8 DEF WorkersGone, queueVars
  <2>2. genCount \in Nat /\ genCount' = genCount + 1 /\ published' = genCount + 1 /\ worker' = worker
    BY <1>0 DEF TypeOK, queueVars
  <2> QED
    BY <1>7, <2>1, <2>2 DEF GenInv
<1> QED
  BY <1>3, <1>4, <1>6, <1>9 DEF Inv, CoreInv

\* prepareProvider, called by UpdateProvider, starts the workers or fails.
LEMMA UpdatePreparedInv == ASSUME Inv, UpdatePrepared PROVE Inv'
<1> USE DEF UpdatePrepared
<1>0. /\ TypeOK /\ lock = "admin" /\ published \in Gens
      /\ \A w \in Workers : worker[<<published, w>>] = Off
      /\ \A d \in Calls : stage[d] # "preparing"
      /\ admin.carry = NoMsg /\ ~Replacing
  BY DEF Inv, LockInv, TypeOK, Replacing
<1>1. /\ admin'.pc = "none" /\ admin'.carry = NoMsg
      /\ admin' \in [pc : {"none"}, old : 0..MaxGen, carry : Msgs \cup {NoMsg}]
  BY ConstantsAssumption DEF NoOp
<1>2. /\ worker' \in [WorkerIds -> WorkerStates]
      /\ SingleHolder' /\ Flight' = Flight /\ Delivering' = Delivering /\ DeliverInv'
      /\ \A x \in WorkerIds : x[1] # published => worker'[x] = worker[x]
  <2>1. CASE StartWorkers(published)
    <3>1. /\ worker' \in [WorkerIds -> WorkerStates]
          /\ SingleHolder' /\ Flight' = Flight /\ Delivering' = Delivering /\ DeliverInv'
      BY <1>0, <1>1, <2>1, StartWorkersFlight DEF msgVars
    <3>2. \A x \in WorkerIds : x[1] # published => worker'[x] = worker[x]
      BY <2>1 DEF StartWorkers
    <3> QED
      BY <3>1, <3>2
  <2>2. CASE UNCHANGED worker
    <3>1. Flight' = Flight /\ Delivering' = Delivering /\ SingleHolder'
      BY <1>0, <1>1, <2>2, FlightFrame DEF Inv
    <3>2. DeliverInv' /\ worker' \in [WorkerIds -> WorkerStates]
      BY <1>0, <2>2 DEF Inv, TypeOK, DeliverInv, msgVars
    <3> QED
      BY <2>2, <3>1, <3>2
  <2> QED
    BY <2>1, <2>2
<1>3. CoreInv'
  BY <1>2, CoreFrame
<1>4. TypeOK'
  BY <1>0, <1>1, <1>2 DEF TypeOK, callVars, msgVars
<1>5. LockInv'
  BY <1>0, <1>1 DEF LockInv, Replacing, callVars
<1>6. \A g \in Gens : g # published => WorkersGone(g)' = WorkersGone(g)
  BY <1>2 DEF WorkersGone, WorkerIds
<1>7. GenInv'
  <2>1. GenInv /\ genCount \in Gens
    BY <1>0 DEF Inv, TypeOK
  <2>2. \A x \in WorkerIds : x[1] > genCount => worker'[x] = Off
    BY <1>0, <1>2, <2>1 DEF GenInv, WorkerIds
  <2>3. \A g \in 1..genCount : g \in Gens
    BY <2>1, ConstantsAssumption
  <2> QED
    BY <1>0, <1>6, <2>1, <2>2, <2>3 DEF GenInv
<1> QED
  BY <1>2, <1>3, <1>4, <1>5, <1>7 DEF Inv, CoreInv

\* UpdateProvider publishes a generation above all others and starts its workers.
LEMMA UpdateBeginInv == ASSUME Inv, UpdateBegin PROVE Inv'
<1> USE DEF UpdateBegin
<1>0. TypeOK /\ genCount \in Gens /\ genCount + 1 \in Gens /\ published \in Gens
  <2>1. TypeOK /\ genCount \in Gens /\ genCount < MaxGen /\ MaxGen \in Nat /\ published \in 0..MaxGen
    BY ConstantsAssumption DEF Inv, TypeOK
  <2> QED
    BY <2>1
<1>1. admin.pc = "none" /\ admin.carry = NoMsg /\ \A d \in Calls : stage[d] # "preparing"
  BY DEF Inv, LockInv
<1>2. /\ admin'.pc = "transfer" /\ admin'.carry = NoMsg /\ admin'.old = published
      /\ admin' \in [pc : {"transfer"}, old : 0..MaxGen, carry : Msgs \cup {NoMsg}]
  BY <1>0
<1>3. \A w \in Workers : worker[<<genCount + 1, w>>] = Off
  BY <1>0 DEF Inv, GenInv, WorkerIds, TypeOK
<1>4. /\ worker' \in [WorkerIds -> WorkerStates]
      /\ SingleHolder' /\ Flight' = Flight /\ Delivering' = Delivering /\ DeliverInv'
  BY <1>0, <1>1, <1>2, <1>3, StartWorkersFlight DEF msgVars
<1>5. CoreInv'
  BY <1>4, CoreFrame
<1>6. TypeOK'
  BY <1>0, <1>2, <1>4 DEF TypeOK, callVars, msgVars
<1>7. published <= genCount /\ published # genCount + 1
  BY <1>0 DEF Inv, GenInv
<1>8. LockInv'
  BY <1>0, <1>1, <1>2, <1>7 DEF LockInv, Replacing, callVars
<1>9. GenInv'
  <2>1. \A x \in WorkerIds : x[1] # genCount + 1 => worker'[x] = worker[x]
    BY DEF StartWorkers
  <2>2. \A x \in WorkerIds : x[1] > genCount + 1 => worker'[x] = Off
    BY <1>0, <2>1 DEF Inv, GenInv, WorkerIds
  <2>3. \A g \in Gens : g # genCount + 1 => WorkersGone(g)' = WorkersGone(g)
    BY <2>1 DEF WorkersGone, WorkerIds
  <2>4. \A g \in 1..genCount : g # published => WorkersGone(g) \/ g \in retired
    BY <1>1 DEF Inv, GenInv, Replacing
  <2>5. \A g \in 1..(genCount + 1) : g # genCount + 1 => g \in 1..genCount /\ g \in Gens
    BY <1>0, ConstantsAssumption
  <2>6. Replacing' /\ published' = genCount + 1 /\ genCount' = genCount + 1 /\ published' # 0
    BY <1>0, <1>2 DEF Replacing
  <2>7. \A g \in 1..genCount' : g # published' =>
          WorkersGone(g)' \/ g \in retired' \/ (Replacing' /\ g = admin'.old)
    BY <1>2, <2>3, <2>4, <2>5, <2>6
  <2> QED
    BY <1>0, <2>2, <2>6, <2>7 DEF GenInv
<1> QED
  BY <1>4, <1>5, <1>6, <1>8, <1>9 DEF Inv, CoreInv

\* UpdateProvider takes a message out of the old queue: it stays in flight, in
\* its hands.
LEMMA UpdateTakeInv == ASSUME Inv, UpdateTake PROVE Inv'
<1>g. PICK g \in Gens : g = admin.old
  BY DEF Inv, LockInv, Replacing, UpdateTake
<1>m. PICK m : m = Head(queue[g])
  OBVIOUS
<1>0. /\ TypeOK /\ queue[g] # << >> /\ admin.pc = "transfer" /\ admin.carry = NoMsg
      /\ admin' = [admin EXCEPT !.carry = m]
      /\ queue' = [queue EXCEPT ![g] = Tail(@)]
      /\ UNCHANGED <<callVars, msgVars, closing, swept, worker, published, genCount,
                     retired, lock, shutdown>>
  BY <1>g, <1>m DEF Inv, UpdateTake
<1>1. /\ queue' \in [Gens -> Seq(Msgs)]
      /\ m \in Msgs /\ m # NoMsg /\ m \in Flight /\ m \notin Delivering
      /\ \A y \in WorkerIds : worker[y].msg # m
      /\ NothingNew(m) /\ AllDistinct /\ NothingLost(m)
  BY <1>0, <1>m, PopPositions
<1>2. /\ admin'.carry = m /\ admin'.pc = admin.pc /\ admin'.old = admin.old
      /\ admin' \in [pc : {"transfer"}, old : 0..MaxGen, carry : Msgs \cup {NoMsg}]
  BY <1>0, <1>1 DEF TypeOK
<1>3. SingleHolder'
  <2>1. \A h \in Gens : \A i \in 1..Len(queue'[h]) :
          queue'[h][i] # m /\ \A y \in WorkerIds : queue'[h][i] # worker[y].msg
    <3> SUFFICES ASSUME NEW h \in Gens, NEW i \in 1..Len(queue'[h])
                 PROVE  queue'[h][i] # m /\ \A y \in WorkerIds : queue'[h][i] # worker[y].msg
      OBVIOUS
    <3>1. PICK j \in 1..Len(queue[h]) : queue[h][j] = queue'[h][i] /\ queue'[h][i] # m
      BY <1>1 DEF NothingNew
    <3>2. \A y \in WorkerIds : queue[h][j] # worker[y].msg
      BY DEF Inv, SingleHolder, Positions
    <3> QED
      BY <3>1, <3>2
  <2>2. \A y, z \in WorkerIds :
             worker[y].msg = worker[z].msg /\ worker[y].msg # NoMsg => y = z
    BY DEF Inv, SingleHolder
  <2> QED
    BY SMTT(20), <1>0, <1>1, <1>2, <2>1, <2>2 DEF SingleHolder, Positions, AllDistinct
<1>4. Flight' = Flight
  <2>1. ASSUME NEW n \in Flight PROVE n \in Flight'
    <3>0. n \in Msgs /\ n # NoMsg
      BY ConstantsAssumption DEF Flight
    <3>1. CASE n = m
      BY <1>1, <1>2, <3>1 DEF Flight
    <3>2. CASE n # m
      <4>1. CASE \E h \in Gens : \E i \in 1..Len(queue[h]) : queue[h][i] = n
        <5>1. PICK h \in Gens : \E i \in 1..Len(queue[h]) : queue[h][i] = n
          BY <4>1
        <5>2. \E i \in 1..Len(queue'[h]) : queue'[h][i] = n
          BY <1>1, <3>2, <5>1 DEF NothingLost
        <5> QED
          BY <3>0, <5>2 DEF Flight, Positions
      <4>2. CASE \E y \in WorkerIds : worker[y].msg = n
        BY <1>0, <3>0, <4>2 DEF Flight
      <4> QED
        BY <1>0, <3>0, <4>1, <4>2 DEF Flight, Positions
    <3> QED
      BY <3>1, <3>2
  <2>2. ASSUME NEW n \in Flight' PROVE n \in Flight
    <3>0. n \in Msgs
      BY DEF Flight
    <3>1. CASE \E h \in Gens : \E i \in 1..Len(queue'[h]) : queue'[h][i] = n
      <4>1. PICK h \in Gens : \E i \in 1..Len(queue'[h]) : queue'[h][i] = n
        BY <3>1
      <4>a. NothingNew(m)
        BY <1>1
      <4>2. \E i \in 1..Len(queue[h]) : queue[h][i] = n
        BY <4>a, <4>1, ZenonT(30) DEF NothingNew
      <4> QED
        BY <3>0, <4>2 DEF Flight, Positions
    <3>2. CASE \E y \in WorkerIds : worker[y].msg = n
      BY <3>0, <3>2 DEF Flight
    <3>3. CASE n = m
      BY <1>1, <3>3
    <3> QED
      BY <1>0, <1>2, <3>1, <3>2, <3>3 DEF Flight, Positions
  <2> QED
    BY <2>1, <2>2
<1>5. Delivering' = Delivering
  BY <1>0 DEF Delivering
<1>6. CoreInv'
  BY <1>0, <1>4, <1>5, CoreFrame
<1>7. DeliverInv'
  BY <1>0 DEF Inv, DeliverInv, msgVars
<1>8. TypeOK'
  BY <1>0, <1>1, <1>2 DEF TypeOK, callVars, msgVars
<1>9. LockInv'
  BY <1>0, <1>2 DEF Inv, LockInv, Replacing, WorkersGone, callVars
<1>10. GenInv'
  BY <1>0, <1>2 DEF Inv, GenInv, Replacing, WorkersGone
<1> QED
  BY <1>3, <1>6, <1>7, <1>8, <1>9, <1>10 DEF Inv, CoreInv

\* UpdateProvider puts the message it carries in the new queue, or cancels it.
LEMMA UpdatePutInv == ASSUME Inv, UpdatePut PROVE Inv'
<1>g. PICK g \in Gens : g = published
  BY DEF Inv, TypeOK, LockInv, UpdatePut
<1>m. PICK m \in Msgs : m = admin.carry
  BY DEF Inv, TypeOK, UpdatePut
<1>0. /\ TypeOK /\ admin.pc = "transfer" /\ m # NoMsg
      /\ UNCHANGED <<callVars, closing, swept, worker, published, genCount, retired, lock,
                     shutdown>>
  BY <1>m DEF Inv, UpdatePut
<1>1. /\ m \in Flight
      /\ \A y \in WorkerIds : worker[y].msg # m
      /\ \A h \in Gens : \A i \in 1..Len(queue[h]) : queue[h][i] # m
  <2>1. m \in Flight
    BY <1>m DEF Flight
  <2>2. SingleHolder
    BY DEF Inv
  <2> QED
    BY <1>0, <1>m, <2>1, <2>2 DEF SingleHolder, Positions
<1>2. m \notin Delivering /\ Delivering' = Delivering
  BY <1>0, <1>1 DEF Delivering
<1>3. CASE /\ queue' = [queue EXCEPT ![g] = Append(@, m)]
           /\ admin' = [admin EXCEPT !.carry = NoMsg]
           /\ UNCHANGED msgVars
  <2>1. /\ admin'.carry = NoMsg /\ admin'.pc = admin.pc /\ admin'.old = admin.old
        /\ admin' \in [pc : {"transfer"}, old : 0..MaxGen, carry : Msgs \cup {NoMsg}]
    BY <1>0, <1>3 DEF TypeOK
  <2>q. queue \in [Gens -> Seq(Msgs)]
    BY <1>0 DEF TypeOK
  <2>2. /\ queue' \in [Gens -> Seq(Msgs)]
        /\ Len(queue[g]) \in Nat
        /\ \A h \in Gens : h # g => queue'[h] = queue[h]
        /\ Len(queue'[g]) = Len(queue[g]) + 1
        /\ queue'[g][Len(queue[g]) + 1] = m
        /\ \A i \in 1..Len(queue[g]) : queue'[g][i] = queue[g][i]
    BY <1>3, <2>q, PushQueue
  <2>3. \A h \in Gens : \A i \in 1..Len(queue'[h]) :
          \/ i \in 1..Len(queue[h]) /\ queue'[h][i] = queue[h][i]
          \/ h = g /\ i = Len(queue[g]) + 1 /\ queue'[h][i] = m
    BY SMTT(20), <2>2
  <2>4. \A h \in Gens : \A i \in 1..Len(queue[h]) :
          i \in 1..Len(queue'[h]) /\ queue'[h][i] = queue[h][i]
    BY <2>2
  <2>5. SingleHolder'
    <3>1. \A h \in Gens : \A i \in 1..Len(queue'[h]) :
            queue'[h][i] # NoMsg /\ \A y \in WorkerIds : queue'[h][i] # worker[y].msg
      <4> SUFFICES ASSUME NEW h \in Gens, NEW i \in 1..Len(queue'[h])
                   PROVE  queue'[h][i] # NoMsg /\ \A y \in WorkerIds : queue'[h][i] # worker[y].msg
        OBVIOUS
      <4>1. queue'[h][i] \in Msgs
        BY <2>2
      <4>2. CASE i \in 1..Len(queue[h]) /\ queue'[h][i] = queue[h][i]
        BY <4>1, <4>2, ConstantsAssumption DEF Inv, SingleHolder, Positions
      <4>3. CASE queue'[h][i] = m
        BY <1>0, <1>1, <4>3
      <4> QED
        BY <2>3, <4>2, <4>3
    <3>2. \A h1, h2 \in Gens : \A i \in 1..Len(queue'[h1]), j \in 1..Len(queue'[h2]) :
            queue'[h1][i] = queue'[h2][j] => h1 = h2 /\ i = j
      <4>1. \A h1, h2 \in Gens : \A i \in 1..Len(queue[h1]), j \in 1..Len(queue[h2]) :
              queue[h1][i] = queue[h2][j] => h1 = h2 /\ i = j
        BY DEF Inv, SingleHolder, Positions
      <4> SUFFICES ASSUME NEW h1 \in Gens, NEW h2 \in Gens, NEW i \in 1..Len(queue'[h1]),
                          NEW j \in 1..Len(queue'[h2]), queue'[h1][i] = queue'[h2][j]
                   PROVE  h1 = h2 /\ i = j
        OBVIOUS
      <4>2. \/ i \in 1..Len(queue[h1]) /\ queue'[h1][i] = queue[h1][i]
            \/ h1 = g /\ i = Len(queue[g]) + 1 /\ queue'[h1][i] = m
        BY <2>3
      <4>3. \/ j \in 1..Len(queue[h2]) /\ queue'[h2][j] = queue[h2][j]
            \/ h2 = g /\ j = Len(queue[g]) + 1 /\ queue'[h2][j] = m
        BY <2>3
      <4> QED
        BY SMTT(20), <1>1, <4>1, <4>2, <4>3
    <3>3. \A y, z \in WorkerIds :
             worker[y].msg = worker[z].msg /\ worker[y].msg # NoMsg => y = z
      BY DEF Inv, SingleHolder
    <3> QED
      BY <1>0, <2>1, <3>1, <3>2, <3>3 DEF SingleHolder, Positions
  <2>6. Flight' = Flight
    <3>1. ASSUME NEW n \in Flight PROVE n \in Flight'
      <4>0. n \in Msgs
        BY DEF Flight
      <4>1. CASE n = m
        BY <2>2, <4>0, <4>1 DEF Flight, Positions
      <4>2. CASE \E h \in Gens : \E i \in 1..Len(queue[h]) : queue[h][i] = n
        BY <2>4, <4>0, <4>2 DEF Flight, Positions
      <4>3. CASE \E y \in WorkerIds : worker[y].msg = n
        BY <1>0, <4>0, <4>3 DEF Flight
      <4> QED
        BY <1>m, <4>1, <4>2, <4>3 DEF Flight, Positions
    <3>2. ASSUME NEW n \in Flight' PROVE n \in Flight
      <4>0. n \in Msgs /\ n # NoMsg
        BY ConstantsAssumption DEF Flight
      <4>1. CASE \E h \in Gens : \E i \in 1..Len(queue'[h]) : queue'[h][i] = n
        <5>1. PICK h \in Gens : \E i \in 1..Len(queue'[h]) : queue'[h][i] = n
          BY <4>1
        <5>2. n = m \/ \E i \in 1..Len(queue[h]) : queue[h][i] = n
          BY <2>3, <5>1
        <5> QED
          BY <1>1, <4>0, <5>2 DEF Flight, Positions
      <4>2. CASE \E y \in WorkerIds : worker[y].msg = n
        BY <4>0, <4>2 DEF Flight
      <4> QED
        BY <1>0, <2>1, <4>0, <4>1, <4>2 DEF Flight, Positions
    <3> QED
      BY <3>1, <3>2
  <2>7. CoreInv'
    BY <1>0, <1>2, <1>3, <2>6, CoreFrame
  <2>8. DeliverInv'
    BY <1>0, <1>3 DEF Inv, DeliverInv, msgVars
  <2>9. TypeOK'
    BY <1>0, <1>3, <2>1, <2>2 DEF TypeOK, callVars, msgVars
  <2>10. LockInv'
    BY <1>0, <2>1 DEF Inv, LockInv, Replacing, WorkersGone, callVars
  <2>11. GenInv'
    BY <1>0, <2>1 DEF Inv, GenInv, Replacing, WorkersGone
  <2> QED
    BY <2>5, <2>7, <2>8, <2>9, <2>10, <2>11 DEF Inv, CoreInv
<1>4. CASE /\ AnswerError(m, "transferFull")
           /\ admin' = [admin EXCEPT !.pc = "cancelRest", !.carry = NoMsg]
           /\ UNCHANGED <<queue, pool, callOf, response>>
  <2>1. /\ admin'.carry = NoMsg /\ admin'.pc = "cancelRest" /\ admin'.old = admin.old
        /\ admin' \in [pc : {"cancelRest"}, old : 0..MaxGen, carry : Msgs \cup {NoMsg}]
    BY <1>0, <1>4 DEF TypeOK
  <2>2. SingleHolder'
    <3>1. queue \in [Gens -> Seq(Msgs)] /\ SingleHolder
      BY <1>0 DEF Inv, TypeOK
    <3>2. \A h \in Gens : \A i \in 1..Len(queue[h]) : queue[h][i] # NoMsg
      BY <3>1, ConstantsAssumption
    <3> QED
      BY <1>0, <1>4, <2>1, <3>1, <3>2 DEF SingleHolder, Positions
  <2>3. Flight' = Flight \ {m}
    <3>1. ASSUME NEW n \in Flight, n # m PROVE n \in Flight'
      BY <1>0, <1>m, <1>4, <3>1 DEF Flight, Positions
    <3>2. ASSUME NEW n \in Flight' PROVE n \in Flight /\ n # m
      <4>0. n \in Msgs /\ n # NoMsg
        BY ConstantsAssumption DEF Flight
      <4> QED
        BY <1>0, <1>1, <1>4, <2>1, <4>0 DEF Flight, Positions
    <3> QED
      BY <3>1, <3>2
  <2>4. CoreInv' /\ errCh' \in [Msgs -> Answers \cup {NoAnswer}]
    BY <1>0, <1>1, <1>2, <1>4, <2>3, AnswerErrorInv DEF callVars
  <2>5. DeliverInv'
    BY <1>0, <1>4 DEF Inv, DeliverInv
  <2>6. TypeOK'
    BY <1>0, <1>4, <2>1, <2>4 DEF TypeOK, callVars
  <2>7. LockInv'
    BY <1>0, <2>1 DEF Inv, LockInv, Replacing, WorkersGone, callVars
  <2>8. GenInv'
    BY <1>0, <2>1 DEF Inv, GenInv, Replacing, WorkersGone
  <2> QED
    BY <2>2, <2>4, <2>5, <2>6, <2>7, <2>8 DEF Inv, CoreInv
<1> QED
  BY <1>g, <1>m, <1>3, <1>4 DEF UpdatePut

\* The old queue was seen empty.
LEMMA UpdateTransferredInv == ASSUME Inv, UpdateTransferred PROVE Inv'
<1> USE DEF UpdateTransferred
<1>0. TypeOK /\ Replacing
  BY DEF Inv, Replacing
<1>1. /\ admin'.pc = "retire" /\ admin'.carry = NoMsg /\ admin'.old = admin.old
      /\ admin' \in [pc : {"retire"}, old : 0..MaxGen, carry : Msgs \cup {NoMsg}]
  BY <1>0 DEF TypeOK
<1>2. CoreInv' /\ SingleHolder' /\ DeliverInv'
  BY <1>1, QuietAdminStep DEF queueVars
<1>3. TypeOK'
  BY <1>0, <1>1 DEF TypeOK, callVars, msgVars, queueVars
<1>4. LockInv' /\ GenInv'
  BY <1>0, <1>1 DEF Inv, LockInv, GenInv, Replacing, WorkersGone, callVars, queueVars
<1> QED
  BY <1>2, <1>3, <1>4 DEF Inv, CoreInv

\* UpdateProvider hands the old generation to its cleanup and unlocks.
LEMMA UpdateRetireInv == ASSUME Inv, UpdateRetire PROVE Inv'
<1> USE DEF UpdateRetire
<1>0. /\ TypeOK /\ Replacing /\ admin.old \in Gens /\ admin.carry = NoMsg /\ lock = "admin"
      /\ published # 0 /\ \A d \in Calls : stage[d] # "preparing"
  BY DEF Inv, LockInv, Replacing
<1>1. /\ admin'.pc = "none" /\ admin'.carry = NoMsg
      /\ admin' \in [pc : {"none"}, old : 0..MaxGen, carry : Msgs \cup {NoMsg}]
  BY ConstantsAssumption DEF NoOp
<1>2. CoreInv' /\ SingleHolder' /\ DeliverInv'
  BY <1>0, <1>1, QuietAdminStep
<1>3. TypeOK'
  BY <1>0, <1>1 DEF TypeOK, SignalClosing, callVars, msgVars
<1>4. LockInv'
  BY <1>0, <1>1 DEF LockInv, Replacing, callVars
<1>5. GenInv'
  BY <1>0 DEF Inv, GenInv, WorkersGone
<1> QED
  BY <1>2, <1>3, <1>4, <1>5 DEF Inv, CoreInv

\* A cleanup sweeps its generation and ends once its workers are gone.
LEMMA CleanupInv == ASSUME Inv, NEW g \in Gens, Cleanup(g) PROVE Inv'
<1>0. TypeOK /\ WorkersGone(g)
  BY DEF Inv, Cleanup
<1>1. CASE DrainOne(g, "closed") /\ UNCHANGED <<retired, swept>>
  BY <1>1, DrainOneInv DEF Cleanup, adminVars
<1>2. CASE /\ swept' = swept \cup {g}
           /\ retired' = retired \ {g}
           /\ UNCHANGED <<queue, msgVars>>
  <2>1. CoreInv' /\ SingleHolder' /\ DeliverInv'
    BY <1>2, QuietAdminStep DEF Cleanup
  <2>2. TypeOK'
    BY <1>0, <1>2 DEF Cleanup, TypeOK, callVars, msgVars
  <2>3. LockInv'
    BY DEF Inv, LockInv, Replacing, WorkersGone, Cleanup, callVars
  <2>4. GenInv'
    BY <1>0, <1>2 DEF Inv, GenInv, Replacing, WorkersGone, Cleanup
  <2> QED
    BY <2>1, <2>2, <2>3, <2>4 DEF Inv, CoreInv
<1> QED
  BY <1>1, <1>2 DEF Cleanup

\* RemoveProvider takes the lock and closes the published queue.
LEMMA RemoveBeginInv == ASSUME Inv, RemoveBegin PROVE Inv'
<1> USE DEF RemoveBegin
<1>0. /\ TypeOK /\ published \in Gens
      /\ admin.pc = "none" /\ admin.carry = NoMsg /\ \A d \in Calls : stage[d] # "preparing"
  BY DEF Inv, TypeOK, LockInv
<1>1. /\ admin'.pc = "removeWait" /\ admin'.carry = NoMsg /\ admin'.old = published
      /\ admin' \in [pc : {"removeWait"}, old : 0..MaxGen, carry : Msgs \cup {NoMsg}]
  BY <1>0
<1>2. CoreInv' /\ SingleHolder' /\ DeliverInv'
  BY <1>0, <1>1, QuietAdminStep
<1>3. TypeOK'
  BY <1>0, <1>1 DEF TypeOK, SignalClosing, callVars, msgVars
<1>4. LockInv'
  BY <1>0, <1>1 DEF LockInv, Replacing, callVars
<1>5. GenInv'
  BY <1>0, <1>1 DEF Inv, GenInv, Replacing, WorkersGone
<1> QED
  BY <1>2, <1>3, <1>4, <1>5 DEF Inv, CoreInv

\* RemoveProvider's final sweep, and its end once no cleanup is pending.
LEMMA RemoveStepInv == ASSUME Inv, RemoveSweep \/ RemoveFinish PROVE Inv'
<1>1. CASE RemoveSweep
  <2> USE <1>1 DEF RemoveSweep
  <2>0. /\ TypeOK /\ admin.old \in Gens /\ admin.old = published /\ admin.pc = "removeWait"
        /\ WorkersGone(published)
    BY DEF Inv, TypeOK, LockInv
  <2>1. CASE DrainOne(admin.old, "closed") /\ UNCHANGED <<admin, swept>>
    BY <2>0, <2>1, DrainOneInv DEF adminVars
  <2>2. CASE /\ swept' = swept \cup {admin.old}
             /\ admin' = [admin EXCEPT !.pc = "removeRetired"]
             /\ UNCHANGED <<queue, msgVars>>
    <3>1. /\ admin'.pc = "removeRetired" /\ admin'.carry = admin.carry /\ admin'.old = admin.old
          /\ admin' \in [pc : {"removeRetired"}, old : 0..MaxGen, carry : Msgs \cup {NoMsg}]
      BY <2>0, <2>2 DEF TypeOK
    <3>2. CoreInv' /\ SingleHolder' /\ DeliverInv'
      BY <2>2, <3>1, QuietAdminStep
    <3>3. TypeOK'
      BY <2>0, <2>2, <3>1 DEF TypeOK, callVars, msgVars
    <3>4. LockInv'
      BY <2>0, <3>1 DEF Inv, LockInv, Replacing, WorkersGone, callVars
    <3>5. GenInv'
      BY <2>0, <3>1 DEF Inv, GenInv, Replacing, WorkersGone
    <3> QED
      BY <3>2, <3>3, <3>4, <3>5 DEF Inv, CoreInv
  <2> QED
    BY <2>1, <2>2
<1>2. CASE RemoveFinish
  <2> USE <1>2 DEF RemoveFinish
  <2>0. /\ TypeOK /\ admin.carry = NoMsg /\ lock = "admin" /\ WorkersGone(published) /\ ~Replacing
        /\ \A d \in Calls : stage[d] # "preparing"
    BY DEF Inv, TypeOK, LockInv, Replacing
  <2>1. /\ admin'.pc = "none" /\ admin'.carry = NoMsg
        /\ admin' \in [pc : {"none"}, old : 0..MaxGen, carry : Msgs \cup {NoMsg}]
    BY ConstantsAssumption DEF NoOp
  <2>2. CoreInv' /\ SingleHolder' /\ DeliverInv'
    BY <2>0, <2>1, QuietAdminStep DEF queueVars
  <2>3. TypeOK'
    <3>1. published' \in 0..MaxGen /\ lock' \in {"free", "call", "admin"}
      BY ConstantsAssumption
    <3> QED
      BY <2>0, <2>1, <3>1 DEF TypeOK, callVars, msgVars, queueVars
  <2>4. LockInv'
    BY <2>0, <2>1 DEF LockInv, Replacing, callVars
  <2>5. GenInv'
    <3>1. \A g \in 1..genCount : WorkersGone(g)
      BY <2>0 DEF Inv, GenInv
    <3>2. published' <= genCount
      BY <2>0 DEF TypeOK
    <3> QED
      BY <3>1, <3>2 DEF Inv, GenInv, WorkersGone, queueVars
  <2> QED
    BY <2>2, <2>3, <2>4, <2>5 DEF Inv, CoreInv
<1> QED
  BY <1>1, <1>2

\* Shutdown closes the published queue and then only waits and sweeps.
LEMMA ShutdownInv == ASSUME Inv, ShutdownBegin \/ ShutdownStep PROVE Inv'
<1>a. TypeOK /\ shutdown.gen \in 0..MaxGen /\ published \in 0..MaxGen
  BY DEF Inv, TypeOK
<1>b. 0 \in 0..MaxGen
  BY ConstantsAssumption
<1>0. TypeOK /\ shutdown.gen \in 0..MaxGen /\ published \in 0..MaxGen /\ 0 \in 0..MaxGen
  BY <1>a, <1>b
<1>1. CASE \E g \in Gens : DrainOne(g, "closed") /\ UNCHANGED <<callVars, closing, swept, worker, adminVars>>
  BY <1>1, DrainOneInv
<1>2. CASE /\ UNCHANGED <<callVars, msgVars, queue, worker, published, genCount, retired, lock, admin>>
           /\ closing' \subseteq Gens /\ swept' \subseteq Gens
           /\ shutdown' \in [pc : {"none", "range", "wait", "waitOld", "sweep", "done"},
                             gen : 0..MaxGen]
  <2>1. CoreInv' /\ SingleHolder' /\ DeliverInv'
    BY <1>2, QuietAdminStep
  <2>2. TypeOK'
    BY <1>0, <1>2 DEF TypeOK, callVars, msgVars
  <2>3. LockInv' /\ GenInv'
    BY <1>2 DEF Inv, LockInv, GenInv, Replacing, WorkersGone, callVars
  <2> QED
    BY <2>1, <2>2, <2>3 DEF Inv, CoreInv
<1>3. CASE ShutdownBegin \/ ShutdownRange \/ ShutdownWait \/ ShutdownWaitOld
  <2>1. shutdown' \in [pc : {"none", "range", "wait", "waitOld", "sweep", "done"},
                       gen : 0..MaxGen]
    <3>1. CASE ShutdownBegin
      BY <1>0, <3>1 DEF ShutdownBegin
    <3>2. CASE ShutdownRange \/ ShutdownWaitOld
      BY <1>0, <3>2 DEF ShutdownRange, ShutdownWaitOld
    <3>3. CASE ShutdownWait
      BY <1>0, <3>3 DEF ShutdownWait, TypeOK
    <3> QED
      BY <1>3, <3>1, <3>2, <3>3
  <2>2. closing' \subseteq Gens /\ swept' \subseteq Gens
    BY <1>0, <1>3 DEF ShutdownBegin, ShutdownRange, ShutdownWait, ShutdownWaitOld, TypeOK, queueVars
  <2> QED
    BY <1>2, <1>3, <2>1, <2>2
       DEF ShutdownBegin, ShutdownRange, ShutdownWait, ShutdownWaitOld, queueVars
<1>4. CASE ShutdownSweep
  <2>1. CASE shutdown.gen # 0 /\ DrainOne(shutdown.gen, "closed") /\ UNCHANGED <<shutdown, swept>>
    BY <1>0, <1>1, <1>4, <2>1 DEF ShutdownSweep, adminVars
  <2>2. CASE /\ swept' = swept \cup {shutdown.gen} /\ shutdown.gen # 0
             /\ shutdown' = [shutdown EXCEPT !.pc = "done"]
             /\ UNCHANGED <<queue, msgVars>>
    <3>1. closing' \subseteq Gens /\ swept' \subseteq Gens
      BY <1>0, <1>4, <2>2 DEF ShutdownSweep, TypeOK
    <3>2. shutdown' \in [pc : {"none", "range", "wait", "waitOld", "sweep", "done"},
                         gen : 0..MaxGen]
      BY <1>0, <2>2 DEF TypeOK
    <3> QED
      BY <1>2, <1>4, <2>2, <3>1, <3>2 DEF ShutdownSweep
  <2>3. CASE /\ shutdown' = [shutdown EXCEPT !.pc = "done"]
             /\ UNCHANGED <<queue, swept, msgVars>>
    BY <1>0, <1>2, <1>4, <2>3 DEF ShutdownSweep, TypeOK
  <2> QED
    BY <1>4, <2>1, <2>2, <2>3 DEF ShutdownSweep
<1> QED
  BY <1>3, <1>4 DEF ShutdownStep

-----------------------------------------------------------------------------
(* The theorems.                                                            *)

\* Every step of the specification, a stuttering one too, keeps the invariant.
LEMMA InvNext == Inv /\ [Next]_vars => Inv'
<1> SUFFICES ASSUME Inv, [Next]_vars PROVE Inv'
  OBVIOUS
<1>1. ASSUME NEW c \in Calls, CtxCancel(c) \/ CallStart(c) PROVE Inv'
  BY <1>1, CallStartInv
<1>2. ASSUME NEW c \in Calls, CallStep(c) PROVE Inv'
  BY <1>2, CallPreparedInv, CallAloneInv, getChannelMessageInv, CallBeforeSendInv,
     CallSendInv, CallReceiveInv DEF CallStep
<1>3. ASSUME NEW x \in WorkerIds, WorkerStep(x) PROVE Inv'
  BY <1>3, WorkerStepInv
<1>4. ASSUME NEW g \in Gens, Cleanup(g) PROVE Inv'
  BY <1>4, CleanupInv
<1>5. CASE AdminStart
  BY <1>5, UpdatePrepareInv, UpdateBeginInv, RemoveBeginInv DEF AdminStart
<1>6. CASE AdminStep
  <2>1. CASE UpdateCancelRest
    <3>1. admin.old \in Gens
      BY <2>1 DEF UpdateCancelRest, Inv, LockInv, Replacing
    <3> QED
      BY <2>1, <3>1, DrainOneInv DEF UpdateCancelRest
  <2> QED
    BY <1>6, <2>1, UpdatePreparedInv, UpdateTakeInv, UpdatePutInv, UpdateTransferredInv,
       UpdateRetireInv, RemoveStepInv DEF AdminStep
<1>7. CASE ShutdownBegin \/ ShutdownStep
  BY <1>7, ShutdownInv
<1>8. CASE UNCHANGED vars
  <2>1. UNCHANGED <<callVars, msgVars, queueVars, adminVars>>
    BY <1>8 DEF vars
  <2>2. CoreInv' /\ SingleHolder' /\ DeliverInv'
    BY <2>1, QuietAdminStep DEF queueVars, adminVars
  <2>3. TypeOK'
    BY <2>1 DEF Inv, TypeOK, callVars, msgVars, queueVars, adminVars
  <2>4. LockInv' /\ GenInv'
    BY <2>1 DEF Inv, LockInv, GenInv, Replacing, WorkersGone, callVars, queueVars, adminVars
  <2> QED
    BY <2>2, <2>3, <2>4 DEF Inv, CoreInv
<1> QED
  BY <1>1, <1>2, <1>3, <1>4, <1>5, <1>6, <1>7, <1>8 DEF Next

\* The inductive invariant holds in every behaviour of the request path, for any
\* number of calls, messages, generations and workers and any buffer sizes.
THEOREM InvariantHolds == Spec => []Inv
<1>1. Init => Inv
  BY InvInit
<1>2. Inv /\ [Next]_vars => Inv'
  BY InvNext
<1> QED
  BY <1>1, <1>2, PTL DEF Spec

\* Type correctness of the request path.
THEOREM TypeCorrect == Spec => []TypeOK
<1>1. Inv => TypeOK
  BY DEF Inv
<1> QED
  BY <1>1, InvariantHolds, PTL

\* No message some goroutine will still touch is in the pool: tryRequest's leak of
\* the messages of cancelled calls is what makes pooling safe.
THEOREM PoolingIsSafe == Spec => []NoUseAfterRelease
<1>1. Inv => NoUseAfterRelease
  <2> SUFFICES ASSUME Inv, NEW m \in Flight PROVE m \notin pool /\ callOf[m] # NoCall
    BY DEF NoUseAfterRelease
  <2> QED
    BY FlightOwner, ConstantsAssumption
<1> QED
  BY <1>1, InvariantHolds, PTL

\* The transfer of UpdateProvider, the drain loops and the workers never
\* duplicate a message.
THEOREM NoDuplication == Spec => []SingleHolder
<1>1. Inv => SingleHolder
  BY DEF Inv
<1> QED
  BY <1>1, InvariantHolds, PTL

\* No send of a worker or of a drain loop blocks.
THEOREM SendsNeverBlock == Spec => []AnswersNeverBlock
<1>1. Inv => AnswersNeverBlock
  BY DEF Inv, FlightInv, AnswersNeverBlock
<1> QED
  BY <1>1, InvariantHolds, PTL

\* A call returns its own answer only.
THEOREM AnswersReachTheirCall == Spec => []NoCrossTalk
<1>1. Inv => NoCrossTalk
  BY DEF Inv, CallInv, NoCrossTalk
<1> QED
  BY <1>1, InvariantHolds, PTL

\* Post-hooks run at most once per call.
THEOREM HooksRunOnce == Spec => []HooksAtMostOnce
<1>1. Inv => HooksAtMostOnce
  BY DEF Inv, CallInv, HooksAtMostOnce
<1> QED
  BY <1>1, InvariantHolds, PTL

\* After RemoveProvider no worker of any generation is left.
THEOREM RemovalIsComplete == Spec => []RemoveWaitsForAll
<1>1. Inv => RemoveWaitsForAll
  <2> SUFFICES ASSUME Inv, published = 0, lock = "free", NEW g \in Gens PROVE WorkersGone(g)
    BY DEF RemoveWaitsForAll
  <2>1. admin.pc = "none" /\ retired = {} /\ genCount \in Gens
    BY DEF Inv, LockInv, GenInv, TypeOK
  <2>2. CASE g \in 1..genCount
    BY <2>1, <2>2 DEF Inv, GenInv, Replacing
  <2>3. CASE g > genCount
    BY <2>1, <2>3 DEF Inv, GenInv, WorkerIds, WorkersGone, Off
  <2> QED
    BY <2>1, <2>2, <2>3
<1> QED
  BY <1>1, InvariantHolds, PTL

-----------------------------------------------------------------------------
(* The request path implements its contract.                                *)

\* A call that returns resolves its attempt, with an outcome that fits what the
\* provider did.
LEMMA ResolveStep ==
  ASSUME Inv, Inv', NEW c \in Calls, stage[c] # "returned", NEW a, Return(c, a), execs' = execs
  PROVE  Contract!Next
<1> DEFINE f == [d \in Calls |-> OutcomeOf(result[d])]
<1> DEFINE o == OutcomeOf(a)
<1>1. /\ result \in [Calls -> Results \cup {NoAnswer}]
      /\ stage \in [Calls -> Stages]
      /\ result' \in [Calls -> Results \cup {NoAnswer}]
      /\ result' = [result EXCEPT ![c] = a]
      /\ stage' = [stage EXCEPT ![c] = "returned"]
  BY DEF Inv, TypeOK, Return
<1>2. result'[c] = a /\ stage'[c] = "returned" /\ \A d \in Calls : d # c => result'[d] = result[d]
  BY <1>1
<1>3. result[c] = NoAnswer
  BY DEF Inv, CallInv
<1>4. /\ result'[c] # NoAnswer
      /\ result'[c].kind \in ProviderOutcomes => execs'[c] = 1
      /\ result'[c].kind \notin ProviderOutcomes \cup {"none", "cancelled"} => execs'[c] = 0
  BY <1>2 DEF Inv, CallInv
<1>5. a \in Results /\ a # NoAnswer
  BY <1>1, <1>2, <1>4
<1>6. a.kind # "none"
  BY <1>5 DEF Results, AnswerKinds, LocalKinds
<1>7. /\ o \in {"provider", "refused", "cancelled"}
      /\ o = "provider" => execs[c] = 1
      /\ o = "refused" => execs[c] = 0
  BY <1>2, <1>4, <1>5, <1>6 DEF OutcomeOf, ProviderOutcomes
<1>8. f[c] = "open"
  BY <1>3 DEF OutcomeOf, ProviderOutcomes, NoAnswer
<1>9. [d \in Calls |-> OutcomeOf(result'[d])] = [f EXCEPT ![c] = o]
  BY <1>2
<1>10. Contract!Resolve(c, o)
  BY <1>7, <1>8, <1>9 DEF Contract!Resolve
<1> QED
  BY <1>7, <1>10 DEF Contract!Next

\* A worker's provider call is the contract's execution: its caller still waits
\* or was cancelled, and no one executed the call before.
LEMMA ExecuteStep ==
  ASSUME Inv, NEW x \in WorkerIds, WorkerExecute(x)
  PROVE  Contract!Next
<1>m. PICK m : m = worker[x].msg
  OBVIOUS
<1>c. PICK c : c = callOf[m]
  OBVIOUS
<1>1. m \in Msgs /\ worker[x].pc = "busy" /\ worker[x] \in WorkerStates
  BY <1>m, WorkerShape DEF Inv, TypeOK, WorkerExecute
<1>2. m \in Flight /\ m \notin Delivering
  <2>1. m \in Flight
    BY <1>m, <1>1 DEF Flight
  <2>2. m # NoMsg
    BY <1>1, ConstantsAssumption
  <2> QED
    BY <1>m, <1>1, <2>1, <2>2 DEF Delivering, Inv, SingleHolder
<1>3. c \in Calls /\ execs[c] = 0
  BY <1>c, <1>2, FlightOwner DEF Inv, ExecInv
<1>4. OutcomeOf(result[c]) \in {"open", "cancelled"}
  <2>1. stage[c] = "wait" \/ (stage[c] = "returned" /\ result[c].kind = "cancelled")
    BY <1>c, <1>2 DEF Inv, FlightInv
  <2>2. stage[c] = "wait" => result[c] = NoAnswer
    BY <1>3 DEF Inv, CallInv
  <2> QED
    BY <2>1, <2>2 DEF OutcomeOf, ProviderOutcomes, NoAnswer
<1>5. execs' = [execs EXCEPT ![c] = 1] /\ result' = result
  BY <1>m, <1>c, <1>3 DEF WorkerExecute, Inv, TypeOK
<1>6. Contract!Execute(c)
  BY <1>3, <1>4, <1>5 DEF Contract!Execute
<1> QED
  BY <1>3, <1>6 DEF Contract!Next

\* A step that neither returns nor executes stutters in the contract.
LEMMA ContractStutter ==
  ASSUME UNCHANGED <<result, execs>>
  PROVE  UNCHANGED Contract!vars
  BY DEF Contract!vars

\* Every step of the request path is a step of the contract, or none.
LEMMA ContractNext ==
  ASSUME Inv, Inv', [Next]_vars
  PROVE  [Contract!Next]_(Contract!vars)
<1> USE DEF callVars
<1>1. ASSUME NEW c \in Calls, CtxCancel(c) \/ CallStart(c) PROVE [Contract!Next]_(Contract!vars)
  <2>1. CASE CallNoProvider(c)
    BY <2>1, ResolveStep DEF CallNoProvider
  <2>2. CASE CtxCancel(c) \/ CallGetQueue(c) \/ CallLazyCreate(c)
    BY <2>2, ContractStutter DEF CtxCancel, CallGetQueue, CallLazyCreate
  <2> QED
    BY <1>1, <2>1, <2>2 DEF CallStart
<1>2. ASSUME NEW c \in Calls, CallStep(c) PROVE [Contract!Next]_(Contract!vars)
  <2>1. CASE UNCHANGED <<result, execs>>
    BY <2>1, ContractStutter
  <2>2. CASE stage[c] # "returned" /\ execs' = execs /\ \E a : Return(c, a)
    BY <2>2, ResolveStep
  <2>3. CASE CallPrepared(c) \/ CallCheck(c) \/ CallReroute(c)
    BY <2>1, <2>2, <2>3 DEF CallPrepared, CallCheck, CallReroute
  <2>4. CASE \/ CallShortCircuit(c) \/ CallNoRequest(c) \/ CallGiveUp(c)
             \/ CallReceive(c) \/ CallAbandon(c)
    BY <2>2, <2>4 DEF CallShortCircuit, CallNoRequest, CallGiveUp, CallReceive, CallAbandon
  <2>5. CASE getChannelMessage(c) \/ CallSend(c)
    BY <2>1, <2>5 DEF getChannelMessage, CallSend
  <2>6. CASE CallQueueFull(c)
    BY <2>1, <2>2, <2>6 DEF CallQueueFull
  <2> QED
    BY <1>2, <2>3, <2>4, <2>5, <2>6 DEF CallStep
<1>3. ASSUME NEW x \in WorkerIds, WorkerStep(x) PROVE [Contract!Next]_(Contract!vars)
  <2>1. CASE WorkerExecute(x)
    BY <2>1, ExecuteStep
  <2>2. CASE ~WorkerExecute(x)
    BY <1>3, <2>2, ContractStutter
       DEF WorkerStep, WorkerReceive, WorkerKeyError, WorkerDeliver, WorkerSeeDone, WorkerDrain
  <2> QED
    BY <2>1, <2>2
<1>4. ASSUME NEW g \in Gens, Cleanup(g) PROVE [Contract!Next]_(Contract!vars)
  BY <1>4, ContractStutter DEF Cleanup
<1>5. CASE AdminStart
  BY <1>5, ContractStutter DEF AdminStart, UpdatePrepare, UpdateBegin, RemoveBegin
<1>6. CASE AdminStep
  BY <1>6, ContractStutter DEF AdminStep, UpdatePrepared, UpdateTake, UpdatePut,
     UpdateCancelRest, UpdateTransferred, UpdateRetire, RemoveSweep, RemoveFinish
<1>7. CASE ShutdownBegin \/ ShutdownStep
  BY <1>7, ContractStutter DEF ShutdownBegin, ShutdownStep, ShutdownRange, ShutdownWait,
     ShutdownWaitOld, ShutdownSweep
<1>8. CASE UNCHANGED vars
  BY <1>8, ContractStutter DEF vars
<1> QED
  BY <1>1, <1>2, <1>3, <1>4, <1>5, <1>6, <1>7, <1>8 DEF Next

\* The request path implements CallContract: a provider executes a call at most
\* once, and a call that was refused was not and will not be executed.
THEOREM ImplementsContract == Spec => ContractSpec
<1>1. Init => Contract!Init
  <2>1. OutcomeOf(NoAnswer) = "open"
    BY DEF OutcomeOf, ProviderOutcomes, NoAnswer
  <2> QED
    BY <2>1 DEF Init, Contract!Init
<1>2. Inv /\ [Next]_vars => Inv'
  BY InvNext
<1>3. Inv /\ Inv' /\ [Next]_vars => [Contract!Next]_(Contract!vars)
  BY ContractNext
<1>4. Spec => []Inv
  BY InvariantHolds
<1> QED
  BY <1>1, <1>3, <1>4, PTL DEF Spec, ContractSpec, Contract!Spec

=============================================================================
