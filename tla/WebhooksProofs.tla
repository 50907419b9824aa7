--------------------------- MODULE WebhooksProofs ---------------------------
(***************************************************************************)
(* Proofs about Webhooks, and AsyncJobs under it, for any number of        *)
(* processes, jobs, delivery goroutines and events: types, that the fence  *)
(* admits one goroutine, that events agree with the stored results, that   *)
(* results are final, that what leaves the queue is recorded, and that     *)
(* goroutines with a stale row buy a bounded number of retries.            *)
(***************************************************************************)
EXTENDS Webhooks, FiniteSetTheorems, TLAPS

(***************************************************************************)
(* The inductive invariant.                                                *)
(***************************************************************************)

\* Nothing is announced before the goroutine of a job has ended; until it is about to
\* announce it no result is stored, and then it is the stored one.
JobInv ==
    \A j \in Jobs :
        /\ exec[j] \in {"idle", "mark", "run", "store"} => job[j] \notin Terminal
        /\ exec[j] = "notify" => job[j] \in {result[j], "deleted"}
        /\ exec[j] # "ended" => event[j] = "none"
        /\ event[j] # "none" => job[j] \in {event[j], "deleted"}
        /\ j \in queued => event[j] # "none"

\* A claim that was not the last one of its row is over.
LeaseInv ==
    /\ \A w \in Workers : pc[w] \in {"claim", "deliver", "record", "settle"} => work[w].lease > Lease
    /\ \A w \in Claimers :
          /\ event[work[w].job] # "none"
          /\ \/ work[w].lease < now
             \/ work[w].job \in queued /\ until[work[w].job] = work[w].lease

\* Records tell the event of their job, and a goroutine about to settle has written its.
RecordInv ==
    /\ \A h \in history : h.event # "none" /\ event[h.job] = h.event
    /\ \A w \in Workers : pc[w] = "settle" => RecordOf(w) \in history

WebhookInv ==
    /\ TypeOK
    /\ JobInv
    /\ LeaseInv
    /\ FenceAdmitsOne
    /\ RecordInv

-----------------------------------------------------------------------------
(***************************************************************************)
(* Types.                                                                  *)
(***************************************************************************)

WorkType ==
    [node : Nodes, job : Jobs, listed : Nat, ep : EndpointStates, lease : Nat, outcome : Outcomes]

RecordType == [job : Jobs, event : {"none"} \cup Terminal, outcome : Outcomes]

Runners == {NoRunner} \cup {RunnerID[n] : n \in Nodes}

Steps == {"free", "begin", "claim", "deliver", "record", "settle"}

\* The types of the rows alone.
RowsOK ==
    /\ queued \subseteq Jobs
    /\ event \in [Jobs -> {"none"} \cup Terminal]
    /\ count \in [Jobs -> Nat] /\ due \in [Jobs -> Nat] /\ until \in [Jobs -> Nat]
    /\ by \in [Jobs -> Runners]

\* The types of what the rest of the system keeps.
OthersOK ==
    /\ job \in [Jobs -> Statuses]
    /\ exec \in [Jobs -> Places]
    /\ host \in [Jobs -> Nodes]
    /\ result \in [Jobs -> Terminal]
    /\ up \in [Nodes -> {"up", "stopping", "down"}]
    /\ endpoint \in EndpointStates
    /\ resolver \in [Nodes -> EndpointStates]
    /\ events \in 0..MaxEvents
    /\ now \in Nat \ {0}

\* The types of the goroutines and of the history.
WorkOK ==
    /\ history \subseteq RecordType
    /\ pc \in [Workers -> Steps]
    /\ work \in [Workers -> WorkType]

LEMMA TypeParts == TypeOK <=> RowsOK /\ OthersOK /\ WorkOK
BY DEF TypeOK, RowsOK, OthersOK, WorkOK, RecordType, Steps, WorkType, Runners

LEMMA NextTypeParts == RowsOK' /\ OthersOK' /\ WorkOK' => TypeOK'
BY DEF TypeOK, RowsOK, OthersOK, WorkOK, RecordType, Steps, WorkType, Runners

\* A goroutine without a row has locals of the right types.
LEMMA NoWorkType == NoWork \in WorkType
<1>1. (CHOOSE n \in Nodes : TRUE) \in Nodes /\ (CHOOSE j \in Jobs : TRUE) \in Jobs
  BY AsyncJobsAssumption
<1> QED
  BY <1>1 DEF NoWork, WorkType, EndpointStates, Outcomes

\* An event is counted within its bound.
LEMMA HappensType ==
  ASSUME OthersOK, Happens
  PROVE  events' \in 0..MaxEvents
BY AsyncJobsAssumption DEF OthersOK, Happens

\* The endpoint can be set to nothing else than its states.
LEMMA SettingsType == Settings \subseteq EndpointStates
BY AsyncJobsAssumption

LEMMA InitTypes == Init => TypeOK
<1> SUFFICES ASSUME Init
             PROVE  RowsOK /\ OthersOK /\ WorkOK
  BY TypeParts
<1>1. RowsOK
  BY DEF Init, RowsOK, Runners
<1>2. OthersOK
  BY AsyncJobsAssumption
  DEF Init, AsyncInit, OthersOK, Statuses, Places, Terminal, EndpointStates
<1>3. WorkOK
  BY NoWorkType DEF Init, WorkOK, Steps
<1> QED
  BY <1>1, <1>2, <1>3

\* Steps of the executor and of the cleaner.
LEMMA ExecuteTypes ==
  ASSUME TypeOK, NEW j \in Jobs, Execute(j)
  PROVE  TypeOK'
<1> USE DEF Statuses, Places, Terminal
<1>1. OthersOK /\ RowsOK /\ WorkOK
  BY TypeParts
<1>2. RowsOK' /\ WorkOK' /\ now' \in Nat \ {0}
  BY <1>1 DEF Execute, hookVars, rowVars, RowsOK, WorkOK, OthersOK
<1> SUFFICES OthersOK'
  BY <1>2, NextTypeParts
<1>3. ASSUME NEW n \in Nodes, SubmitJob(n, j)
      PROVE  OthersOK'
  BY <1>1, <1>2, <1>3 DEF OthersOK, SubmitJob, nodeVars
<1>4. CASE MarkProcessing(j)
  BY <1>1, <1>2, <1>4, HappensType DEF OthersOK, MarkProcessing, UpdateAsyncJob, nodeVars
<1>5. CASE Operate(j)
  BY <1>1, <1>2, <1>5 DEF OthersOK, Operate, nodeVars
<1>6. CASE StoreResult(j)
  BY <1>1, <1>2, <1>6, HappensType DEF OthersOK, StoreResult, UpdateAsyncJob, nodeVars
<1>7. CASE DeleteExpired(j) \/ DeleteStale(j)
  BY <1>1, <1>2, <1>7 DEF OthersOK, DeleteExpired, DeleteStale, nodeVars, execVars
<1> QED
  BY <1>3, <1>4, <1>5, <1>6, <1>7 DEF Execute

\* A row that is inserted.
LEMMA CreateTypes ==
  ASSUME RowsOK, now \in Nat, NEW j \in Jobs, NEW e \in Terminal, CreateWebhookJob(j, e)
  PROVE  RowsOK'
BY DEF RowsOK, CreateWebhookJob, Runners

\* notifyWebhook, and the redelivery of a record.
LEMMA EnqueueTypes ==
  ASSUME TypeOK, RecordInv,
         \/ \E j \in Jobs : Notify(j)
         \/ \E n \in Nodes, h \in history : Redeliver(n, h)
  PROVE  TypeOK'
<1>1. OthersOK /\ RowsOK /\ WorkOK
  BY TypeParts
<1>2. ASSUME NEW j \in Jobs, Notify(j)
      PROVE  TypeOK'
  <2>1. WorkOK'
    BY <1>1, <1>2 DEF Notify, WorkOK
  <2>2. OthersOK'
    BY <1>1, <1>2, HappensType DEF Notify, OthersOK, nodeVars, Places
  <2>3. RowsOK'
    BY <1>1, <1>2, CreateTypes DEF Notify, OthersOK, RowsOK, rowVars
  <2> QED
    BY <2>1, <2>2, <2>3, NextTypeParts
<1>3. ASSUME NEW n \in Nodes, NEW h \in history, Redeliver(n, h)
      PROVE  TypeOK'
  <2>1. WorkOK'
    BY <1>1, <1>3 DEF Redeliver, WorkOK
  <2>2. OthersOK'
    BY <1>1, <1>3, HappensType DEF Redeliver, OthersOK, nodeVars, execVars
  <2>3. h.job \in Jobs /\ h.event \in Terminal
    BY <1>1 DEF WorkOK, RecordType, RecordInv
  <2>4. RowsOK'
    BY <1>1, <1>3, <2>3, CreateTypes DEF Redeliver, OthersOK
  <2> QED
    BY <2>1, <2>2, <2>4, NextTypeParts
<1> QED
  BY <1>2, <1>3

\* A statement of a goroutine counts its failures within the bound.
LEMMA StatementType ==
  ASSUME OthersOK, NEW w \in Workers, StoreOK(w) \/ StoreError(w)
  PROVE  events' \in 0..MaxEvents
BY HappensType DEF OthersOK, StoreOK, StoreError

\* A goroutine that returns.
LEMMA ExitTypes ==
  ASSUME WorkOK, NEW w \in Workers, Exit(w)
  PROVE  pc' \in [Workers -> Steps] /\ work' \in [Workers -> WorkType]
BY NoWorkType DEF WorkOK, Exit, Goto, Steps

\* A scan starts a goroutine.
LEMMA ScanTypes ==
  ASSUME TypeOK, NEW n \in Nodes, NEW j \in Jobs, Scan(n, j)
  PROVE  TypeOK'
<1>1. OthersOK /\ RowsOK /\ WorkOK
  BY TypeParts
<1>2. RowsOK' /\ OthersOK'
  BY <1>1 DEF Scan, RowsOK, OthersOK, asyncVars, execVars, nodeVars, rowVars
<1>3. PICK w \in Workers :
        /\ pc' = [pc EXCEPT ![w] = "begin"]
        /\ work' = [work EXCEPT ![w].node = n, ![w].job = j, ![w].listed = count[j]]
  BY DEF Scan, Goto
<1>4. count[j] \in Nat /\ work[w] \in WorkType /\ UNCHANGED history
  BY <1>1 DEF RowsOK, WorkOK, Scan
<1>5. work'[w] = [work[w] EXCEPT !.node = n, !.job = j, !.listed = count[j]]
  BY <1>1, <1>3 DEF WorkOK
<1>6. work'[w] \in WorkType
  BY <1>4, <1>5 DEF WorkType
<1>7. WorkOK'
  BY <1>1, <1>3, <1>4, <1>6 DEF WorkOK, Steps
<1> QED
  BY <1>2, <1>7, NextTypeParts

\* Steps of a delivery goroutine; the lease it computed is longer than Lease.
LEMMA AttemptTypes ==
  ASSUME TypeOK, LeaseInv, NEW w \in Workers, Attempt(w)
  PROVE  TypeOK'
<1>1. OthersOK /\ RowsOK /\ WorkOK
  BY TypeParts
<1>2. work[w] \in WorkType
  BY <1>1 DEF WorkOK
<1>3. CASE Begin(w)
  <2>1. RowsOK' /\ OthersOK'
    BY <1>1, <1>3 DEF Begin, RowsOK, OthersOK, asyncVars, execVars, nodeVars, rowVars
  <2>2. resolver[work[w].node] \in EndpointStates /\ now + Lease \in Nat
    BY <1>1, <1>2, WebhooksAssumption DEF OthersOK, WorkType
  <2>3. WorkOK'
    BY <1>1, <1>2, <1>3, <2>2 DEF Begin, Goto, WorkOK, Steps, WorkType
  <2> QED
    BY <2>1, <2>3, NextTypeParts
<1>4. CASE Claim(w)
  <2>1. OthersOK'
    BY <1>1, <1>4, StatementType DEF Claim, OthersOK, execVars, nodeVars
  <2>2. RowsOK'
    BY <1>1, <1>2, <1>4 DEF Claim, RowsOK, WorkType, Runners
  <2>3. WorkOK'
    BY <1>1, <1>4, ExitTypes DEF Claim, Goto, WorkOK, Steps
  <2> QED
    BY <2>1, <2>2, <2>3, NextTypeParts
<1>5. CASE Deliver(w)
  <2>1. RowsOK' /\ OthersOK'
    BY <1>1, <1>5, StatementType DEF Deliver, RowsOK, OthersOK, execVars, nodeVars, rowVars
  <2>2. \A o \in Outcomes : Verdict(w, o) \in Outcomes
    BY DEF Verdict, Outcomes
  <2>3. WorkOK'
    BY <1>1, <1>2, <1>5, <2>2, ExitTypes DEF Deliver, Goto, WorkOK, Steps, WorkType
  <2> QED
    BY <2>1, <2>3, NextTypeParts
<1>6. CASE Record(w)
  <2>1. RowsOK' /\ OthersOK'
    BY <1>1, <1>6, StatementType DEF Record, RowsOK, OthersOK, execVars, nodeVars, rowVars
  <2>2. RecordOf(w) \in RecordType
    BY <1>1, <1>2 DEF RecordOf, RecordType, WorkType, RowsOK
  <2>3. WorkOK'
    BY <1>1, <1>6, <2>2, ExitTypes DEF Record, Goto, WorkOK, Steps
  <2> QED
    BY <2>1, <2>3, NextTypeParts
<1>7. CASE Settle(w)
  <2>1. OthersOK'
    BY <1>1, <1>7, StatementType DEF Settle, OthersOK, execVars, nodeVars
  <2>2. WorkOK'
    BY <1>1, <1>7, ExitTypes DEF Settle, WorkOK
  <2>3. work[w].job \in Jobs /\ work[w].lease - Lease + Backoff \in Nat
    BY <1>2, <1>7, WebhooksAssumption DEF Settle, LeaseInv, WorkType
  <2>4. RowsOK'
    BY <1>1, <1>7, <2>3 DEF Settle, Reschedule, Retire, RowsOK, rowVars, Runners
  <2> QED
    BY <2>1, <2>2, <2>4, NextTypeParts
<1> QED
  BY <1>3, <1>4, <1>5, <1>6, <1>7 DEF Attempt

\* The goroutines of a process that stops are lost.
LEMMA DownTypes ==
  ASSUME TypeOK, NEW n \in Nodes, Crash(n) \/ Halt(n)
  PROVE  TypeOK'
<1>1. OthersOK /\ RowsOK /\ WorkOK
  BY TypeParts
<1>2. Down(n) /\ events' \in 0..MaxEvents
  BY <1>1, HappensType DEF Crash, Halt, OthersOK
<1>3. RowsOK'
  BY <1>1, <1>2 DEF Down, RowsOK, rowVars
<1>4. OthersOK'
  BY <1>1, <1>2 DEF Down, OthersOK, Places
<1>5. WorkOK'
  BY <1>1, <1>2, NoWorkType DEF Down, WorkOK, Steps
<1> QED
  BY <1>3, <1>4, <1>5, NextTypeParts

\* What the history, the clock, the processes and the administrators do.
LEMMA RestTypes ==
  ASSUME TypeOK,
         \/ \E h \in history : Reap(h)
         \/ \E n \in Nodes : Stop(n) \/ Restart(n) \/ \E s \in Settings : UpdateEndpoint(n, s)
         \/ Tick
         \/ UNCHANGED vars
  PROVE  TypeOK'
<1>1. OthersOK /\ RowsOK /\ WorkOK
  BY TypeParts
<1>2. RowsOK' /\ WorkOK'
  BY <1>1 DEF Reap, Stop, Restart, UpdateEndpoint, Tick, vars, hookVars, rowVars, RowsOK, WorkOK
<1> SUFFICES OthersOK'
  BY <1>2, NextTypeParts
<1>3. ASSUME NEW h \in history, Reap(h)
      PROVE  OthersOK'
  BY <1>1, <1>3 DEF Reap, OthersOK, asyncVars, execVars, nodeVars
<1>4. ASSUME NEW n \in Nodes, Stop(n) \/ Restart(n)
      PROVE  OthersOK'
  BY <1>1, <1>4, HappensType DEF Stop, Restart, OthersOK, execVars, hookVars
<1>5. ASSUME NEW n \in Nodes, NEW s \in Settings, UpdateEndpoint(n, s)
      PROVE  OthersOK'
  BY <1>1, <1>5, HappensType, SettingsType DEF UpdateEndpoint, OthersOK, execVars, hookVars
<1>6. CASE Tick
  BY <1>1, <1>6, HappensType DEF Tick, OthersOK, execVars, nodeVars
<1>7. CASE UNCHANGED vars
  BY <1>1, <1>7 DEF vars, OthersOK, asyncVars, execVars, nodeVars, hookVars
<1> QED
  BY <1>3, <1>4, <1>5, <1>6, <1>7

\* Every step keeps the types.
LEMMA NextTypes ==
  ASSUME TypeOK, LeaseInv, RecordInv, [Next]_vars
  PROVE  TypeOK'
BY ExecuteTypes, EnqueueTypes, ScanTypes, AttemptTypes, DownTypes, RestTypes DEF Next

-----------------------------------------------------------------------------
(***************************************************************************)
(* What each kind of step does to the rest of the invariant.               *)
(***************************************************************************)

LEMMA InitInvariant == Init => WebhookInv
<1> SUFFICES ASSUME Init
             PROVE  WebhookInv
  OBVIOUS
<1>1. Claimers = {} /\ \A w \in Workers : pc[w] = "free"
  BY DEF Init, Claimers
<1>2. JobInv
  BY DEF Init, AsyncInit, JobInv, Terminal
<1> QED
  BY <1>1, <1>2, InitTypes DEF WebhookInv, LeaseInv, FenceAdmitsOne, RecordInv, Init

\* Goroutines that keep their place, row and lease, or end, and rows that keep claim
\* and event: the claims stay in order.
LEMMA ClaimsKept ==
  ASSUME WebhookInv, TypeOK',
         now' \in {now, now + 1}, UNCHANGED event,
         \A w \in Claimers' :
            /\ w \in Claimers
            /\ work'[w].job = work[w].job /\ work'[w].lease = work[w].lease
            /\ \/ work[w].lease < now
               \/ /\ work[w].job \in queued => work[w].job \in queued'
                  /\ until'[work[w].job] = until[work[w].job]
  PROVE  /\ FenceAdmitsOne'
         /\ \A w \in Claimers' :
               /\ event'[work'[w].job] # "none"
               /\ \/ work'[w].lease < now'
                  \/ work'[w].job \in queued' /\ until'[work'[w].job] = work'[w].lease
<1>1. FenceAdmitsOne'
  BY DEF WebhookInv, FenceAdmitsOne
<1>2. now \in Nat /\ \A w \in Workers : work[w].lease \in Nat
  BY DEF WebhookInv, TypeOK
<1>3. ASSUME NEW w \in Claimers'
      PROVE  /\ event'[work'[w].job] # "none"
             /\ \/ work'[w].lease < now'
                \/ work'[w].job \in queued' /\ until'[work'[w].job] = work'[w].lease
  <2>1. w \in Claimers /\ w \in Workers
    BY <1>3 DEF Claimers
  <2> QED
    BY <1>2, <1>3, <2>1 DEF WebhookInv, LeaseInv
<1> QED
  BY <1>1, <1>3

\* Steps of the executor and of the cleaner announce nothing.
LEMMA ExecuteKeeps ==
  ASSUME WebhookInv, TypeOK', NEW j \in Jobs, Execute(j)
  PROVE  WebhookInv'
<1>1. UNCHANGED <<now, queued, event, count, due, by, until, history, pc, work>>
  BY DEF Execute, hookVars, rowVars
<1>2. LeaseInv' /\ FenceAdmitsOne' /\ RecordInv'
  BY <1>1 DEF WebhookInv, LeaseInv, FenceAdmitsOne, RecordInv, RecordOf, Claimers
<1> USE DEF Terminal
<1>3. TypeOK /\ JobInv
  BY DEF WebhookInv
<1>4. ASSUME NEW n \in Nodes, SubmitJob(n, j)
      PROVE  JobInv'
  BY <1>1, <1>3, <1>4 DEF SubmitJob, JobInv, TypeOK, nodeVars
<1>5. CASE MarkProcessing(j)
  <2>1. JobInv'
    BY <1>1, <1>3, <1>5 DEF MarkProcessing, UpdateAsyncJob, JobInv, TypeOK, nodeVars
  <2> QED
    BY <1>2, <2>1 DEF WebhookInv
<1>6. CASE Operate(j)
  <2>1. JobInv'
    BY <1>1, <1>3, <1>6 DEF Operate, JobInv, TypeOK, nodeVars
  <2> QED
    BY <1>2, <2>1 DEF WebhookInv
<1>7. CASE StoreResult(j)
  <2>1. JobInv'
    BY <1>1, <1>3, <1>7 DEF StoreResult, UpdateAsyncJob, JobInv, TypeOK, nodeVars
  <2> QED
    BY <1>2, <2>1 DEF WebhookInv
<1>8. CASE DeleteExpired(j) \/ DeleteStale(j)
  <2>1. JobInv'
    BY <1>1, <1>3, <1>8 DEF DeleteExpired, DeleteStale, JobInv, TypeOK, nodeVars, execVars
  <2> QED
    BY <1>2, <2>1 DEF WebhookInv
<1> QED
  BY <1>2, <1>4, <1>5, <1>6, <1>7, <1>8 DEF Execute, WebhookInv

\* notifyWebhook: until now no row, no record and no goroutine knew of the job.
LEMMA NotifyKeeps ==
  ASSUME WebhookInv, TypeOK', NEW j \in Jobs, Notify(j)
  PROVE  WebhookInv'
<1>1. TypeOK /\ JobInv /\ LeaseInv /\ RecordInv /\ FenceAdmitsOne
  BY DEF WebhookInv
<1>2. event[j] = "none" /\ j \notin queued
  BY <1>1 DEF Notify, JobInv
<1>3. UNCHANGED <<job, result, now, history, pc, work>> /\ exec' = [exec EXCEPT ![j] = "ended"]
  BY DEF Notify
<1>4. /\ event' \in {event, [event EXCEPT ![j] = result[j]]}
      /\ queued' \in {queued, queued \cup {j}}
      /\ event' = event => queued' = queued
      /\ \A i \in Jobs \ {j} : until'[i] = until[i] /\ event'[i] = event[i]
  <2>1. CASE CreateWebhookJob(j, result[j])
    <3>1. event' = [event EXCEPT ![j] = result[j]] /\ queued' = queued \cup {j}
      BY <2>1 DEF CreateWebhookJob
    <3>2. event'[j] # event[j]
      BY <1>1, <1>2, <3>1 DEF TypeOK, Terminal
    <3> QED
      BY <1>1, <2>1, <3>1, <3>2 DEF CreateWebhookJob, TypeOK
  <2>2. CASE UNCHANGED rowVars
    BY <2>2 DEF rowVars
  <2> QED
    BY <2>1, <2>2 DEF Notify
<1>5. \A w \in Claimers : work[w].job \in Jobs \ {j}
  BY <1>1, <1>2 DEF LeaseInv, TypeOK, Claimers
<1>6. JobInv'
  BY <1>1, <1>2, <1>3, <1>4 DEF Notify, JobInv, TypeOK, Terminal
<1>7. FenceAdmitsOne'
  BY <1>1, <1>3 DEF FenceAdmitsOne, Claimers
<1>8. LeaseInv'
  BY <1>1, <1>3, <1>4, <1>5 DEF LeaseInv, Claimers
<1>9. RecordInv'
  <2>1. \A h \in history : h.job \in Jobs \ {j}
    BY <1>1, <1>2 DEF RecordInv, TypeOK
  <2>2. \A w \in Workers : pc[w] = "settle" => RecordOf(w)' = RecordOf(w)
    BY <1>3, <1>4, <1>5 DEF RecordOf, Claimers
  <2> QED
    BY <1>1, <1>3, <1>4, <2>1, <2>2 DEF RecordInv
<1> QED
  BY <1>6, <1>7, <1>8, <1>9 DEF WebhookInv

\* A redelivery: the goroutines that still hold the row that was removed are too late.
LEMMA RedeliverKeeps ==
  ASSUME WebhookInv, TypeOK', NEW n \in Nodes, NEW h \in history, Redeliver(n, h)
  PROVE  WebhookInv'
<1>1. TypeOK /\ JobInv /\ LeaseInv /\ RecordInv /\ FenceAdmitsOne
  BY DEF WebhookInv
<1>2. h.job \in Jobs /\ event[h.job] = h.event /\ h.event # "none" /\ h.job \notin queued
  BY <1>1 DEF RecordInv, TypeOK, Redeliver
<1>3. UNCHANGED <<job, exec, result, now, history, pc, work>>
  BY DEF Redeliver, execVars
<1>4. /\ event' = event
      /\ queued' = queued \cup {h.job}
      /\ \A i \in Jobs \ {h.job} : until'[i] = until[i]
  BY <1>1, <1>2 DEF Redeliver, CreateWebhookJob, TypeOK
<1>5. JobInv'
  BY <1>1, <1>2, <1>3, <1>4 DEF JobInv
<1>6. RecordInv'
  BY <1>1, <1>3, <1>4 DEF RecordInv, RecordOf
<1>7. \A w \in Claimers : work[w].lease < now \/ work[w].job \in Jobs \ {h.job}
  BY <1>1, <1>2 DEF LeaseInv, TypeOK, Claimers
<1>8. Claimers' = Claimers
  BY <1>3 DEF Claimers
<1>9. /\ FenceAdmitsOne'
      /\ \A w \in Claimers' :
            /\ event'[work'[w].job] # "none"
            /\ \/ work'[w].lease < now'
               \/ work'[w].job \in queued' /\ until'[work'[w].job] = work'[w].lease
  BY <1>3, <1>4, <1>7, <1>8, ClaimsKept
<1>10. LeaseInv'
  BY <1>1, <1>3, <1>9 DEF LeaseInv
<1> QED
  BY <1>5, <1>6, <1>9, <1>10 DEF WebhookInv

\* A scan and the start of an attempt touch no goroutine that claimed its row.
LEMMA StartKeeps ==
  ASSUME WebhookInv, TypeOK',
         \/ \E n \in Nodes, j \in Jobs : Scan(n, j)
         \/ \E w \in Workers : Begin(w)
  PROVE  WebhookInv'
<1>1. TypeOK /\ JobInv /\ LeaseInv /\ RecordInv /\ FenceAdmitsOne
  BY DEF WebhookInv
<1>2. UNCHANGED <<job, exec, result, now, queued, event, until, history>>
  BY DEF Scan, Begin, asyncVars, execVars, rowVars
<1>3. PICK v \in Workers :
        /\ pc[v] \in {"free", "begin"}
        /\ pc' \in {[pc EXCEPT ![v] = "begin"], [pc EXCEPT ![v] = "claim"]}
        /\ \A w \in Workers \ {v} : work'[w] = work[w]
        /\ pc'[v] = "claim" => work'[v].lease > Lease
  <2>1. ASSUME NEW n \in Nodes, NEW j \in Jobs, Scan(n, j)
        PROVE  \E v \in Workers :
                  /\ pc[v] \in {"free", "begin"}
                  /\ pc' \in {[pc EXCEPT ![v] = "begin"], [pc EXCEPT ![v] = "claim"]}
                  /\ \A w \in Workers \ {v} : work'[w] = work[w]
                  /\ pc'[v] = "claim" => work'[v].lease > Lease
    BY <1>1, <2>1 DEF Scan, Goto, TypeOK
  <2>2. ASSUME NEW v \in Workers, Begin(v)
        PROVE  /\ pc[v] \in {"free", "begin"}
               /\ pc' \in {[pc EXCEPT ![v] = "begin"], [pc EXCEPT ![v] = "claim"]}
               /\ \A w \in Workers \ {v} : work'[w] = work[w]
               /\ pc'[v] = "claim" => work'[v].lease > Lease
    <3>1. work'[v].lease = now + Lease
      BY <1>1, <2>2 DEF Begin, TypeOK
    <3>2. now + Lease > Lease
      BY <1>1, WebhooksAssumption DEF TypeOK
    <3> QED
      BY <1>1, <2>2, <3>1, <3>2 DEF Begin, Goto, TypeOK
  <2> QED
    BY <2>1, <2>2
<1>4. Claimers' = Claimers /\ v \notin Claimers
  BY <1>1, <1>3 DEF Claimers, TypeOK
<1>5. \A w \in Claimers : w \in Workers /\ work'[w] = work[w]
  BY <1>3, <1>4 DEF Claimers
<1>6. JobInv'
  BY <1>1, <1>2 DEF JobInv
<1>7. FenceAdmitsOne'
  BY <1>1, <1>4, <1>5 DEF FenceAdmitsOne
<1>8. LeaseInv'
  <2>1. ASSUME NEW w \in Workers, pc'[w] \in {"claim", "deliver", "record", "settle"}
        PROVE  work'[w].lease > Lease
    <3>1. CASE w = v
      BY <1>1, <1>3, <2>1, <3>1 DEF TypeOK
    <3>2. CASE w # v
      BY <1>1, <1>3, <2>1, <3>2 DEF LeaseInv, TypeOK
    <3> QED
      BY <3>1, <3>2
  <2> QED
    BY <1>1, <1>2, <1>4, <1>5, <2>1 DEF LeaseInv
<1>9. RecordInv'
  BY <1>1, <1>2, <1>3, <1>5 DEF RecordInv, RecordOf, Claimers, TypeOK
<1> QED
  BY <1>6, <1>7, <1>8, <1>9 DEF WebhookInv

\* A goroutine that returns without touching a row or the history.
LEMMA ExitKeeps ==
  ASSUME WebhookInv, TypeOK', NEW w \in Workers, Exit(w),
         UNCHANGED <<job, exec, result, now, queued, event, until, history>>
  PROVE  WebhookInv'
<1>1. TypeOK /\ JobInv /\ LeaseInv /\ RecordInv /\ FenceAdmitsOne
  BY DEF WebhookInv
<1>2. /\ pc'[w] = "free"
      /\ \A v \in Workers \ {w} : pc'[v] = pc[v] /\ work'[v] = work[v]
  BY <1>1 DEF Exit, Goto, TypeOK
<1>3. Claimers' = Claimers \ {w}
  BY <1>2 DEF Claimers
<1>4. JobInv'
  BY <1>1 DEF JobInv
<1>5. FenceAdmitsOne'
  BY <1>1, <1>2, <1>3 DEF FenceAdmitsOne, Claimers
<1>6. LeaseInv'
  <2>1. \A v \in Claimers' : v \in Claimers /\ work'[v] = work[v]
    BY <1>2, <1>3 DEF Claimers
  <2> QED
    BY <1>1, <1>2, <2>1 DEF LeaseInv
<1>7. RecordInv'
  BY <1>1, <1>2 DEF RecordInv, RecordOf
<1> QED
  BY <1>4, <1>5, <1>6, <1>7 DEF WebhookInv

\* The claim: whoever claimed the row before lost it.
LEMMA ClaimKeeps ==
  ASSUME WebhookInv, TypeOK', NEW w \in Workers, Claim(w)
  PROVE  WebhookInv'
<1>1. TypeOK /\ JobInv /\ LeaseInv /\ RecordInv /\ FenceAdmitsOne
  BY DEF WebhookInv
<1>2. UNCHANGED <<job, exec, result, now, queued, event, history>> /\ pc[w] = "claim"
  BY DEF Claim, execVars
<1>3. CASE Exit(w) /\ UNCHANGED until
  BY <1>2, <1>3, ExitKeeps
<1>4. CASE /\ Claims(w)
           /\ until' = [until EXCEPT ![work[w].job] = work[w].lease]
           /\ UNCHANGED work
           /\ Goto(w, "deliver")
  <2> DEFINE j == work[w].job
  <2>1. /\ j \in Jobs /\ work[w].lease \in Nat /\ now \in Nat /\ until[j] \in Nat
        /\ j \in queued /\ until[j] < now /\ work[w].lease > now
    BY <1>1, <1>4 DEF Claims, Due, TypeOK
  <2>2. /\ Claimers' = Claimers \cup {w} /\ w \notin Claimers
        /\ pc' = [pc EXCEPT ![w] = "deliver"]
    BY <1>1, <1>2, <1>4 DEF Goto, Claimers, TypeOK
  <2>3. \A v \in Claimers : work[v].job = j => work[v].lease < now
    BY <1>1, <2>1 DEF LeaseInv
  <2>4. JobInv'
    BY <1>1, <1>2 DEF JobInv
  <2>5. FenceAdmitsOne'
    <3>1. \A v \in Claimers : work[v].job = j => work[v].lease # work[w].lease
      BY <1>1, <2>1, <2>3 DEF Claimers, TypeOK
    <3> QED
      BY <1>1, <1>4, <2>2, <3>1 DEF FenceAdmitsOne
  <2>6. until'[j] = work[w].lease /\ \A i \in Jobs \ {j} : until'[i] = until[i]
    BY <1>1, <1>4, <2>1 DEF TypeOK
  <2>7. \A v \in Claimers : work[v].job \in Jobs
    BY <1>1 DEF Claimers, TypeOK
  <2>8. event[j] # "none"
    BY <1>1, <2>1 DEF JobInv
  <2>9. LeaseInv'
    BY <1>1, <1>2, <1>4, <2>1, <2>2, <2>3, <2>6, <2>7, <2>8 DEF LeaseInv, TypeOK
  <2>10. RecordInv'
    BY <1>1, <1>2, <1>4, <2>2 DEF RecordInv, RecordOf, TypeOK
  <2> QED
    BY <2>4, <2>5, <2>9, <2>10 DEF WebhookInv
<1> QED
  BY <1>3, <1>4 DEF Claim

\* A goroutine that claimed its row changes no more than its outcome and place.
LEMMA DeliverKeeps ==
  ASSUME WebhookInv, TypeOK', NEW w \in Workers, Deliver(w)
  PROVE  WebhookInv'
<1>1. TypeOK /\ JobInv /\ LeaseInv /\ RecordInv /\ FenceAdmitsOne
  BY DEF WebhookInv
<1>2. UNCHANGED <<job, exec, result, now, queued, event, until, history>> /\ pc[w] = "deliver"
  BY DEF Deliver, execVars, rowVars
<1>3. CASE Exit(w)
  BY <1>2, <1>3, ExitKeeps
<1>4. ASSUME NEW o \in Outcomes,
             work' = [work EXCEPT ![w].outcome = Verdict(w, o)],
             Goto(w, "record")
      PROVE  WebhookInv'
  <2>1. /\ Claimers' = Claimers
        /\ pc' = [pc EXCEPT ![w] = "record"]
        /\ \A v \in Workers : work'[v].job = work[v].job /\ work'[v].lease = work[v].lease
    BY <1>1, <1>2, <1>4 DEF Goto, Claimers, TypeOK
  <2>2. JobInv'
    BY <1>1, <1>2 DEF JobInv
  <2>3. \A v \in Claimers : v \in Workers
    BY DEF Claimers
  <2>4. FenceAdmitsOne'
    BY <1>1, <2>1, <2>3 DEF FenceAdmitsOne
  <2>5. LeaseInv'
    <3>1. \A v \in Workers : pc'[v] \in {"claim", "deliver", "record", "settle"} =>
                             pc[v] \in {"claim", "deliver", "record", "settle"}
      BY <1>1, <1>2, <2>1 DEF TypeOK
    <3> QED
      BY <1>1, <1>2, <2>1, <2>3, <3>1 DEF LeaseInv
  <2>6. RecordInv'
    BY <1>1, <1>2, <1>4, <2>1 DEF RecordInv, RecordOf, TypeOK
  <2> QED
    BY <2>2, <2>4, <2>5, <2>6 DEF WebhookInv
<1> QED
  BY <1>3, <1>4 DEF Deliver

\* The history record tells the event of the claimed row.
LEMMA RecordKeeps ==
  ASSUME WebhookInv, TypeOK', NEW w \in Workers, Record(w)
  PROVE  WebhookInv'
<1>1. TypeOK /\ JobInv /\ LeaseInv /\ RecordInv /\ FenceAdmitsOne
  BY DEF WebhookInv
<1>2. UNCHANGED <<job, exec, result, now, queued, event, until>> /\ pc[w] = "record"
  BY DEF Record, execVars, rowVars
<1>3. CASE Exit(w) /\ UNCHANGED history
  BY <1>2, <1>3, ExitKeeps
<1>4. CASE history' = history \cup {RecordOf(w)} /\ Goto(w, "settle") /\ UNCHANGED work
  <2>1. /\ Claimers' = Claimers /\ w \in Claimers
        /\ pc' = [pc EXCEPT ![w] = "settle"]
    BY <1>1, <1>2, <1>4 DEF Goto, Claimers, TypeOK
  <2>2. JobInv'
    BY <1>1, <1>2 DEF JobInv
  <2>3. FenceAdmitsOne'
    BY <1>1, <1>4, <2>1 DEF FenceAdmitsOne
  <2>4. LeaseInv'
    BY <1>1, <1>2, <1>4, <2>1 DEF LeaseInv, TypeOK
  <2>5. RecordOf(w).event # "none" /\ event[RecordOf(w).job] = RecordOf(w).event
    BY <1>1, <2>1 DEF LeaseInv, RecordOf
  <2>6. RecordInv'
    BY <1>1, <1>2, <1>4, <2>1, <2>5 DEF RecordInv, RecordOf, TypeOK
  <2> QED
    BY <2>2, <2>3, <2>4, <2>6 DEF WebhookInv
<1> QED
  BY <1>3, <1>4 DEF Record

\* The holder of the fence settles the row: everybody else's claim of it is over.
LEMMA SettleKeeps ==
  ASSUME WebhookInv, TypeOK', NEW w \in Workers, Settle(w)
  PROVE  WebhookInv'
<1>1. TypeOK /\ JobInv /\ LeaseInv /\ RecordInv /\ FenceAdmitsOne
  BY DEF WebhookInv
<1>2. /\ UNCHANGED <<job, exec, result, now, event, history>>
      /\ pc[w] = "settle" /\ Exit(w) /\ w \in Claimers
  BY DEF Settle, Claimers, execVars, rowVars, Reschedule, Retire
<1>3. CASE UNCHANGED rowVars
  <2>1. UNCHANGED <<queued, until>>
    BY <1>3 DEF rowVars
  <2> QED
    BY <1>2, <2>1, ExitKeeps
<1>4. CASE Fence(w) /\ ~UNCHANGED rowVars
  <2> DEFINE j == work[w].job
  <2>1. /\ j \in Jobs /\ until[j] = work[w].lease
        /\ queued' \in {queued, queued \ {j}}
        /\ \A i \in Jobs \ {j} : until'[i] = until[i]
    BY <1>1, <1>4 DEF Settle, Fence, Reschedule, Retire, TypeOK
  <2>2. /\ pc'[w] = "free"
        /\ \A v \in Workers \ {w} : pc'[v] = pc[v] /\ work'[v] = work[v]
    BY <1>1, <1>2 DEF Exit, Goto, TypeOK
  <2>3. /\ Claimers' = Claimers \ {w}
        /\ \A v \in Claimers' : v \in Claimers /\ v \in Workers /\ work'[v] = work[v]
    BY <2>2 DEF Claimers
  <2>4. \A v \in Claimers' : work[v].job = j => work[v].lease < now
    BY <1>1, <1>2, <2>1, <2>3 DEF LeaseInv, FenceAdmitsOne
  <2>5. \A v \in Claimers' : work[v].job \in Jobs
    BY <1>1, <2>3 DEF TypeOK
  <2>6. /\ FenceAdmitsOne'
        /\ \A v \in Claimers' :
              /\ event'[work'[v].job] # "none"
              /\ \/ work'[v].lease < now'
                 \/ work'[v].job \in queued' /\ until'[work'[v].job] = work'[v].lease
    BY <1>2, <2>1, <2>3, <2>4, <2>5, ClaimsKept
  <2>7. LeaseInv'
    BY <1>1, <2>2, <2>6 DEF LeaseInv
  <2>8. JobInv'
    BY <1>1, <1>2, <2>1 DEF JobInv
  <2>9. RecordInv'
    BY <1>1, <1>2, <2>2 DEF RecordInv, RecordOf
  <2> QED
    BY <2>6, <2>7, <2>8, <2>9 DEF WebhookInv
<1> QED
  BY <1>3, <1>4 DEF Settle

\* The retention spares the records of a delivery that is under way.
LEMMA ReapKeeps ==
  ASSUME WebhookInv, TypeOK', NEW h \in history, Reap(h)
  PROVE  WebhookInv'
<1>1. TypeOK /\ JobInv /\ LeaseInv /\ RecordInv /\ FenceAdmitsOne
  BY DEF WebhookInv
<1>2. /\ UNCHANGED <<job, exec, result, now, queued, event, until, pc, work>>
      /\ history' = history \ {h}
  BY DEF Reap, asyncVars, execVars, rowVars
<1>3. JobInv' /\ LeaseInv' /\ FenceAdmitsOne'
  BY <1>1, <1>2 DEF JobInv, LeaseInv, FenceAdmitsOne, Claimers
<1>4. \A w \in Workers : pc[w] = "settle" => RecordOf(w) # h
  BY DEF Reap, RecordOf
<1>5. RecordInv'
  BY <1>1, <1>2, <1>4 DEF RecordInv, RecordOf
<1> QED
  BY <1>3, <1>5 DEF WebhookInv

\* A crash and a shutdown leave claims, not goroutines.
LEMMA DownKeeps ==
  ASSUME WebhookInv, TypeOK', NEW n \in Nodes, Down(n)
  PROVE  WebhookInv'
<1>1. TypeOK /\ JobInv /\ LeaseInv /\ RecordInv /\ FenceAdmitsOne
  BY DEF WebhookInv
<1>2. UNCHANGED <<job, result, now, queued, event, until, history>>
  BY DEF Down, rowVars
<1>3. \A j \in Jobs : exec'[j] \in {exec[j], "ended"} /\ (exec[j] = "ended" => exec'[j] = "ended")
  BY <1>1 DEF Down, TypeOK
<1>4. JobInv'
  BY <1>1, <1>2, <1>3 DEF JobInv
<1>5. \A w \in Workers : pc'[w] # "free" => pc'[w] = pc[w] /\ work'[w] = work[w]
  BY DEF Down
<1>6. \A w \in Claimers' : w \in Claimers /\ work'[w] = work[w]
  BY <1>5 DEF Claimers
<1>7. FenceAdmitsOne'
  BY <1>1, <1>6 DEF FenceAdmitsOne
<1>8. LeaseInv'
  BY <1>1, <1>2, <1>5, <1>6 DEF LeaseInv
<1>9. RecordInv'
  BY <1>1, <1>2, <1>5 DEF RecordInv, RecordOf
<1> QED
  BY <1>4, <1>7, <1>8, <1>9 DEF WebhookInv

\* The clock, the processes and the endpoint.
LEMMA RestKeeps ==
  ASSUME WebhookInv, TypeOK',
         \/ \E n \in Nodes : Stop(n) \/ Restart(n) \/ \E s \in Settings : UpdateEndpoint(n, s)
         \/ Tick
         \/ UNCHANGED vars
  PROVE  WebhookInv'
<1>1. TypeOK /\ JobInv /\ LeaseInv /\ RecordInv /\ FenceAdmitsOne
  BY DEF WebhookInv
<1>2. /\ UNCHANGED <<job, exec, result, queued, event, until, history, pc, work>>
      /\ now' \in {now, now + 1}
  BY DEF Stop, Restart, UpdateEndpoint, Tick, vars, asyncVars, hookVars, execVars, rowVars
<1>3. JobInv' /\ RecordInv'
  BY <1>1, <1>2 DEF JobInv, RecordInv, RecordOf
<1>4. Claimers' = Claimers
  BY <1>2 DEF Claimers
<1>5. \A w \in Claimers : w \in Workers /\ work[w].lease \in Nat /\ now \in Nat
  BY <1>1 DEF Claimers, TypeOK
<1>6. FenceAdmitsOne'
  BY <1>1, <1>2, <1>4 DEF FenceAdmitsOne
<1>7. LeaseInv'
  BY <1>1, <1>2, <1>4, <1>5 DEF LeaseInv
<1> QED
  BY <1>3, <1>6, <1>7 DEF WebhookInv

LEMMA NextInvariant == WebhookInv /\ [Next]_vars => WebhookInv'
<1> SUFFICES ASSUME WebhookInv, [Next]_vars
             PROVE  WebhookInv'
  OBVIOUS
<1>1. TypeOK'
  BY NextTypes DEF WebhookInv
<1>2. ASSUME NEW w \in Workers, Attempt(w)
      PROVE  WebhookInv'
  BY <1>1, <1>2, StartKeeps, ClaimKeeps, DeliverKeeps, RecordKeeps, SettleKeeps DEF Attempt
<1>3. ASSUME NEW n \in Nodes, Crash(n) \/ Halt(n)
      PROVE  WebhookInv'
  BY <1>1, <1>3, DownKeeps DEF Crash, Halt
<1> QED
  BY <1>1, <1>2, <1>3, ExecuteKeeps, NotifyKeeps, RedeliverKeeps, StartKeeps, ReapKeeps, RestKeeps
  DEF Next

THEOREM WebhookInvariant == Spec => []WebhookInv
BY InitInvariant, NextInvariant, PTL DEF Spec

-----------------------------------------------------------------------------
(***************************************************************************)
(* The theorems.                                                           *)
(***************************************************************************)

\* The state of executor, queue, history and delivery goroutines stays well formed.
THEOREM WebhookTypes == Spec => []TypeOK
<1>1. WebhookInv => TypeOK
  BY DEF WebhookInv
<1> QED
  BY <1>1, WebhookInvariant, PTL

\* Of the goroutines that outlived their lease and the one that did not, the fence of
\* RescheduleWebhookJob and DeleteWebhookJob tells the last, for any number of processes
\* that share one runner id.
THEOREM OneHolder == Spec => []FenceAdmitsOne
<1>1. WebhookInv => FenceAdmitsOne
  BY DEF WebhookInv
<1> QED
  BY <1>1, WebhookInvariant, PTL

\* What a receiver is told about a job is what polling the job shows, redeliveries included.
THEOREM EventsMatch == Spec => []EventMatchesJob
<1>1. WebhookInv => EventMatchesJob
  BY DEF WebhookInv, JobInv, TypeOK, EventMatchesJob, Terminal
<1> QED
  BY <1>1, WebhookInvariant, PTL

\* finalize writes the history first, so no row leaves the queue without its final record.
THEOREM RetiredHasRecord == Spec => RetiredIsRecorded
<1>1. ASSUME WebhookInv, [Next]_vars, NEW j \in queued \ queued'
      PROVE  \E h \in history : h.job = j /\ h.outcome = "final"
  <2>1. PICK w \in Workers : Settle(w)
    BY <1>1
    DEF Next, Attempt, Execute, Notify, Redeliver, CreateWebhookJob, Scan, Begin, Claim, Deliver,
        Record, Reap, Crash, Halt, Down, Stop, Restart, UpdateEndpoint, Tick, vars, hookVars, rowVars
  <2>2. work[w].job = j /\ work[w].outcome # "retryable"
    BY <1>1, <2>1 DEF Settle, Reschedule, Retire, rowVars
  <2>3. RecordOf(w) \in history /\ work[w].outcome = "final"
    BY <1>1, <2>1, <2>2 DEF Settle, WebhookInv, RecordInv, TypeOK, Outcomes
  <2> QED
    BY <2>2, <2>3 DEF RecordOf
<1>2. WebhookInv /\ [Next]_vars =>
         [\A j \in queued \ queued' : \E h \in history : h.job = j /\ h.outcome = "final"]_vars
  BY <1>1
<1> QED
  BY <1>2, WebhookInvariant, PTL DEF Spec, RetiredIsRecorded

\* A stored result is what it is until the cleaner deletes the row: the goroutine that
\* stored it does not come back to it.
THEOREM ResultsAreFinal == Spec => ResultIsFinal
<1>1. ASSUME WebhookInv, [Next]_vars, NEW j \in Jobs, job[j] \in Terminal
      PROVE  job'[j] \in {job[j], "deleted"}
  <2>1. TypeOK /\ JobInv
    BY <1>1 DEF WebhookInv
  <2>2. ASSUME NEW i \in Jobs, Execute(i)
        PROVE  job'[j] \in {job[j], "deleted"}
    <3>1. ASSUME NEW n \in Nodes, SubmitJob(n, i)
          PROVE  job'[j] = job[j]
      BY <1>1, <2>1, <3>1 DEF SubmitJob, JobInv, TypeOK
    <3>2. CASE MarkProcessing(i) \/ StoreResult(i)
      BY <1>1, <2>1, <3>2 DEF MarkProcessing, StoreResult, UpdateAsyncJob, JobInv, TypeOK
    <3>3. CASE Operate(i)
      BY <3>3 DEF Operate
    <3>4. CASE DeleteExpired(i) \/ DeleteStale(i)
      BY <1>1, <2>1, <3>4 DEF DeleteExpired, DeleteStale, TypeOK
    <3> QED
      BY <2>2, <3>1, <3>2, <3>3, <3>4 DEF Execute
  <2>3. CASE ~\E i \in Jobs : Execute(i)
    BY <1>1, <2>3
    DEF Next, Attempt, Notify, Redeliver, Scan, Begin, Claim, Deliver, Record, Settle, Reap,
        Crash, Halt, Down, Stop, Restart, UpdateEndpoint, Tick, vars, asyncVars
  <2> QED
    BY <2>2, <2>3
<1>2. WebhookInv /\ [Next]_vars =>
         [\A j \in Jobs : job[j] \in Terminal => job'[j] \in {job[j], "deleted"}]_vars
  BY <1>1
<1> QED
  BY <1>2, WebhookInvariant, PTL DEF Spec, ResultIsFinal

-----------------------------------------------------------------------------
(***************************************************************************)
(* The number of retries.  A goroutine that listed its row when retries    *)
(* were left can reschedule it once; each of them stands for one count.    *)
(***************************************************************************)

\* The goroutines that may still reschedule the row of job j.
Early(j) == {w \in Workers : pc[w] # "free" /\ work[w].job = j /\ work[w].listed < MaxRetries}

RetryInv ==
    /\ \A w \in Workers : pc[w] \in {"record", "settle"} /\ work[w].outcome = "retryable" =>
                          work[w].listed < MaxRetries
    /\ \A j \in Jobs : count[j] + Cardinality(Early(j)) <= MaxRetries + Cardinality(Workers) - 1

LEMMA WorkersCounted == IsFiniteSet(Workers) /\ Cardinality(Workers) \in Nat \ {0}
BY WebhooksAssumption, FS_CardinalityType, FS_EmptySet

\* A set of goroutines is finite and no larger than all of them.
LEMMA SomeWorkers ==
  ASSUME NEW S \in SUBSET Workers
  PROVE  /\ IsFiniteSet(S) /\ Cardinality(S) \in Nat
         /\ Cardinality(S) <= Cardinality(Workers)
BY WorkersCounted, FS_Subset, FS_CardinalityType

\* With no retry at all nobody may reschedule.
LEMMA FewEarly ==
  ASSUME TypeOK, NEW j \in Jobs
  PROVE  Cardinality(Early(j)) <= MaxRetries + Cardinality(Workers) - 1
<1>1. Early(j) \in SUBSET Workers
  BY DEF Early
<1>2. CASE MaxRetries = 0
  <2>1. \A w \in Workers : work[w].listed \in Nat
    BY DEF TypeOK
  <2>2. Early(j) = {}
    BY <1>2, <2>1 DEF Early
  <2> QED
    BY <1>2, <2>2, FS_EmptySet, WorkersCounted
<1>3. CASE MaxRetries # 0
  BY <1>1, <1>3, SomeWorkers, WorkersCounted, WebhooksAssumption
<1> QED
  BY <1>2, <1>3

\* Goroutines keep their row or end, and a count is kept or starts again.
LEMMA RetriesKept ==
  ASSUME TypeOK, RetryInv, TypeOK',
         \A w \in Workers : pc'[w] # "free" =>
            /\ pc[w] # "free" /\ work'[w].job = work[w].job /\ work'[w].listed = work[w].listed
            /\ pc'[w] \in {"record", "settle"} /\ work'[w].outcome = "retryable" =>
                  work[w].listed < MaxRetries,
         \A j \in Jobs : count'[j] \in {count[j], 0}
  PROVE  RetryInv'
<1>1. ASSUME NEW j \in Jobs
      PROVE  count'[j] + Cardinality(Early(j)') <= MaxRetries + Cardinality(Workers) - 1
  <2>1. Early(j) \in SUBSET Workers /\ Early(j)' \in SUBSET Early(j)
    BY DEF Early
  <2>2. Cardinality(Early(j)') <= Cardinality(Early(j))
    BY <2>1, SomeWorkers, FS_Subset
  <2>3. Cardinality(Early(j)) \in Nat /\ Cardinality(Early(j)') \in Nat /\ count[j] \in Nat
    BY <2>1, SomeWorkers DEF TypeOK
  <2>4. /\ count[j] + Cardinality(Early(j)) <= MaxRetries + Cardinality(Workers) - 1
        /\ Cardinality(Early(j)) <= MaxRetries + Cardinality(Workers) - 1
    BY FewEarly DEF RetryInv
  <2> QED
    BY <2>2, <2>3, <2>4, WorkersCounted, WebhooksAssumption
<1> QED
  BY <1>1 DEF RetryInv

\* A scan starts a goroutine, which may reschedule the row if its count is low.
LEMMA ScanRetries ==
  ASSUME TypeOK, RetryInv, TypeOK', NEW n \in Nodes, NEW j \in Jobs, Scan(n, j)
  PROVE  RetryInv'
<1>1. PICK w \in Workers :
        /\ pc[w] = "free"
        /\ pc' = [pc EXCEPT ![w] = "begin"]
        /\ work' = [work EXCEPT ![w].node = n, ![w].job = j, ![w].listed = count[j]]
  BY DEF Scan, Goto
<1>2. /\ pc'[w] = "begin" /\ work'[w].job = j /\ work'[w].listed = count[j]
      /\ \A v \in Workers \ {w} : pc'[v] = pc[v] /\ work'[v] = work[v]
      /\ UNCHANGED count
  <2>1. work[w] \in WorkType /\ work \in [Workers -> WorkType] /\ pc \in [Workers -> Steps]
    BY TypeParts DEF WorkOK
  <2>2. work'[w] = [work[w] EXCEPT !.node = n, !.job = j, !.listed = count[j]]
    BY <1>1, <2>1
  <2>3. work'[w].job = j /\ work'[w].listed = count[j]
    BY <2>1, <2>2 DEF WorkType
  <2> QED
    BY <1>1, <2>1, <2>3 DEF Scan, rowVars
<1>3. \A i \in Jobs : count[i] \in Nat /\ Early(i) \in SUBSET Workers /\ w \notin Early(i)
  BY <1>1 DEF TypeOK, Early
<1>4. ASSUME NEW i \in Jobs
      PROVE  count'[i] + Cardinality(Early(i)') <= MaxRetries + Cardinality(Workers) - 1
  <2>1. CASE i = j /\ count[j] < MaxRetries
    <3>1. Early(i)' \in SUBSET Workers
      BY DEF Early
    <3> QED
      BY <1>2, <1>3, <2>1, <3>1, SomeWorkers, WorkersCounted, WebhooksAssumption
  <2>2. CASE ~(i = j /\ count[j] < MaxRetries)
    <3>1. Early(i)' = Early(i)
      BY <1>2, <1>3, <2>2 DEF Early
    <3> QED
      BY <1>2, <3>1 DEF RetryInv
  <2> QED
    BY <2>1, <2>2
<1>5. \A v \in Workers : pc'[v] \in {"record", "settle"} => pc[v] = pc'[v] /\ work'[v] = work[v]
  BY <1>2
<1> QED
  BY <1>4, <1>5 DEF RetryInv

\* A reschedule is one count more and one goroutine less.
LEMMA SettleRetries ==
  ASSUME TypeOK, RetryInv, TypeOK', NEW w \in Workers, Settle(w)
  PROVE  RetryInv'
<1>1. /\ pc[w] = "settle" /\ pc'[w] = "free"
      /\ \A v \in Workers \ {w} : pc'[v] = pc[v] /\ work'[v] = work[v]
  BY DEF Settle, Exit, Goto, TypeOK
<1>2. CASE \A j \in Jobs : count'[j] \in {count[j], 0}
  BY <1>1, <1>2, RetriesKept DEF RetryInv
<1>3. CASE work[w].outcome = "retryable" /\ Reschedule(work[w].job, work[w].lease - Lease + Backoff)
  <2>1. PICK k \in Jobs : k = work[w].job
    BY DEF TypeOK
  <2>2. count' = [count EXCEPT ![k] = @ + 1]
    BY <1>3, <2>1 DEF Reschedule
  <2>3. w \in Early(k)
    BY <1>1, <1>3, <2>1 DEF Early, RetryInv
  <2>4. ASSUME NEW j \in Jobs
        PROVE  count'[j] + Cardinality(Early(j)') <= MaxRetries + Cardinality(Workers) - 1
    <3>1. /\ Early(j) \in SUBSET Workers /\ count[j] \in Nat
          /\ count[j] + Cardinality(Early(j)) <= MaxRetries + Cardinality(Workers) - 1
      BY DEF Early, TypeOK, RetryInv
    <3>2. Early(j)' = Early(j) \ {w}
      BY <1>1 DEF Early
    <3>3. Cardinality(Early(j)) \in Nat /\ IsFiniteSet(Early(j))
      BY <3>1, SomeWorkers
    <3>4. CASE j = k
      <4>1. Cardinality(Early(j)') = Cardinality(Early(j)) - 1
        BY <2>3, <3>2, <3>3, <3>4, FS_RemoveElement
      <4>2. count'[j] = count[j] + 1
        BY <2>2, <3>4 DEF TypeOK
      <4> QED
        BY <3>1, <3>3, <4>1, <4>2, WorkersCounted, WebhooksAssumption
    <3>5. CASE j # k
      <4>1. w \notin Early(j)
        BY <2>1, <3>5 DEF Early
      <4>2. Early(j)' = Early(j) /\ count'[j] = count[j]
        BY <2>2, <3>2, <3>5, <4>1 DEF TypeOK
      <4> QED
        BY <3>1, <4>2
    <3> QED
      BY <3>4, <3>5
  <2> QED
    BY <1>1, <2>4 DEF RetryInv
<1>4. \/ \A j \in Jobs : count'[j] \in {count[j], 0}
      \/ work[w].outcome = "retryable" /\ Reschedule(work[w].job, work[w].lease - Lease + Backoff)
  <2>1. CASE Retire(work[w].job)
    BY <2>1 DEF Retire, TypeOK
  <2>2. CASE UNCHANGED rowVars
    BY <2>2 DEF rowVars
  <2> QED
    BY <2>1, <2>2 DEF Settle
<1> QED
  BY <1>2, <1>3, <1>4

\* A goroutine between the scan and the settlement of its row.
LEMMA AttemptRetries ==
  ASSUME TypeOK, RetryInv, TypeOK', NEW w \in Workers, Begin(w) \/ Claim(w) \/ Deliver(w) \/ Record(w)
  PROVE  RetryInv'
<1>1. UNCHANGED count /\ pc[w] # "free"
  BY DEF Begin, Claim, Deliver, Record, rowVars
<1>2. \A v \in Workers \ {w} : pc'[v] = pc[v] /\ work'[v] = work[v]
  BY DEF Begin, Claim, Deliver, Record, Exit, Goto, TypeOK
<1>3. pc'[w] # "free" =>
        /\ work'[w].job = work[w].job /\ work'[w].listed = work[w].listed
        /\ pc'[w] \in {"record", "settle"} /\ work'[w].outcome = "retryable" =>
              work[w].listed < MaxRetries
  <2>1. work[w] \in WorkType /\ work[w].listed \in Nat /\ MaxRetries \in Nat
    BY WebhooksAssumption DEF TypeOK, WorkType
  <2>2. CASE Begin(w)
    BY <2>1, <2>2 DEF Begin, Goto, TypeOK, WorkType
  <2>3. CASE Claim(w)
    BY <2>3 DEF Claim, Exit, Goto, TypeOK
  <2>4. CASE Deliver(w)
    <3>1. CASE Exit(w)
      BY <3>1 DEF Exit, Goto, TypeOK
    <3>2. ASSUME NEW o \in Outcomes, work' = [work EXCEPT ![w].outcome = Verdict(w, o)]
          PROVE  /\ work'[w].job = work[w].job /\ work'[w].listed = work[w].listed
                 /\ work'[w].outcome = "retryable" => work[w].listed < MaxRetries
      <4>1. /\ work'[w].job = work[w].job /\ work'[w].listed = work[w].listed
            /\ work'[w].outcome = Verdict(w, o)
        BY <2>1, <3>2 DEF TypeOK, WorkType
      <4>2. Verdict(w, o) = "retryable" => work[w].listed < MaxRetries
        BY <2>1 DEF Verdict
      <4> QED
        BY <4>1, <4>2
    <3> QED
      BY <2>4, <3>1, <3>2 DEF Deliver
  <2>5. CASE Record(w)
    BY <2>5 DEF Record, Exit, Goto, TypeOK, RetryInv
  <2> QED
    BY <2>2, <2>3, <2>4, <2>5
<1>4. \A v \in Workers : pc'[v] # "free" =>
        /\ pc[v] # "free" /\ work'[v].job = work[v].job /\ work'[v].listed = work[v].listed
        /\ pc'[v] \in {"record", "settle"} /\ work'[v].outcome = "retryable" =>
              work[v].listed < MaxRetries
  BY <1>1, <1>2, <1>3 DEF RetryInv
<1> QED
  BY <1>1, <1>4, RetriesKept

LEMMA NextRetries == ASSUME TypeOK, RetryInv, TypeOK', [Next]_vars PROVE RetryInv'
<1>1. ASSUME NEW n \in Nodes, NEW j \in Jobs, Scan(n, j)
      PROVE  RetryInv'
  BY <1>1, ScanRetries
<1>2. ASSUME NEW w \in Workers, Attempt(w)
      PROVE  RetryInv'
  BY <1>2, AttemptRetries, SettleRetries DEF Attempt
<1>3. ASSUME NEW n \in Nodes, Crash(n) \/ Halt(n)
      PROVE  RetryInv'
  <2>1. /\ UNCHANGED count
        /\ \A w \in Workers : pc'[w] # "free" => pc'[w] = pc[w] /\ work'[w] = work[w]
    BY <1>3 DEF Crash, Halt, Down, rowVars
  <2> QED
    BY <2>1, RetriesKept DEF RetryInv
<1>4. ASSUME UNCHANGED <<pc, work>>, \A j \in Jobs : count'[j] \in {count[j], 0}
      PROVE  RetryInv'
  BY <1>4, RetriesKept DEF RetryInv
<1>5. ASSUME NEW j \in Jobs, Execute(j) \/ Notify(j)
      PROVE  RetryInv'
  <2>1. UNCHANGED <<pc, work>> /\ \A i \in Jobs : count'[i] \in {count[i], 0}
    BY <1>5 DEF Execute, Notify, CreateWebhookJob, hookVars, rowVars, TypeOK
  <2> QED
    BY <1>4, <2>1
<1>6. ASSUME NEW h \in history, Reap(h) \/ \E n \in Nodes : Redeliver(n, h)
      PROVE  RetryInv'
  <2>1. UNCHANGED <<pc, work>> /\ \A i \in Jobs : count'[i] \in {count[i], 0}
    BY <1>6 DEF Reap, Redeliver, CreateWebhookJob, rowVars, TypeOK
  <2> QED
    BY <1>4, <2>1
<1>7. CASE \/ \E n \in Nodes : Stop(n) \/ Restart(n) \/ \E s \in Settings : UpdateEndpoint(n, s)
           \/ Tick \/ UNCHANGED vars
  <2>1. UNCHANGED <<pc, work, count>>
    BY <1>7 DEF Stop, Restart, UpdateEndpoint, Tick, vars, hookVars, rowVars
  <2> QED
    BY <1>4, <2>1
<1> QED
  BY <1>1, <1>2, <1>3, <1>5, <1>6, <1>7 DEF Next

\* However many goroutines outlive their leases, with whatever stale copies of the row,
\* each of them adds at most one retry to those that are configured.
THEOREM BoundedRetries == Spec => []RetriesAreBounded
<1>1. Init => RetryInv
  <2> SUFFICES ASSUME Init
               PROVE  RetryInv
    OBVIOUS
  <2>1. \A w \in Workers : pc[w] = "free"
    BY DEF Init
  <2>2. \A j \in Jobs : count[j] = 0 /\ Cardinality(Early(j)) <= MaxRetries + Cardinality(Workers) - 1
                        /\ Early(j) \in SUBSET Workers
    BY InitTypes, FewEarly DEF Init, Early
  <2> QED
    BY <2>1, <2>2, SomeWorkers DEF RetryInv
<1>2. WebhookInv /\ WebhookInv' /\ RetryInv /\ [Next]_vars => RetryInv'
  BY NextRetries DEF WebhookInv
<1>3. WebhookInv /\ RetryInv => RetriesAreBounded
  <2> SUFFICES ASSUME WebhookInv, RetryInv, NEW j \in queued
               PROVE  count[j] <= MaxRetries + Cardinality(Workers) - 1
    BY DEF RetriesAreBounded
  <2>1. j \in Jobs /\ count[j] \in Nat /\ Early(j) \in SUBSET Workers
    BY DEF WebhookInv, TypeOK, Early
  <2> QED
    BY <2>1, SomeWorkers, WorkersCounted, WebhooksAssumption DEF RetryInv
<1> QED
  BY <1>1, <1>2, <1>3, WebhookInvariant, PTL DEF Spec
=============================================================================
