------------------------------ MODULE Webhooks ------------------------------
(***************************************************************************)
(* Webhook deliveries of finished async jobs: framework/webhooks           *)
(* (Dispatcher) over the webhook_jobs queue of framework/configstore and   *)
(* the insert-only history of framework/logstore, composed with the        *)
(* executor and the cleaner of AsyncJobs.                                  *)
(*                                                                         *)
(* A terminal job puts a row in the queue.  Every process scans the queue  *)
(* and starts a goroutine per due row; the goroutine claims the row until  *)
(* a lease ends, reads the job, posts to the receiver, appends a history   *)
(* record, then reschedules or deletes the row with a statement fenced on  *)
(* its runner id and the lease it was given.  A crash, a shutdown or a     *)
(* failed statement leaves the row claimed; it is due again when its lease *)
(* ends.                                                                   *)
(*                                                                         *)
(* Abstractions.  A delivery is its job: one event per job, one endpoint.  *)
(* Time is counted in ticks and passes while a row waits for it.  The poll *)
(* ticker and the wake-up signal only say when a scan happens, so a scan   *)
(* may happen at any time; listing the rows and starting a goroutine for   *)
(* one of them is one step, the goroutine keeps the row as it was listed.  *)
(* An attempt ends in a retryable or in a final outcome: delivered,        *)
(* permanently failed or exhausted.  The counters of the endpoint, which   *)
(* no code reads back, are left out.                                       *)
(***************************************************************************)
EXTENDS AsyncJobs

CONSTANTS
    Workers,    \* delivery goroutines that may exist at once
    RunnerID,   \* runnerID of each process; the same for all unless clustered
    NoRunner,   \* the empty claimed_by
    Slots,      \* maxConcurrentDeliveries of the endpoint
    MaxRetries, \* retries after the first attempt
    Lease,      \* ticks a claim lasts
    Backoff     \* ticks between an attempt and its retry

ASSUME WebhooksAssumption ==
    /\ DOMAIN RunnerID = Nodes
    /\ IsFiniteSet(Workers) /\ Workers # {}
    /\ Slots \in Nat \ {0}
    /\ MaxRetries \in Nat
    /\ Lease \in Nat \ {0}
    /\ Backoff \in Nat \ {0}

VARIABLES
    now,                            \* the clock
    queued,                         \* jobs with a row in webhook_jobs
    event, count, due, by, until,   \* the columns of their rows; until 0 is NULL
    history,                        \* webhook delivery records
    pc, work                        \* delivery goroutines: place and local variables

rowVars  == <<queued, event, count, due, by, until>>
hookVars == <<now, rowVars, history, pc, work>>
vars == <<asyncVars, hookVars>>

\* Of the four outcomes only retryable_failure keeps the row in the queue.
Outcomes == {"retryable", "final"}

\* The locals of a goroutine: its process and row, AttemptCount as listed, the endpoint
\* as resolved, leaseUntil, and the outcome.
NoWork ==
    [node |-> CHOOSE n \in Nodes : TRUE, job |-> CHOOSE j \in Jobs : TRUE, listed |-> 0,
     ep |-> "gone", lease |-> 0, outcome |-> "final"]

Init ==
    /\ AsyncInit
    /\ now = 1
    /\ queued = {}
    /\ event = [j \in Jobs |-> "none"]
    /\ count = [j \in Jobs |-> 0]
    /\ due = [j \in Jobs |-> 0]
    /\ by = [j \in Jobs |-> NoRunner]
    /\ until = [j \in Jobs |-> 0]
    /\ history = {}
    /\ pc = [w \in Workers |-> "free"]
    /\ work = [w \in Workers |-> NoWork]

-----------------------------------------------------------------------------
(* The statements on webhook_jobs.                                          *)

\* Mutant: only a row that nobody claimed is due.
Due_NeverReclaimed(j) == j \in queued /\ due[j] <= now /\ until[j] = 0

\* The predicate of ListDueWebhookJobs and of the claim's UPDATE.
Due(j) == j \in queued /\ due[j] <= now /\ until[j] < now

\* CreateWebhookJob: attempt_count 0, due now, unclaimed.
CreateWebhookJob(j, e) ==
    /\ queued' = queued \cup {j}
    /\ event' = [event EXCEPT ![j] = e]
    /\ count' = [count EXCEPT ![j] = 0]
    /\ due' = [due EXCEPT ![j] = now]
    /\ by' = [by EXCEPT ![j] = NoRunner]
    /\ until' = [until EXCEPT ![j] = 0]

\* claimed_by = runnerID AND claimed_until = leaseUntil.
Fence(w) ==
    /\ work[w].job \in queued
    /\ by[work[w].job] = RunnerID[work[w].node]
    /\ until[work[w].job] = work[w].lease

\* RescheduleWebhookJob.
Reschedule(j, t) ==
    /\ count' = [count EXCEPT ![j] = @ + 1]
    /\ due' = [due EXCEPT ![j] = t]
    /\ by' = [by EXCEPT ![j] = NoRunner]
    /\ until' = [until EXCEPT ![j] = 0]
    /\ UNCHANGED <<queued, event>>

\* DeleteWebhookJob.
Retire(j) ==
    /\ queued' = queued \ {j}
    /\ count' = [count EXCEPT ![j] = 0]
    /\ due' = [due EXCEPT ![j] = 0]
    /\ by' = [by EXCEPT ![j] = NoRunner]
    /\ until' = [until EXCEPT ![j] = 0]
    /\ UNCHANGED event

-----------------------------------------------------------------------------
(* EnqueueJobEvent, and the redelivery an administrator asks for.           *)

\* Mutant: a panic of the dispatcher reaches the recovery of executeJob, which
\* marks the job as failed.
Notify_PanicEscapes(j) ==
    /\ exec[j] = "notify" /\ Running(j)
    /\ \/ /\ resolver[host[j]] = "subscribed"
          /\ CreateWebhookJob(j, result[j])
          /\ exec' = [exec EXCEPT ![j] = "ended"]
          /\ UNCHANGED <<events, result>>
       \/ /\ Happens
          /\ exec' = [exec EXCEPT ![j] = "store"]
          /\ result' = [result EXCEPT ![j] = "failed"]
          /\ UNCHANGED rowVars
    /\ UNCHANGED <<job, host, nodeVars, now, history, pc, work>>

\* notifyWebhook: the row is inserted, unless the endpoint does not want the event,
\* all the attempts to insert it fail, or the dispatcher panics.
Notify(j) ==
    /\ exec[j] = "notify" /\ Running(j)
    /\ exec' = [exec EXCEPT ![j] = "ended"]
    /\ \/ /\ resolver[host[j]] = "subscribed"
          /\ CreateWebhookJob(j, result[j])
          /\ UNCHANGED events
       \/ /\ resolver[host[j]] # "subscribed"
          /\ UNCHANGED <<rowVars, events>>
       \/ /\ Happens
          /\ UNCHANGED rowVars
    /\ UNCHANGED <<job, host, result, nodeVars, now, history, pc, work>>

\* redeliverWebhook on node n for history record h, under the same id.
Redeliver(n, h) ==
    /\ up[n] # "down"
    /\ resolver[n] \in {"subscribed", "unsubscribed"}
    /\ h.job \notin queued
    /\ CreateWebhookJob(h.job, h.event)
    /\ Happens
    /\ UNCHANGED <<job, execVars, nodeVars, now, history, pc, work>>

-----------------------------------------------------------------------------
(* Delivery goroutines.                                                     *)

\* Goroutines that have claimed their row and not settled it yet.
Claimers == {w \in Workers : pc[w] \in {"deliver", "record", "settle"}}

Goto(w, p) == pc' = [pc EXCEPT ![w] = p]

\* A goroutine returns; its endpoint slot is free again.
Exit(w) == Goto(w, "free") /\ work' = [work EXCEPT ![w] = NoWork]

\* A statement of goroutine w succeeds, or fails: Stop cancels its context.
StoreOK(w) == up[work[w].node] = "up" /\ UNCHANGED events
StoreError(w) ==
    \/ up[work[w].node] = "stopping" /\ UNCHANGED events
    \/ up[work[w].node] = "up" /\ Happens

\* dispatchOnce on node n: row j is due and a slot of its endpoint is free.
Scan(n, j) ==
    /\ up[n] = "up"
    /\ Due(j)
    /\ Cardinality({w \in Workers : pc[w] # "free" /\ work[w].node = n}) < Slots
    /\ \E w \in Workers :
          /\ pc[w] = "free"
          /\ Goto(w, "begin")
          /\ work' = [work EXCEPT ![w].node = n, ![w].job = j, ![w].listed = count[j]]
    /\ UNCHANGED <<asyncVars, now, rowVars, history>>

\* processDue: the endpoint is resolved once and the lease computed.
Begin(w) ==
    /\ pc[w] = "begin"
    /\ Goto(w, "claim")
    /\ work' = [work EXCEPT ![w].ep = resolver[work[w].node], ![w].lease = now + Lease]
    /\ UNCHANGED <<asyncVars, now, rowVars, history>>

\* Mutant: a lease that is already over is accepted.
Claims_PastLease(w) == Due(work[w].job)

\* ClaimWebhookJob affects the row.
Claims(w) == work[w].lease > now /\ Due(work[w].job)

Claim(w) ==
    /\ pc[w] = "claim"
    /\ \/ /\ Claims(w) /\ StoreOK(w)
          /\ by' = [by EXCEPT ![work[w].job] = RunnerID[work[w].node]]
          /\ until' = [until EXCEPT ![work[w].job] = work[w].lease]
          /\ UNCHANGED work
          /\ Goto(w, "deliver")
       \/ /\ (~Claims(w) /\ StoreOK(w)) \/ StoreError(w)
          /\ Exit(w)
          /\ UNCHANGED <<by, until>>
    /\ UNCHANGED <<job, execVars, nodeVars, now, queued, event, count, due, history>>

\* A retryable failure of an attempt past the retries exhausts the delivery.
Verdict(w, o) == IF o = "retryable" /\ work[w].listed + 1 > MaxRetries THEN "final" ELSE o

\* attempt: the job is read, the payload delivered and the answer classified (no
\* answer, 408, 429 and 5xx are worth a retry).  Without an enabled endpoint, or when
\* the payload cannot be rendered, the outcome is final without a delivery; a job
\* that is not found is delivered as expired; a read that fails leaves the row claimed.
Deliver(w) ==
    /\ pc[w] = "deliver"
    /\ \/ /\ StoreOK(w)
          /\ \E o \in Outcomes :
                /\ work[w].ep \in {"disabled", "gone"} => o = "final"
                /\ work' = [work EXCEPT ![w].outcome = Verdict(w, o)]
          /\ Goto(w, "record")
       \/ StoreError(w) /\ Exit(w)
    /\ UNCHANGED <<job, execVars, nodeVars, now, rowVars, history>>

\* The history record of the attempt of w.
RecordOf(w) ==
    [job |-> work[w].job, event |-> event[work[w].job], outcome |-> work[w].outcome]

\* Mutant: the queue row is settled even when the record was not written.
Record_Regardless(w) ==
    /\ pc[w] = "record"
    /\ Goto(w, "settle")
    /\ \/ StoreOK(w) /\ history' = history \cup {RecordOf(w)}
       \/ StoreError(w) /\ UNCHANGED history
    /\ UNCHANGED <<job, execVars, nodeVars, now, rowVars, work>>

\* finalize, its first statement: without a record the row is left claimed.
Record(w) ==
    /\ pc[w] = "record"
    /\ \/ /\ StoreOK(w)
          /\ history' = history \cup {RecordOf(w)}
          /\ Goto(w, "settle")
          /\ UNCHANGED work
       \/ StoreError(w) /\ Exit(w) /\ UNCHANGED history
    /\ UNCHANGED <<job, execVars, nodeVars, now, rowVars>>

\* finalize, its second statement: the row is rescheduled or removed by its holder.
\* The back-off is counted from the clock reading of the attempt, here the one its
\* lease was computed from, which the code takes just before the claim.
Settle(w) ==
    /\ pc[w] = "settle"
    /\ Exit(w)
    /\ \/ /\ Fence(w) /\ StoreOK(w)
          /\ IF work[w].outcome = "retryable"
                THEN Reschedule(work[w].job, work[w].lease - Lease + Backoff)
                ELSE Retire(work[w].job)
       \/ /\ (~Fence(w) /\ StoreOK(w)) \/ StoreError(w)
          /\ UNCHANGED rowVars
    /\ UNCHANGED <<job, execVars, nodeVars, now, history>>

-----------------------------------------------------------------------------
(* Time, the retention of the history, processes and the endpoint.          *)

\* Time passes while a row is claimed or is not due yet.  A delivery may take half
\* its lease, so an attempt that outlives the lease waited for a database: an event.
Tick ==
    /\ \E j \in queued : due[j] > now \/ until[j] >= now
    /\ now' = now + 1
    /\ IF \E w \in Claimers : Fence(w) /\ work[w].lease = now
          THEN Happens
          ELSE UNCHANGED events
    /\ UNCHANGED <<job, execVars, nodeVars, rowVars, history, pc, work>>

\* DeleteExpiredWebhookDeliveries: the retention, in days, outlasts a delivery.
Reap(h) ==
    /\ h.job \notin queued
    /\ \A w \in Workers : pc[w] = "free" \/ work[w].job # h.job
    /\ history' = history \ {h}
    /\ UNCHANGED <<asyncVars, now, rowVars, pc, work>>

\* The goroutines of process n are lost.
Down(n) ==
    /\ up' = [up EXCEPT ![n] = "down"]
    /\ pc' = [w \in Workers |-> IF work[w].node = n THEN "free" ELSE pc[w]]
    /\ work' = [w \in Workers |-> IF work[w].node = n THEN NoWork ELSE work[w]]
    /\ exec' = [j \in Jobs |-> IF host[j] = n /\ exec[j] # "idle" THEN "ended" ELSE exec[j]]
    /\ UNCHANGED <<job, host, result, endpoint, resolver, now, rowVars, history>>

Crash(n) == up[n] # "down" /\ Happens /\ Down(n)

\* Stop cancels the dispatcher's context and waits for its goroutines.
Stop(n) ==
    /\ up[n] = "up"
    /\ Happens
    /\ up' = [up EXCEPT ![n] = "stopping"]
    /\ UNCHANGED <<job, execVars, endpoint, resolver, hookVars>>

Halt(n) ==
    /\ up[n] = "stopping"
    /\ \A w \in Workers : work[w].node = n => pc[w] = "free"
    /\ Down(n)
    /\ UNCHANGED events

\* A process starts and loads the endpoint.
Restart(n) ==
    /\ up[n] = "down"
    /\ up' = [up EXCEPT ![n] = "up"]
    /\ resolver' = [resolver EXCEPT ![n] = endpoint]
    /\ UNCHANGED <<job, execVars, endpoint, events, hookVars>>

\* updateWebhookEndpoint and deleteWebhookEndpoint on node n: the row, then the
\* memory of that process.
UpdateEndpoint(n, s) ==
    /\ up[n] # "down"
    /\ Happens
    /\ endpoint # "gone"
    /\ s # endpoint
    /\ endpoint' = s
    /\ resolver' = [resolver EXCEPT ![n] = s]
    /\ UNCHANGED <<job, execVars, up, hookVars>>

Attempt(w) ==
    \/ Begin(w)
    \/ Claim(w)
    \/ Deliver(w)
    \/ Record(w)
    \/ Settle(w)

\* A step of AsyncJobs leaves the deliveries alone.
Execute(j) ==
    /\ \/ \E n \in Nodes : SubmitJob(n, j)
       \/ MarkProcessing(j)
       \/ Operate(j)
       \/ StoreResult(j)
       \/ DeleteExpired(j)
       \/ DeleteStale(j)
    /\ UNCHANGED hookVars

Next ==
    \/ \E j \in Jobs : Execute(j) \/ Notify(j)
    \/ \E n \in Nodes, j \in Jobs : Scan(n, j)
    \/ \E w \in Workers : Attempt(w)
    \/ \E h \in history : Reap(h) \/ \E n \in Nodes : Redeliver(n, h)
    \/ \E n \in Nodes : Crash(n) \/ Stop(n) \/ Halt(n) \/ Restart(n)
    \/ \E n \in Nodes, s \in Settings : UpdateEndpoint(n, s)
    \/ Tick

Spec == Init /\ [][Next]_vars

\* Goroutines make progress, the ticker scans, time passes, processes are restarted.
FairSpec ==
    /\ Spec
    /\ \A w \in Workers : WF_vars(Attempt(w))
    /\ \A j \in Jobs : WF_vars(\E n \in Nodes : Scan(n, j))
    /\ \A n \in Nodes : WF_vars(Halt(n)) /\ WF_vars(Restart(n))
    /\ WF_vars(Tick)

-----------------------------------------------------------------------------
(* Properties.                                                              *)

\* The state is well formed.
TypeOK ==
    /\ job \in [Jobs -> Statuses]
    /\ exec \in [Jobs -> Places]
    /\ host \in [Jobs -> Nodes]
    /\ result \in [Jobs -> Terminal]
    /\ up \in [Nodes -> {"up", "stopping", "down"}]
    /\ endpoint \in EndpointStates
    /\ resolver \in [Nodes -> EndpointStates]
    /\ events \in 0..MaxEvents
    /\ now \in Nat \ {0}
    /\ queued \subseteq Jobs
    /\ event \in [Jobs -> {"none"} \cup Terminal]
    /\ count \in [Jobs -> Nat] /\ due \in [Jobs -> Nat] /\ until \in [Jobs -> Nat]
    /\ by \in [Jobs -> {NoRunner} \cup {RunnerID[n] : n \in Nodes}]
    /\ history \subseteq [job : Jobs, event : {"none"} \cup Terminal, outcome : Outcomes]
    /\ pc \in [Workers -> {"free", "begin", "claim", "deliver", "record", "settle"}]
    /\ work \in [Workers -> [node : Nodes, job : Jobs, listed : Nat, ep : EndpointStates,
                             lease : Nat, outcome : Outcomes]]

\* The fence of RescheduleWebhookJob and DeleteWebhookJob admits one goroutine at
\* most, whatever outlived its lease and though all processes may share the empty
\* runner id: two claims of a row never carry the same lease.
FenceAdmitsOne ==
    \A w, v \in Claimers : w # v /\ work[w].job = work[v].job => work[w].lease # work[v].lease

\* What a receiver is told is what polling shows: while the delivery of a job is
\* queued, the job's row is terminal with the status of the event, or was deleted.
EventMatchesJob ==
    \A j \in queued : event[j] \in Terminal /\ job[j] \in {event[j], "deleted"}

\* A delivery leaves the queue only after a terminal outcome was recorded in the
\* history (finalize writes history first).
RetiredIsRecorded ==
    [][\A j \in queued \ queued' :
          \E h \in history : h.job = j /\ h.outcome = "final"]_vars

\* A stored result is never overwritten, by a late recovery either: it stays as
\* it is until the cleaner deletes it.
ResultIsFinal ==
    [][\A j \in Jobs : job[j] \in Terminal => job'[j] \in {job[j], "deleted"}]_vars

\* Goroutines that hold a stale copy of the row each buy one more retry than MaxRetries,
\* the limit that tables/webhooks.go:64 states, and no more.
RetriesAreBounded ==
    \A j \in queued : count[j] <= MaxRetries + Cardinality(Workers) - 1

\* Every delivery ends, through crashes, shutdowns and failed statements.
EveryDeliveryEnds == \A j \in Jobs : j \in queued ~> j \notin queued
=============================================================================
