------------------------------ MODULE Sidekiq ------------------------------
(***************************************************************************)
(* The durable background jobs of framework/sidekiq (Runner) over the      *)
(* table of framework/configstore/sidekiq.go: nodes enqueue jobs, claim    *)
(* them with a conditional UPDATE, run a handler beside a heartbeat, and   *)
(* complete or fail them with writes fenced on the owner's id.  A job      *)
(* whose heartbeat is older than the stale window may be claimed again.    *)
(* Nodes crash, shut down and restart; the database may refuse a           *)
(* statement.                                                              *)
(*                                                                         *)
(* Abstractions.  A job is its creation number, which orders created_at.   *)
(* Time is the age of a row's updated_at, in ticks, kept up to the first   *)
(* stale value.  Metadata is the resume cursor a handler checkpoints.  A   *)
(* goroutine of a node is an element of Threads.  The insertion of a row   *)
(* and the spawn that follows are one step: a dispatcher that came between *)
(* them would start the same goroutine.  Rows become visible in the order  *)
(* of created_at.                                                          *)
(*                                                                         *)
(* The database is a cluster's, at its default of READ COMMITTED, for no   *)
(* statement sets an isolation level.  An UPDATE evaluates its conditions  *)
(* on a snapshot, waits for writers of its own row and evaluates them again*)
(* for that row only: what it read of other rows may be out of date when   *)
(* it writes.  A claim is therefore a read and a write; the statements     *)
(* whose conditions are all on the row they write are one step.  SQLite,   *)
(* which has one writer at a time, has fewer behaviours.                   *)
(***************************************************************************)
EXTENDS Integers, FiniteSets

CONSTANTS
    Nodes,        \* processes, each with a Runner; the node is its runnerID
    NoNode,       \* runner_id of a job never claimed
    Threads,      \* job goroutines that may exist at once, over all nodes
    NumJobs,      \* bound on the jobs created
    KeyOf,        \* partitioning key of each job
    NoKey,        \* the empty partitioning key
    Handled,      \* jobs of a kind each node has a handler for
    Slots,        \* maxConcurrent
    MaxAttempts,  \* the constant of the same name
    StaleAfter,   \* stale window, in ticks
    MaxCursor,    \* bound on the checkpoints of one handler
    ClusterMode,  \* whether New is given a node id
    Punctual,     \* whether owners heartbeat within the stale window
    StoreMayFail, \* whether a statement may fail
    MaxStops,     \* bound on crashes and shutdowns
    MaxClaims     \* bound on the claims of one job

Jobs == 1..NumJobs

ASSUME SidekiqAssumption ==
    /\ NoNode \notin Nodes
    /\ NumJobs \in Nat
    /\ DOMAIN KeyOf = Jobs
    /\ Handled \in [Nodes -> SUBSET Jobs]
    /\ Slots \in Nat \ {0}
    /\ MaxAttempts \in Nat \ {0}
    /\ StaleAfter \in Nat \ {0}
    /\ MaxCursor \in Nat
    /\ ClusterMode \in BOOLEAN /\ Punctual \in BOOLEAN /\ StoreMayFail \in BOOLEAN
    /\ MaxStops \in Nat
    /\ MaxClaims \in Nat

VARIABLES
    status, owner, attempts, age, cursor,   \* the rows of the table
    snapshot,   \* claims that have read, their own row not written since
    pc, node, job, attempt, seen, cancelled,\* goroutines: place, node, job, claim made,
                                            \* own cursor, jobCtx cancelled
    up,         \* state of each process
    window,     \* Runner.staleAfter
    dispatching,\* nodes whose dispatcher was started
    listed,     \* what is left of the list dispatchOnce walks through
    inflight,   \* Runner.inflight
    started,    \* history: attempts for which a job's handler was called
    stops       \* crashes and shutdowns so far

rowVars    == <<status, owner, attempts, age, cursor, snapshot>>
threadVars == <<pc, node, job, attempt, seen, cancelled>>
nodeVars   == <<up, window, dispatching, listed, stops>>
vars == <<rowVars, threadVars, nodeVars, inflight, started>>

Terminal == {"completed", "failed"}
Claimed == {"fetch", "exhausted", "handle", "succeeded", "errored", "panicked"}

Init ==
    /\ status = [j \in Jobs |-> "absent"]
    /\ owner = [j \in Jobs |-> NoNode]
    /\ attempts = [j \in Jobs |-> 0]
    /\ age = [j \in Jobs |-> 0]
    /\ cursor = [j \in Jobs |-> 0]
    /\ pc = [t \in Threads |-> "free"]
    /\ node = [t \in Threads |-> NoNode]
    /\ job = [t \in Threads |-> 0]
    /\ attempt = [t \in Threads |-> 0]
    /\ seen = [t \in Threads |-> 0]
    /\ cancelled = {}
    /\ snapshot = {}
    /\ up = [n \in Nodes |-> "down"]
    /\ window = [n \in Nodes |-> 0]
    /\ dispatching = {}
    /\ listed = [n \in Nodes |-> {}]
    /\ inflight = {}
    /\ started = [j \in Jobs |-> {}]
    /\ stops = 0

-----------------------------------------------------------------------------
(* The statements of configstore/sidekiq.go.                                *)

\* updated_at < staleBefore, with the stale window of node n.
Stale(n, j) == status[j] = "running" /\ age[j] > window[n]

Claimable(n, j) == status[j] = "pending" \/ Stale(n, j)

SameKey(i, j) == i # j /\ KeyOf[i] = KeyOf[j] /\ KeyOf[j] # NoKey

\* Mutant: G2 only, another job of the key may be running.
NextInLine_FifoOnly(n, j) ==
    \A i \in Jobs : SameKey(i, j) => ~(status[i] = "pending" /\ i < j)

\* G1: no other job of the key runs under a live owner; G2: no older one is pending.
NextInLine(n, j) ==
    \A i \in Jobs : SameKey(i, j) =>
        /\ ~(status[i] = "running" /\ ~Stale(n, i))
        /\ ~(status[i] = "pending" /\ i < j)

\* Mutant: a write is not fenced on its owner.
Fence_AnyOwner(n, j) == status[j] = "running"

\* The conditions of the claim's UPDATE, on its snapshot.
Wins(n, j) == Claimable(n, j) /\ NextInLine(n, j)

\* runner_id = n AND status = running.
Fence(n, j) == owner[j] = n /\ status[j] = "running"

StoreOK(n) == up[n] = "up"
StoreError(n) == up[n] = "stopping" \/ StoreMayFail

\* Job j's row is written: a claim of it that has read finds it changed.
Overwrites(j) == snapshot' = {u \in snapshot : job[u] # j}

\* ClaimSidekiqJob, and ClaimPartitionedSidekiqJob for a job with a key.
ClaimRow(n, j) ==
    /\ status' = [status EXCEPT ![j] = "running"]
    /\ owner' = [owner EXCEPT ![j] = n]
    /\ attempts' = [attempts EXCEPT ![j] = @ + 1]
    /\ age' = [age EXCEPT ![j] = 0]
    /\ Overwrites(j)
    /\ UNCHANGED cursor

\* CompleteSidekiqJob and FailSidekiqJob: s is the final status, c the metadata.
FinishRow(j, s, c) ==
    /\ status' = [status EXCEPT ![j] = s]
    /\ age' = [age EXCEPT ![j] = 0]
    /\ cursor' = [cursor EXCEPT ![j] = c]
    /\ Overwrites(j)
    /\ UNCHANGED <<owner, attempts>>

-----------------------------------------------------------------------------
(* Goroutines of a node.                                                    *)

\* A new goroutine of node n for job j, at place p.
Spawn(n, j, p) ==
    \E t \in Threads :
        /\ pc[t] = "free"
        /\ pc' = [pc EXCEPT ![t] = p]
        /\ node' = [node EXCEPT ![t] = n]
        /\ job' = [job EXCEPT ![t] = j]
        /\ UNCHANGED <<attempt, seen, cancelled>>

\* The goroutine returns: its deferred calls clear inflight and free its slot.
Exit(t) ==
    /\ pc' = [pc EXCEPT ![t] = "free"]
    /\ node' = [node EXCEPT ![t] = NoNode]
    /\ job' = [job EXCEPT ![t] = 0]
    /\ attempt' = [attempt EXCEPT ![t] = 0]
    /\ seen' = [seen EXCEPT ![t] = 0]
    /\ cancelled' = cancelled \ {t}
    /\ inflight' = inflight \ {<<node[t], job[t]>>}

SlotsTaken(n) == Cardinality({t \in Threads : node[t] = n /\ pc[t] # "waitSlot"})

\* EnqueuePartitioned: insert the row, then spawn a goroutine that waits for a slot.
Enqueue(n, j) ==
    /\ up[n] # "down"
    /\ j \in Handled[n]
    /\ status[j] = "absent"
    /\ \A i \in Jobs : i < j => status[i] # "absent"
    /\ status' = [status EXCEPT ![j] = "pending"]
    /\ inflight' = inflight \cup {<<n, j>>}
    /\ Spawn(n, j, "waitSlot")
    /\ UNCHANGED <<owner, attempts, age, cursor, snapshot, nodeVars, started>>

AcquireSlot(t) ==
    /\ pc[t] = "waitSlot"
    /\ SlotsTaken(node[t]) < Slots
    /\ pc' = [pc EXCEPT ![t] = "claim"]
    /\ UNCHANGED <<rowVars, node, job, attempt, seen, cancelled, nodeVars, inflight, started>>

\* case <-r.baseCtx.Done().
LeaveQueue(t) ==
    /\ pc[t] = "waitSlot"
    /\ up[node[t]] = "stopping"
    /\ Exit(t)
    /\ UNCHANGED <<rowVars, nodeVars, started>>

\* execute claims the job: the UPDATE reads ...
ClaimRead(t) ==
    LET n == node[t] j == job[t] IN
    /\ pc[t] = "claim"
    /\ \/ /\ StoreOK(n)
          /\ Wins(n, j)
          /\ pc' = [pc EXCEPT ![t] = "update"]
          /\ snapshot' = snapshot \cup {t}
          /\ UNCHANGED <<node, job, attempt, seen, cancelled, inflight>>
       \/ /\ StoreError(n) \/ ~Wins(n, j)
          /\ Exit(t)
          /\ UNCHANGED snapshot
    /\ UNCHANGED <<status, owner, attempts, age, cursor, nodeVars, started>>

\* Mutant: a row written since is written again.
Unwritten_Unchecked(t) == TRUE

\* The row is what the UPDATE read.  One written since is young or terminal, and
\* no longer meets the conditions.
Unwritten(t) == t \in snapshot

\* ... and writes; when it affects no row, the goroutine ends.
ClaimWrite(t) ==
    LET n == node[t] j == job[t] IN
    /\ pc[t] = "update"
    /\ \/ /\ StoreOK(n)
          /\ Unwritten(t)
          /\ attempts[j] < MaxClaims
          /\ ClaimRow(n, j)
          /\ pc' = [pc EXCEPT ![t] = "fetch"]
          /\ attempt' = [attempt EXCEPT ![t] = attempts[j] + 1]
          /\ UNCHANGED <<node, job, seen, cancelled, inflight>>
       \/ /\ StoreError(n) \/ ~Unwritten(t)
          /\ Exit(t)
          /\ snapshot' = snapshot \ {t}
          /\ UNCHANGED <<status, owner, attempts, age, cursor>>
    /\ UNCHANGED <<nodeVars, started>>

\* Mutant: one attempt too many.
Exhausted_OffByOne(j) == attempts[j] > MaxAttempts

Exhausted(j) == attempts[j] >= MaxAttempts

\* The row is read again: the handler starts from the cursor it holds, unless the
\* attempts are used up.  Ownership is not looked at.
Fetch(t) ==
    LET j == job[t] IN
    /\ pc[t] = "fetch"
    /\ \/ /\ StoreOK(node[t])
          /\ Exhausted(j)
          /\ pc' = [pc EXCEPT ![t] = "exhausted"]
          /\ seen' = [seen EXCEPT ![t] = cursor[j]]
          /\ UNCHANGED <<node, job, attempt, cancelled, inflight, started>>
       \/ /\ StoreOK(node[t])
          /\ ~Exhausted(j)
          /\ pc' = [pc EXCEPT ![t] = "handle"]
          /\ seen' = [seen EXCEPT ![t] = cursor[j]]
          /\ started' = [started EXCEPT ![j] = @ \cup {attempt[t]}]
          /\ UNCHANGED <<node, job, attempt, cancelled, inflight>>
       \/ /\ StoreError(node[t])
          /\ Exit(t)
          /\ UNCHANGED started
    /\ UNCHANGED <<rowVars, nodeVars>>

\* A handler finishes a unit of work and checkpoints it (UpdateSidekiqJobProgress).
Progress(t) ==
    LET n == node[t] j == job[t] IN
    /\ pc[t] = "handle"
    /\ seen[t] < MaxCursor
    /\ seen' = [seen EXCEPT ![t] = @ + 1]
    /\ \/ /\ StoreOK(n)
          /\ Fence(n, j)
          /\ cursor' = [cursor EXCEPT ![j] = seen[t] + 1]
          /\ age' = [age EXCEPT ![j] = 0]
          /\ Overwrites(j)
       \/ /\ StoreError(n) \/ ~Fence(n, j)
          /\ UNCHANGED <<cursor, age, snapshot>>
    /\ UNCHANGED <<status, owner, attempts, pc, node, job, attempt, cancelled, nodeVars,
                   inflight, started>>

\* The handler returns, with or without an error, or panics.
HandlerReturn(t) ==
    /\ pc[t] = "handle"
    /\ \E p \in {"succeeded", "errored", "panicked"} : pc' = [pc EXCEPT ![t] = p]
    /\ UNCHANGED <<rowVars, node, job, attempt, seen, cancelled, nodeVars, inflight, started>>

\* The last write of execute: the handler's final metadata, or after a panic none.
Finish(t) ==
    LET n == node[t] j == job[t] IN
    /\ pc[t] \in {"exhausted", "succeeded", "errored", "panicked"}
    /\ \/ /\ StoreOK(n)
          /\ Fence(n, j)
          /\ FinishRow(j, IF pc[t] = "succeeded" THEN "completed" ELSE "failed",
                       IF pc[t] = "panicked" THEN cursor[j] ELSE seen[t])
       \/ /\ StoreError(n) \/ ~Fence(n, j)
          /\ UNCHANGED rowVars
    /\ Exit(t)
    /\ UNCHANGED <<nodeVars, started>>

\* startHeartbeat: a tick of the ticker, until the handler's result is written or
\* the job's context is done.
Heartbeat(t) ==
    LET n == node[t] j == job[t] IN
    /\ pc[t] \in {"handle", "succeeded", "errored"}
    /\ t \notin cancelled
    /\ StoreOK(n)
    /\ \/ /\ Fence(n, j)
          /\ age' = [age EXCEPT ![j] = 0]
          /\ Overwrites(j)
          /\ UNCHANGED cancelled
       \/ /\ ~Fence(n, j)
          /\ cancelled' = cancelled \cup {t}
          /\ UNCHANGED <<age, snapshot>>
    /\ UNCHANGED <<status, owner, attempts, cursor, pc, node, job, attempt, seen, nodeVars,
                   inflight, started>>

-----------------------------------------------------------------------------
(* The dispatcher and the life of a node.                                   *)

\* Mutants: orphans are not listed; the in-flight set is not consulted.
DispatchList_PendingOnly(n) ==
    /\ n \in dispatching
    /\ up[n] = "up"
    /\ listed[n] = {}
    /\ listed' = [listed EXCEPT ![n] = {j \in Jobs : status[j] = "pending"}]
    /\ UNCHANGED <<rowVars, threadVars, up, window, dispatching, stops, inflight, started>>

Inflight_Never(n, j) == FALSE

\* tryMarkInflight finds the job in the set.
Inflight(n, j) == <<n, j>> \in inflight

\* dispatchOnce lists what is claimable now ...
DispatchList(n) ==
    /\ n \in dispatching
    /\ up[n] = "up"
    /\ listed[n] = {}
    /\ listed' = [listed EXCEPT ![n] = {j \in Jobs : Claimable(n, j)}]
    /\ UNCHANGED <<rowVars, threadVars, up, window, dispatching, stops, inflight, started>>

\* ... and spawns a goroutine for each, oldest first, while slots are free.
DispatchNext(n) ==
    \E j \in listed[n] :
        /\ \A i \in listed[n] : j <= i
        /\ \/ /\ j \notin Handled[n] \/ Inflight(n, j)
              /\ listed' = [listed EXCEPT ![n] = @ \ {j}]
              /\ UNCHANGED <<threadVars, inflight>>
           \/ /\ j \in Handled[n] /\ ~Inflight(n, j)
              /\ SlotsTaken(n) < Slots
              /\ inflight' = inflight \cup {<<n, j>>}
              /\ Spawn(n, j, "claim")
              /\ listed' = [listed EXCEPT ![n] = @ \ {j}]
           \/ /\ j \in Handled[n] /\ ~Inflight(n, j)
              /\ SlotsTaken(n) >= Slots
              /\ listed' = [listed EXCEPT ![n] = {}]
              /\ UNCHANGED <<threadVars, inflight>>
        /\ UNCHANGED <<rowVars, up, window, dispatching, stops, started>>

\* New.
Start(n) ==
    /\ up[n] = "down"
    /\ up' = [up EXCEPT ![n] = "up"]
    /\ window' = [window EXCEPT ![n] = IF ClusterMode THEN StaleAfter ELSE 0]
    /\ UNCHANGED <<rowVars, threadVars, dispatching, listed, stops, inflight, started>>

\* StartDispatcher sets the stale window again, whatever New chose.
StartDispatcher(n) ==
    /\ up[n] = "up"
    /\ n \notin dispatching
    /\ dispatching' = dispatching \cup {n}
    /\ window' = [window EXCEPT ![n] = StaleAfter]
    /\ UNCHANGED <<rowVars, threadVars, up, listed, stops, inflight, started>>

\* Shutdown cancels the base context ...
Shutdown(n) ==
    /\ up[n] = "up"
    /\ stops < MaxStops
    /\ stops' = stops + 1
    /\ up' = [up EXCEPT ![n] = "stopping"]
    /\ UNCHANGED <<rowVars, threadVars, window, dispatching, listed, inflight, started>>

\* ... and waits for the goroutines; then the process ends.
ShutdownDone(n) ==
    /\ up[n] = "stopping"
    /\ listed[n] = {}
    /\ \A t \in Threads : node[t] # n
    /\ up' = [up EXCEPT ![n] = "down"]
    /\ dispatching' = dispatching \ {n}
    /\ UNCHANGED <<rowVars, threadVars, window, listed, stops, inflight, started>>

\* The process dies: its goroutines and its memory are gone, the rows stay.
Crash(n) ==
    LET dead == {t \in Threads : node[t] = n} IN
    /\ up[n] # "down"
    /\ stops < MaxStops
    /\ stops' = stops + 1
    /\ up' = [up EXCEPT ![n] = "down"]
    /\ dispatching' = dispatching \ {n}
    /\ listed' = [listed EXCEPT ![n] = {}]
    /\ inflight' = {x \in inflight : x[1] # n}
    /\ pc' = [t \in Threads |-> IF t \in dead THEN "free" ELSE pc[t]]
    /\ node' = [t \in Threads |-> IF t \in dead THEN NoNode ELSE node[t]]
    /\ job' = [t \in Threads |-> IF t \in dead THEN 0 ELSE job[t]]
    /\ attempt' = [t \in Threads |-> IF t \in dead THEN 0 ELSE attempt[t]]
    /\ seen' = [t \in Threads |-> IF t \in dead THEN 0 ELSE seen[t]]
    /\ cancelled' = cancelled \ dead
    /\ snapshot' = snapshot \ dead
    /\ UNCHANGED <<status, owner, attempts, age, cursor, window, started>>

\* The goroutine that made the latest claim of its job.
Holds(t) == pc[t] \in Claimed /\ Fence(node[t], job[t]) /\ attempts[job[t]] = attempt[t]

\* Time passes.  With Punctual, not so much that a live owner becomes stale.
Tick ==
    /\ Punctual => \A t \in Threads : Holds(t) => age[job[t]] < StaleAfter
    /\ age' = [j \in Jobs |-> IF status[j] = "running" /\ age[j] <= StaleAfter
                                THEN age[j] + 1 ELSE age[j]]
    /\ UNCHANGED <<status, owner, attempts, cursor, snapshot, threadVars, nodeVars, inflight,
                   started>>

-----------------------------------------------------------------------------
ThreadStep(t) ==
    \/ AcquireSlot(t) \/ LeaveQueue(t) \/ ClaimRead(t) \/ ClaimWrite(t)
    \/ Fetch(t) \/ Progress(t) \/ HandlerReturn(t) \/ Finish(t)

Dispatch(n) == DispatchList(n) \/ DispatchNext(n)

Boot(n) == Start(n) \/ StartDispatcher(n) \/ ShutdownDone(n)

Next ==
    \/ \E t \in Threads : ThreadStep(t) \/ Heartbeat(t)
    \/ \E n \in Nodes : \E j \in Jobs : Enqueue(n, j)
    \/ \E n \in Nodes : Dispatch(n) \/ Boot(n) \/ Shutdown(n) \/ Crash(n)
    \/ Tick

Spec == Init /\ [][Next]_vars

\* Goroutines run, handlers return, the dispatcher's ticker fires, time passes and
\* a stopped process is started again.  A receive from the full semaphore channel
\* hands its slot to the first blocked sender, hence strong fairness there.
FairSpec ==
    /\ Spec
    /\ \A t \in Threads : WF_vars(ThreadStep(t)) /\ SF_vars(AcquireSlot(t))
    /\ \A n \in Nodes : WF_vars(Dispatch(n)) /\ WF_vars(Boot(n))
    /\ WF_vars(Tick)

-----------------------------------------------------------------------------
(* Properties.                                                              *)

\* Type invariant of the job table, the goroutines and the runners.
TypeOK ==
    /\ status \in [Jobs -> {"absent", "pending", "running"} \cup Terminal]
    /\ owner \in [Jobs -> Nodes \cup {NoNode}]
    /\ attempts \in [Jobs -> Nat]
    /\ age \in [Jobs -> 0..StaleAfter + 1]
    /\ cursor \in [Jobs -> Nat]
    /\ snapshot \subseteq Threads
    /\ pc \in [Threads -> {"free", "waitSlot", "claim", "update"} \cup Claimed]
    /\ node \in [Threads -> Nodes \cup {NoNode}]
    /\ job \in [Threads -> Jobs \cup {0}]
    /\ attempt \in [Threads -> Nat]
    /\ seen \in [Threads -> Nat]
    /\ cancelled \subseteq Threads
    /\ up \in [Nodes -> {"up", "stopping", "down"}]
    /\ window \in [Nodes -> {0, StaleAfter}]
    /\ dispatching \subseteq Nodes
    /\ listed \in [Nodes -> SUBSET Jobs]
    /\ inflight \subseteq Nodes \X Jobs
    /\ started \in [Jobs -> SUBSET Nat]
    /\ stops \in Nat

\* The fence on runner_id admits only the goroutine that made the latest claim,
\* though a node may claim a job again after it was lost to another: a goroutine
\* that outlived its claim cannot checkpoint, complete or fail the job.
FenceAdmitsLatestClaim ==
    \A t \in Threads :
      pc[t] \in Claimed /\ Fence(node[t], job[t]) => attempt[t] = attempts[job[t]]

\* A poison job's handler is called for less than MaxAttempts claims, however often
\* nodes crash in it and however many goroutines outlive their claims.
PoisonJobIsBounded == \A j \in Jobs : started[j] \subseteq 1..MaxAttempts - 1

\* The checkpoint of a job never goes back: not by a goroutine that outlived its
\* claim, nor by a resumed handler, nor by the final write.
CheckpointsNeverRegress == [][\A j \in Jobs : cursor'[j] >= cursor[j]]_vars

\* While owners heartbeat in time, one goroutine in the cluster runs a job's handler.
OneHandlerPerJob ==
    \A t, u \in Threads :
      pc[t] = "handle" /\ pc[u] = "handle" /\ job[t] = job[u] => t = u

\* What ClaimPartitionedSidekiqJob promises: one handler runs per partitioning key.
\* Two nodes that claim an orphan and the job behind it at the same time break it.
OneHandlerPerKey ==
    \A t, u \in Threads :
      pc[t] = "handle" /\ pc[u] = "handle" => ~SameKey(job[t], job[u])

\* What is left of that promise while owners heartbeat in time: two handlers of a key
\* run together only if the older job's was started again, after its owner was lost.
\* Jobs that no crash touches run one at a time.
OverlapOnlyOnResume ==
    \A t, u \in Threads :
      /\ pc[t] = "handle" /\ pc[u] = "handle"
      /\ SameKey(job[t], job[u]) /\ job[t] < job[u]
      => attempt[t] >= 2

\* Every job that was enqueued ends, through crashes, shutdowns and lost claims.
EveryJobEnds == \A j \in Jobs : status[j] = "pending" ~> status[j] \in Terminal

-----------------------------------------------------------------------------
(* The inductive invariant behind the safety properties.                    *)

\* A goroutine works on a job that exists, for a node that is not down, is in that
\* node's in-flight set, and is the only one of its node on that job.
ThreadInv ==
    /\ \A t \in Threads :
         IF pc[t] = "free"
           THEN node[t] = NoNode
           ELSE /\ node[t] \in Nodes
                /\ job[t] \in Jobs
                /\ <<node[t], job[t]>> \in inflight
                /\ status[job[t]] # "absent"
                /\ up[node[t]] # "down"
    /\ \A t, u \in Threads :
         pc[t] # "free" /\ pc[u] # "free" /\ node[t] = node[u] /\ job[t] = job[u] => t = u
    /\ \A n \in Nodes : \A j \in listed[n] : status[j] # "absent"
    /\ \A n \in Nodes : up[n] = "down" => listed[n] = {}

\* A claim is one of those counted, and the last one where the fence is open.
ClaimInv ==
    \A t \in Threads : pc[t] \in Claimed =>
      /\ attempt[t] >= 1 /\ attempt[t] <= attempts[job[t]]
      /\ Fence(node[t], job[t]) => attempt[t] = attempts[job[t]]

\* Where the fence is open, the goroutine's cursor is not behind the row's.
CursorInv ==
    \A t \in Threads :
      pc[t] \in Claimed \ {"fetch"} /\ Fence(node[t], job[t]) => seen[t] >= cursor[job[t]]

\* A claim underway or held: its statement has read, or has also written.
Claiming(t) == t \in snapshot \/ pc[t] \in Claimed

\* Rows appear in their order, and one that left the queue was claimed before.
RowInv ==
    /\ \A i, j \in Jobs : i < j /\ status[j] # "absent" => status[i] # "absent"
    /\ \A j \in Jobs : status[j] \notin {"absent", "pending"} => attempts[j] >= 1

\* A claim underway or held has seen the older jobs of its key claimed before it.
OrderInv ==
    /\ \A t \in snapshot : pc[t] = "update"
    /\ \A t \in Threads : Claiming(t) =>
         \A i \in Jobs : SameKey(i, job[t]) /\ i < job[t] => attempts[i] >= 1

\* With node ids and heartbeats in time, a claim is kept until its final write, no
\* other one of its job is underway, and where one of a younger job of its key is
\* underway or held, it is not the first of its own.
ExclusionInv ==
    ClusterMode /\ Punctual =>
      /\ \A n \in Nodes : up[n] # "down" => window[n] = StaleAfter
      /\ \A t \in Threads : pc[t] \in Claimed =>
           Fence(node[t], job[t]) /\ age[job[t]] <= StaleAfter
      /\ \A t \in Threads, u \in snapshot : pc[t] \in Claimed => job[t] # job[u]
      /\ \A t, u \in Threads :
           /\ pc[t] \in Claimed /\ Claiming(u)
           /\ SameKey(job[t], job[u]) /\ job[t] < job[u]
           => attempt[t] >= 2

\* The inductive invariant of the job runner.
JobInv ==
    /\ TypeOK
    /\ ThreadInv
    /\ ClaimInv
    /\ CursorInv
    /\ PoisonJobIsBounded
    /\ RowInv
    /\ OrderInv
    /\ ExclusionInv
=============================================================================
