----------------------------- MODULE AsyncJobs -----------------------------
(***************************************************************************)
(* Asynchronous inference jobs: the executor and the cleaner of            *)
(* framework/logstore/asyncjob.go over the async_jobs table of             *)
(* framework/logstore/rdb.go.  SubmitJob inserts a pending row and starts  *)
(* a goroutine, which marks the row as processing, runs the operation,     *)
(* stores a terminal status and only then hands the job to the webhook     *)
(* dispatcher.  The cleaner deletes rows past their TTL and rows that have *)
(* been processing for a day.  The hand-over itself is Webhooks!Notify.    *)
(*                                                                         *)
(* Abstractions.  A row is its status; responses and errors are left out.  *)
(* A result may be past its TTL, and a processing row a day old, at any    *)
(* time.  Every job names the one webhook endpoint.  Statements are atomic *)
(* and may fail; failures, crashes, shutdowns and what administrators do   *)
(* to deliveries are events, of which there are at most MaxEvents.         *)
(***************************************************************************)
EXTENDS Integers, FiniteSets

CONSTANTS
    Nodes,      \* processes that share the two databases
    Jobs,       \* async jobs
    MaxEvents,  \* bound on failed statements, crashes, shutdowns and requests of administrators
    Settings    \* what an administrator may set the endpoint to

EndpointStates == {"subscribed", "unsubscribed", "disabled", "gone"}

ASSUME AsyncJobsAssumption ==
    /\ Nodes # {} /\ Jobs # {}
    /\ MaxEvents \in Nat
    /\ Settings \subseteq EndpointStates

VARIABLES
    job,        \* the rows of async_jobs, by status
    exec,       \* where the goroutine of each job is
    host,       \* the process it runs in
    result,     \* the terminal status it is going to store, or has stored
    up,         \* state of each process
    endpoint,   \* the endpoint's row in the config store
    resolver,   \* the endpoint in the memory of each process
    events      \* events so far

execVars == <<exec, host, result>>
nodeVars == <<up, endpoint, resolver>>
asyncVars == <<job, execVars, nodeVars, events>>

Terminal == {"completed", "failed"}
Statuses == {"absent", "pending", "processing", "deleted"} \cup Terminal
Places == {"idle", "mark", "run", "store", "notify", "ended"}

AsyncInit ==
    /\ job = [j \in Jobs |-> "absent"]
    /\ exec = [j \in Jobs |-> "idle"]
    /\ host = [j \in Jobs |-> CHOOSE n \in Nodes : TRUE]
    /\ result = [j \in Jobs |-> "failed"]
    /\ up = [n \in Nodes |-> "up"]
    /\ endpoint = "subscribed"
    /\ resolver = [n \in Nodes |-> "subscribed"]
    /\ events = 0

\* A failure or a request, while there may be one more.
Happens == events < MaxEvents /\ events' = events + 1

\* The process of the goroutine of job j still runs; its context is context.Background().
Running(j) == up[host[j]] # "down"

-----------------------------------------------------------------------------
(* AsyncJobExecutor.                                                        *)

\* SubmitJob on node n: the endpoint must resolve and be enabled, the row be inserted.
SubmitJob(n, j) ==
    /\ up[n] # "down"
    /\ exec[j] = "idle"
    /\ resolver[n] \in {"subscribed", "unsubscribed"}
    /\ job' = [job EXCEPT ![j] = "pending"]
    /\ exec' = [exec EXCEPT ![j] = "mark"]
    /\ host' = [host EXCEPT ![j] = n]
    /\ UNCHANGED <<result, nodeVars, events>>

\* UpdateAsyncJob: WHERE id = j; a row that is gone is no error.
UpdateAsyncJob(j, s) == job' = [job EXCEPT ![j] = IF @ = "deleted" THEN @ ELSE s]

\* A failed update is logged and the operation runs all the same.
MarkProcessing(j) ==
    /\ exec[j] = "mark" /\ Running(j)
    /\ exec' = [exec EXCEPT ![j] = "run"]
    /\ \/ UpdateAsyncJob(j, "processing") /\ UNCHANGED events
       \/ Happens /\ UNCHANGED job
    /\ UNCHANGED <<host, result, nodeVars>>

\* The operation returns, fails, panics, or its answer cannot be serialised: the
\* last three end in a failed job.
Operate(j) ==
    /\ exec[j] = "run" /\ Running(j)
    /\ exec' = [exec EXCEPT ![j] = "store"]
    /\ \E r \in Terminal : result' = [result EXCEPT ![j] = r]
    /\ UNCHANGED <<job, host, nodeVars, events>>

\* Mutant: the webhook is notified whether or not the update succeeded.
StoreResult_Regardless(j) ==
    /\ exec[j] = "store" /\ Running(j)
    /\ \/ UpdateAsyncJob(j, result[j]) /\ UNCHANGED events
       \/ Happens /\ UNCHANGED job
    /\ exec' = [exec EXCEPT ![j] = "notify"]
    /\ UNCHANGED <<host, result, nodeVars>>

\* The terminal update; the job is announced only when it was stored.
StoreResult(j) ==
    /\ exec[j] = "store" /\ Running(j)
    /\ \/ /\ UpdateAsyncJob(j, result[j])
          /\ exec' = [exec EXCEPT ![j] = "notify"]
          /\ UNCHANGED events
       \/ /\ Happens
          /\ exec' = [exec EXCEPT ![j] = "ended"]
          /\ UNCHANGED job
    /\ UNCHANGED <<host, result, nodeVars>>

-----------------------------------------------------------------------------
(* AsyncJobCleaner, for one row of each statement.                          *)

\* DeleteExpiredAsyncJobs.
DeleteExpired(j) ==
    /\ job[j] \in Terminal
    /\ job' = [job EXCEPT ![j] = "deleted"]
    /\ UNCHANGED <<execVars, nodeVars, events>>

\* DeleteStaleAsyncJobs: the operation may still be running.
DeleteStale(j) ==
    /\ job[j] = "processing"
    /\ job' = [job EXCEPT ![j] = "deleted"]
    /\ UNCHANGED <<execVars, nodeVars, events>>
=============================================================================
