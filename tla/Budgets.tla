------------------------------ MODULE Budgets ------------------------------
(***************************************************************************)
(* One budget of plugins/governance: the entry of the in-memory map that   *)
(* requests are checked against and billed to, and its row in the database.*)
(* Requests bill concurrently by compare-and-swap; whoever sees that the   *)
(* window of the budget has closed resets it; a ticker sweeps closed       *)
(* windows and dumps the entry into the row; operators clear the usage or  *)
(* grant and clear an override, in the row first and then by a reload of   *)
(* the entry; the process stops, or crashes, and loads the row again.      *)
(*                                                                         *)
(* Abstractions.  Time is the number of the current window, which is what  *)
(* WindowStart gives; every request costs 1; the limit is fixed and an     *)
(* override is large enough for every request.  A loop that loads the      *)
(* entry, computes its successor and swaps it in is one step where nothing *)
(* else happens in the loop; in BumpBudgetUsage the clock is read between. *)
(* Rows are written one budget at a time, as outside PostgreSQL.  A switch *)
(* to calendar alignment, a deletion, and the remote baselines of a        *)
(* cluster are left out; the first sweep stands for PerformStartupResets.  *)
(***************************************************************************)
EXTENDS Integers

CONSTANTS
    Requests,   \* requests, each of which costs 1
    Admins,     \* handlers of operators, each of which runs once
    AdminOps,   \* what they do: a subset of {"reset", "grant", "clear"}
    Limit,      \* MaxLimit
    Cycles,     \* windows of a granted override
    MaxWindow,  \* bound on the windows
    MaxStops,   \* bound on crashes and shutdowns
    NoGrant     \* a budget without an override

Windows == 0..MaxWindow
Grants == [anchor : Windows, total : {Cycles}] \cup {NoGrant}
Budget == [usage : Nat, last : Windows, grant : Grants]

\* The reset worker of the tracker, and the last dump of Cleanup.
Dumpers == {"ticker", "final"}

ASSUME BudgetsAssumption ==
    /\ AdminOps \subseteq {"reset", "grant", "clear"}
    /\ Limit \in Nat /\ Cycles \in Nat \ {0} /\ MaxWindow \in Nat /\ MaxStops \in Nat
    /\ NoGrant \notin [anchor : Windows, total : {Cycles}]

VARIABLES
    now,     \* the current window
    up,      \* the process: "up", "stopping" (in Cleanup) or "down"
    stops,   \* how often it stopped
    mem,     \* the entry of gs.budgets
    gens,    \* budgetResetGens of the budget
    row,     \* the row of governance_budgets
    req,     \* where each request is
    fresh,   \* requests whose loaded pointer is still the entry
    spent,   \* what was billed in each window (history)
    dump,    \* where each dumper is
    snap,    \* the row it is going to write
    seen,    \* the generation it has read
    admin,   \* where each handler is
    op,      \* what it does
    edit     \* the budget it is going to publish

reqVars   == <<req, fresh, spent>>
dumpVars  == <<dump, snap, seen>>
adminVars == <<admin, op, edit>>
vars == <<now, up, stops, mem, gens, row, reqVars, dumpVars, adminVars>>

Zero == [usage |-> 0, last |-> 0, grant |-> NoGrant]

Init ==
    /\ now = 0 /\ up = "up" /\ stops = 0
    /\ mem = Zero /\ row = Zero /\ gens = 0
    /\ req = [r \in Requests |-> "new"] /\ fresh = {}
    /\ spent = [w \in Windows |-> 0]
    /\ dump = [d \in Dumpers |-> "idle"]
    /\ snap = [d \in Dumpers |-> Zero]
    /\ seen = [d \in Dumpers |-> 0]
    /\ admin = [a \in Admins |-> "new"]
    /\ op = [a \in Admins |-> "none"]
    /\ edit = [a \in Admins |-> Zero]

-----------------------------------------------------------------------------
(* The entry.                                                               *)

\* Mutant: the count of an override is not derived again.
Refreshed_Never(b) == b

\* RefreshOverrideCyclesRemaining: an override ends with the last window of its grant.
Refreshed(b) ==
    IF b.grant # NoGrant /\ b.last - b.grant.anchor >= b.grant.total
       THEN [b EXCEPT !.grant = NoGrant]
       ELSE b

\* A new pointer in gs.budgets: no other swap that has loaded the old one succeeds.
\* BumpBudgetUsage does not derive the count; its swap moves neither window nor grant.
Publish(b) ==
    /\ mem' = Refreshed(b)
    /\ fresh' = {}

\* budgetResetTarget: the window of the entry has closed.
Due == mem.last < now

\* Mutant: the boundary does not move.
ResetBudgetAt_UsageOnly == Publish([mem EXCEPT !.usage = 0])

\* ResetBudgetAt the current window.
ResetBudgetAt == Publish([mem EXCEPT !.usage = 0, !.last = now])

\* markBudgetResetLocked, in a critical section of its own after the swap.
MarkBudgetReset == gens' = gens + 1

-----------------------------------------------------------------------------
(* Requests.                                                                *)

\* CheckBudget: a closed window is not enforced.
Allowed == Due \/ mem.grant # NoGrant \/ mem.usage < Limit

CheckBudget(r) ==
    /\ up = "up" /\ req[r] = "new"
    /\ req' = [req EXCEPT ![r] = IF Allowed THEN "bill" ELSE "denied"]
    /\ UNCHANGED <<now, up, stops, mem, gens, row, fresh, spent, dumpVars, adminVars>>

\* BumpBudgetUsage loads the entry and looks at the clock: a closed window is reset
\* first, by the path that the sweep uses.
Load(r) ==
    /\ up = "up" /\ req[r] = "bill"
    /\ IF Due
          THEN ResetBudgetAt /\ req' = [req EXCEPT ![r] = "mark"]
          ELSE /\ fresh' = fresh \cup {r}
               /\ req' = [req EXCEPT ![r] = "swap"]
               /\ UNCHANGED mem
    /\ UNCHANGED <<now, up, stops, gens, row, spent, dumpVars, adminVars>>

Mark(r) ==
    /\ up = "up" /\ req[r] = "mark"
    /\ MarkBudgetReset
    /\ req' = [req EXCEPT ![r] = "bill"]
    /\ UNCHANGED <<now, up, stops, mem, row, fresh, spent, dumpVars, adminVars>>

\* The swap, or another turn of the loop.
Swap(r) ==
    /\ up = "up" /\ req[r] = "swap"
    /\ IF r \in fresh
          THEN /\ Publish([mem EXCEPT !.usage = @ + 1])
               /\ spent' = [spent EXCEPT ![mem.last] = @ + 1]
               /\ req' = [req EXCEPT ![r] = "done"]
          ELSE req' = [req EXCEPT ![r] = "bill"] /\ UNCHANGED <<mem, fresh, spent>>
    /\ UNCHANGED <<now, up, stops, gens, row, dumpVars, adminVars>>

-----------------------------------------------------------------------------
(* The ticker and the dumps.                                                *)

Goto(d, l) == dump' = [dump EXCEPT ![d] = l]

\* Dumper d is through with the rows it has read.
Forget(d) ==
    /\ snap' = [snap EXCEPT ![d] = Zero]
    /\ seen' = [seen EXCEPT ![d] = 0]

\* ResetExpiredBudgetsInMemory; a turn may begin beside the last dump of Cleanup.
Sweep ==
    /\ up # "down" /\ dump["ticker"] = "idle"
    /\ IF Due
          THEN /\ ResetBudgetAt
               /\ snap' = [snap EXCEPT !["ticker"] = mem']
               /\ Goto("ticker", "mark")
          ELSE Goto("ticker", "gens") /\ UNCHANGED <<mem, fresh, snap>>
    /\ UNCHANGED <<now, up, stops, gens, row, req, spent, seen, adminVars>>

SweepMark ==
    /\ dump["ticker"] = "mark"
    /\ MarkBudgetReset
    /\ Goto("ticker", "persist")
    /\ UNCHANGED <<now, up, stops, mem, row, reqVars, snap, seen, adminVars>>

\* Mutant: the usage of the dump comes under the guard of the reset.
Written_Strictly(b, strictly) == IF row.last < b.last THEN b ELSE row

\* Mutant: rows are written whatever boundary they carry.
Written_Unguarded(b, strictly) == b

\* writeBudgetBatch: the override under a strict guard on the boundary, usage and
\* boundary under that of the caller.
Written(b, strictly) ==
    IF row.last < b.last THEN b
    ELSE IF ~strictly /\ row.last = b.last THEN [row EXCEPT !.usage = b.usage]
    ELSE row

\* ResetExpiredBudgets; a failed transaction is logged, and the dump follows.
Persist ==
    /\ dump["ticker"] = "persist"
    /\ row' \in {row, Written(snap["ticker"], TRUE)}
    /\ Goto("ticker", "gens") /\ Forget("ticker")
    /\ UNCHANGED <<now, up, stops, mem, gens, reqVars, adminVars>>

\* DumpBudgets: the generations, then the entry.
ReadGens(d) ==
    /\ dump[d] = "gens"
    /\ seen' = [seen EXCEPT ![d] = gens]
    /\ Goto(d, "rows")
    /\ UNCHANGED <<now, up, stops, mem, gens, row, reqVars, snap, adminVars>>

ReadRows(d) ==
    /\ dump[d] = "rows"
    /\ snap' = [snap EXCEPT ![d] = mem]
    /\ Goto(d, "check")
    /\ UNCHANGED <<now, up, stops, mem, gens, row, reqVars, seen, adminVars>>

\* keepUnresetRows.
KeepUnreset(d) ==
    /\ dump[d] = "check"
    /\ IF seen[d] = gens
          THEN Goto(d, "write") /\ UNCHANGED <<snap, seen>>
          ELSE Goto(d, "end") /\ Forget(d)
    /\ UNCHANGED <<now, up, stops, mem, gens, row, reqVars, adminVars>>

Write(d) ==
    /\ dump[d] = "write"
    /\ row' \in {row, Written(snap[d], FALSE)}
    /\ Goto(d, "end") /\ Forget(d)
    /\ UNCHANGED <<now, up, stops, mem, gens, reqVars, adminVars>>

\* The worker waits for its next tick, until Cleanup is through with its dump.
Tick ==
    /\ up = "up" \/ (up = "stopping" /\ dump["final"] # "end")
    /\ dump["ticker"] = "end"
    /\ Goto("ticker", "idle")
    /\ UNCHANGED <<now, up, stops, mem, gens, row, reqVars, snap, seen, adminVars>>

Dump(d) == ReadGens(d) \/ ReadRows(d) \/ KeepUnreset(d) \/ Write(d)

-----------------------------------------------------------------------------
(* Operators.                                                               *)

\* The transaction of a handler: UpdateBudgetUsage to zero, or UpdateBudgetOverride,
\* which anchors a grant at the current window.
Transaction(a) ==
    /\ up = "up" /\ admin[a] = "new"
    /\ \E o \in AdminOps :
          /\ op' = [op EXCEPT ![a] = o]
          /\ row' = CASE o = "reset" -> [row EXCEPT !.usage = 0]
                      [] o = "grant" -> [row EXCEPT !.grant = [anchor |-> now, total |-> Cycles]]
                      [] o = "clear" -> [row EXCEPT !.grant = NoGrant]
    /\ admin' = [admin EXCEPT ![a] = "read"]
    /\ UNCHANGED <<now, up, stops, mem, gens, reqVars, dumpVars, edit>>

\* ReloadVirtualKey or ReloadModelConfig read the row again.
ReadRow(a) ==
    /\ up = "up" /\ admin[a] = "read"
    /\ edit' = [edit EXCEPT ![a] = row]
    /\ admin' = [admin EXCEPT ![a] = "merge"]
    /\ UNCHANGED <<now, up, stops, mem, gens, row, reqVars, dumpVars, op>>

\* Mutant: the boundary is not carried over, as for the rate limit of a model config.
Merge_UsageOnly(a) ==
    /\ up = "up" /\ admin[a] = "merge"
    /\ edit' = [edit EXCEPT ![a] = [@ EXCEPT !.usage = mem.usage]]
    /\ admin' = [admin EXCEPT ![a] = "store"]
    /\ UNCHANGED <<now, up, stops, mem, gens, row, reqVars, dumpVars, op>>

\* UpdateVirtualKeyInMemory, UpdateModelConfigInMemory: usage and boundary of the entry
\* are copied into the row ...
Merge(a) ==
    /\ up = "up" /\ admin[a] = "merge"
    /\ edit' = [edit EXCEPT ![a] = [@ EXCEPT !.usage = mem.usage, !.last = mem.last]]
    /\ admin' = [admin EXCEPT ![a] = "store"]
    /\ UNCHANGED <<now, up, stops, mem, gens, row, reqVars, dumpVars, op>>

\* ... which storeBudget puts into the map, whatever is there by then.
Store(a) ==
    /\ up = "up" /\ admin[a] = "store"
    /\ Publish(edit[a])
    /\ admin' = [admin EXCEPT ![a] = IF op[a] = "reset" THEN "rebase" ELSE "done"]
    /\ edit' = [edit EXCEPT ![a] = Zero]
    /\ UNCHANGED <<now, up, stops, gens, row, req, spent, dumpVars, op>>

\* ResetBudgetUsageInMemory: RebaseBudget to zero, with the boundary as it is.
Rebase(a) ==
    /\ up = "up" /\ admin[a] = "rebase"
    /\ Publish([mem EXCEPT !.usage = 0])
    /\ admin' = [admin EXCEPT ![a] = "mark"]
    /\ UNCHANGED <<now, up, stops, gens, row, req, spent, dumpVars, op, edit>>

RebaseMark(a) ==
    /\ up = "up" /\ admin[a] = "mark"
    /\ MarkBudgetReset
    /\ admin' = [admin EXCEPT ![a] = "done"]
    /\ UNCHANGED <<now, up, stops, mem, row, reqVars, dumpVars, op, edit>>

-----------------------------------------------------------------------------
(* The clock and the process.                                               *)

NextWindow ==
    /\ now < MaxWindow
    /\ now' = now + 1
    /\ UNCHANGED <<up, stops, mem, gens, row, reqVars, dumpVars, adminVars>>

\* Cleanup, once no request bills: a last dump, while the ticker may be at work.
Stop ==
    /\ up = "up" /\ stops < MaxStops
    /\ \A r \in Requests : req[r] \notin {"bill", "mark", "swap"}
    /\ up' = "stopping"
    /\ Goto("final", "gens")
    /\ UNCHANGED <<now, stops, mem, gens, row, reqVars, snap, seen, adminVars>>

\* What is lost with the process: requests that were not billed, handlers, dumps.
Down ==
    /\ up' = "down" /\ stops' = stops + 1
    /\ req' = [r \in Requests |-> IF req[r] = "new" THEN "new" ELSE "done"]
    /\ fresh' = {}
    /\ dump' = [d \in Dumpers |-> "idle"]
    /\ snap' = [d \in Dumpers |-> Zero] /\ seen' = [d \in Dumpers |-> 0]
    /\ admin' = [a \in Admins |-> IF admin[a] = "new" THEN "new" ELSE "done"]
    /\ edit' = [a \in Admins |-> Zero]
    /\ mem' = Zero /\ gens' = 0
    /\ UNCHANGED <<now, row, spent, op>>

\* Cleanup has waited for the ticker to end its turn.
Halt ==
    /\ up = "stopping"
    /\ dump["final"] = "end" /\ dump["ticker"] \in {"idle", "end"}
    /\ Down

Crash ==
    /\ up = "up" /\ stops < MaxStops
    /\ Down

\* loadFromDatabase, through storeBudget.
Restart ==
    /\ up = "down"
    /\ up' = "up"
    /\ Publish(row)
    /\ UNCHANGED <<now, stops, gens, row, req, spent, dumpVars, adminVars>>

Bill(r) == CheckBudget(r) \/ Load(r) \/ Mark(r) \/ Swap(r)
Ticker == Sweep \/ SweepMark \/ Persist \/ Tick
Handle(a) == Transaction(a) \/ ReadRow(a) \/ Merge(a) \/ Store(a) \/ Rebase(a) \/ RebaseMark(a)
Process == NextWindow \/ Stop \/ Halt \/ Crash \/ Restart

Next ==
    \/ \E r \in Requests : Bill(r)
    \/ Ticker
    \/ \E d \in Dumpers : Dump(d)
    \/ \E a \in Admins : Handle(a)
    \/ Process

Spec == Init /\ [][Next]_vars

\* The ticker ticks and its goroutine runs; goroutines of requests and handlers run; a
\* statement of the dump succeeds again and again; a process that is down is started.
FairSpec ==
    /\ Spec
    /\ WF_vars(Ticker) /\ \A d \in Dumpers : WF_vars(Dump(d))
    /\ SF_vars(Write("ticker") /\ row' = Written(snap["ticker"], FALSE))
    /\ \A r \in Requests : WF_vars(Load(r) \/ Mark(r) \/ Swap(r))
    /\ \A a \in Admins : WF_vars(ReadRow(a) \/ Merge(a) \/ Store(a) \/ Rebase(a) \/ RebaseMark(a))
    /\ WF_vars(Halt) /\ WF_vars(Restart)
-----------------------------------------------------------------------------
(* Properties.                                                              *)

\* The state is well formed.
TypeOK ==
    /\ now \in Windows /\ up \in {"up", "stopping", "down"} /\ stops \in Nat
    /\ mem \in Budget /\ row \in Budget /\ gens \in Nat
    /\ req \in [Requests -> {"new", "denied", "bill", "mark", "swap", "done"}]
    /\ fresh \subseteq Requests
    /\ spent \in [Windows -> Nat]
    /\ dump \in [Dumpers -> {"idle", "mark", "persist", "gens", "rows", "check", "write", "end"}]
    /\ snap \in [Dumpers -> Budget] /\ seen \in [Dumpers -> Nat]
    /\ admin \in [Admins -> {"new", "read", "merge", "store", "rebase", "mark", "done"}]
    /\ op \in [Admins -> AdminOps \cup {"none"}]
    /\ edit \in [Admins -> Budget]

\* Nobody pays in one window for what was spent in another: what the entry and the row
\* hold was billed in the window they carry, though usage and boundary are copied to and
\* fro by the dump, the reset, the reload and the restart.
NoSpendCarriedOver ==
    /\ mem.usage <= spent[mem.last]
    /\ row.usage <= spent[row.last]

\* The persisted boundary never moves back, although dumps and resets that are under way
\* at the same time, or that were overtaken by others, write it without a lock.
BoundaryAdvances == [][row.last' >= row.last]_vars

\* An override raises the limit in the windows it was granted for and in no other one,
\* though reloads and restarts replay the grant at any time.
OverrideEnds == mem.grant # NoGrant => mem.last - mem.grant.anchor < Cycles

\* Once requests, operators and the clock have come to rest, the row agrees with the
\* entry: rows that a dump dropped or failed to write are written by a later one.
UsageIsPersisted == <>[](up = "up" => row.usage = mem.usage /\ row.last = mem.last)

\* Requests lose no increment to each other or to a reset of the window: until a handler
\* has published its copy, or the process has stopped, the entry holds all that was
\* billed in its window.
NoIncrementLost ==
    stops = 0 /\ (\A a \in Admins : admin[a] \in {"new", "read", "merge", "store"})
        => mem.usage = spent[mem.last]
=============================================================================
