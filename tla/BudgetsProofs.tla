--------------------------- MODULE BudgetsProofs ---------------------------
(***************************************************************************)
(* Proofs about Budgets, for any number of requests, handlers, windows and *)
(* stops: types, that no spend is carried over from one window to another, *)
(* that requests lose no increment, that overrides end with their windows  *)
(* and that the persisted boundary never moves back.                       *)
(***************************************************************************)
EXTENDS Budgets, TLAPS

(***************************************************************************)
(* The records that are copied to and fro.                                 *)
(***************************************************************************)

\* A budget without spend, in the first window, is one.
LEMMA ZeroType ==
  Zero \in Budget
BY BudgetsAssumption DEF Zero, Budget, Windows, Grants

\* Deriving the override again changes nothing but the grant.
LEMMA RefreshedType ==
  ASSUME NEW b \in Budget
  PROVE  /\ Refreshed(b) \in Budget
         /\ Refreshed(b).usage = b.usage
         /\ Refreshed(b).last = b.last
         /\ Refreshed(b).grant # NoGrant =>
              /\ Refreshed(b).grant = b.grant
              /\ b.last - b.grant.anchor < b.grant.total
<1>1. NoGrant \in Grants
  BY DEF Grants
<1>2. CASE b.grant = NoGrant
  BY <1>2 DEF Refreshed
<1>3. CASE b.grant # NoGrant
  <2>1. b.grant \in [anchor : Windows, total : {Cycles}] /\ b.last \in Windows
    BY <1>3 DEF Budget, Grants
  <2>2. b.last \in Int /\ b.grant.anchor \in Int /\ b.grant.total \in Int
    BY <2>1, BudgetsAssumption DEF Windows
  <2>3. CASE b.last - b.grant.anchor >= b.grant.total
    <3>1. Refreshed(b) = [b EXCEPT !.grant = NoGrant]
      BY <1>3, <2>3 DEF Refreshed
    <3> QED
      BY <1>1, <3>1 DEF Budget
  <2>4. CASE ~(b.last - b.grant.anchor >= b.grant.total)
    <3>1. Refreshed(b) = b
      BY <2>4 DEF Refreshed
    <3> QED
      BY <2>2, <2>4, <3>1
  <2> QED
    BY <2>3, <2>4
<1> QED
  BY <1>2, <1>3

\* What a guarded write leaves in the row.
LEMMA WrittenType ==
  ASSUME row \in Budget, NEW b \in Budget, NEW strictly \in BOOLEAN
  PROVE  /\ Written(b, strictly) \in Budget
         /\ Written(b, strictly).last >= row.last
         /\ \/ Written(b, strictly).usage = row.usage /\ Written(b, strictly).last = row.last
            \/ Written(b, strictly).usage = b.usage /\ Written(b, strictly).last = b.last
<1>1. b.last \in Int /\ row.last \in Int
  BY BudgetsAssumption DEF Budget, Windows
<1>2. CASE row.last < b.last
  BY <1>1, <1>2 DEF Written
<1>3. CASE ~(row.last < b.last) /\ ~strictly /\ row.last = b.last
  <2>1. Written(b, strictly) = [row EXCEPT !.usage = b.usage]
    BY <1>3 DEF Written
  <2> QED
    BY <1>1, <1>3, <2>1 DEF Budget
<1>4. CASE ~(row.last < b.last) /\ ~(~strictly /\ row.last = b.last)
  <2>1. Written(b, strictly) = row
    BY <1>4 DEF Written
  <2> QED
    BY <1>1, <2>1
<1> QED
  BY <1>2, <1>3, <1>4

\* What a new entry keeps of the budget it is made from.
LEMMA PublishType ==
  ASSUME NEW b \in Budget, Publish(b)
  PROVE  mem' \in Budget /\ mem'.usage = b.usage /\ mem'.last = b.last /\ OverrideEnds'
<1>1. mem' = Refreshed(b)
  BY DEF Publish
<1>2. mem'.grant # NoGrant => mem'.last - mem'.grant.anchor < mem'.grant.total
  BY <1>1, RefreshedType
<1>3. mem' \in Budget
  BY <1>1, RefreshedType
<1>4. mem'.grant # NoGrant => mem'.grant.total = Cycles
  BY <1>3 DEF Budget, Grants
<1> QED
  BY <1>1, <1>2, <1>3, <1>4, RefreshedType DEF OverrideEnds

-----------------------------------------------------------------------------
(***************************************************************************)
(* The inductive invariant.  What a dumper or a handler carries was spent  *)
(* in the window it is stamped with, since it is a copy of the entry or of *)
(* the row; and no window after that of the entry has any spend.           *)
(***************************************************************************)

Covered(b) == b.usage <= spent[b.last]

\* No handler has published its copy and the process never stopped.
Untouched == stops = 0 /\ \A a \in Admins : admin[a] \in {"new", "read", "merge", "store"}

NoFutureSpend == Untouched => \A w \in Windows : w > mem.last => spent[w] = 0

BudgetInv ==
    /\ TypeOK
    /\ NoSpendCarriedOver
    /\ \A d \in Dumpers : Covered(snap[d])
    /\ \A a \in Admins : Covered(edit[a])
    /\ OverrideEnds
    /\ NoIncrementLost
    /\ NoFutureSpend
    /\ up = "down" => stops > 0

\* Every variable has its type at the start.
LEMMA InitTypes == Init => TypeOK
BY ZeroType, BudgetsAssumption DEF Init, TypeOK, Windows, Dumpers

\* The steps of a request keep the types.
LEMMA BillTypes ==
  ASSUME TypeOK, NEW r \in Requests, Bill(r)
  PROVE  TypeOK'
<1>1. mem \in Budget /\ mem.usage \in Nat /\ mem.last \in Windows /\ now \in Windows
  BY DEF TypeOK, Budget
<1>2. CASE CheckBudget(r)
  BY <1>2 DEF TypeOK, CheckBudget, dumpVars, adminVars
<1>3. CASE Load(r)
  <2>1. mem' \in Budget
    <3>1. CASE Due
      <4>1. [mem EXCEPT !.usage = 0, !.last = now] \in Budget
        BY <1>1 DEF Budget
      <4> QED
        BY <1>3, <3>1, <4>1, PublishType DEF Load, ResetBudgetAt
    <3>2. CASE ~Due
      BY <1>1, <1>3, <3>2 DEF Load
    <3> QED
      BY <3>1, <3>2
  <2>2. fresh' \subseteq Requests
    BY <1>3 DEF Load, ResetBudgetAt, Publish, TypeOK
  <2>3. req' \in [Requests -> {"new", "denied", "bill", "mark", "swap", "done"}]
    BY <1>3 DEF Load, TypeOK
  <2> QED
    BY <1>3, <2>1, <2>2, <2>3 DEF Load, TypeOK, dumpVars, adminVars
<1>4. CASE Mark(r)
  BY <1>4 DEF TypeOK, Mark, MarkBudgetReset, dumpVars, adminVars
<1>5. CASE Swap(r)
  <2>1. mem' \in Budget
    <3>1. CASE r \in fresh
      <4>1. [mem EXCEPT !.usage = @ + 1] \in Budget
        BY <1>1 DEF Budget
      <4> QED
        BY <1>5, <3>1, <4>1, PublishType DEF Swap
    <3>2. CASE r \notin fresh
      BY <1>1, <1>5, <3>2 DEF Swap
    <3> QED
      BY <3>1, <3>2
  <2>2. spent' \in [Windows -> Nat]
    BY <1>1, <1>5 DEF Swap, TypeOK
  <2>3. fresh' \subseteq Requests
    BY <1>5 DEF Swap, Publish, TypeOK
  <2>4. req' \in [Requests -> {"new", "denied", "bill", "mark", "swap", "done"}]
    BY <1>5 DEF Swap, TypeOK
  <2> QED
    BY <1>5, <2>1, <2>2, <2>3, <2>4 DEF Swap, TypeOK, dumpVars, adminVars
<1> QED
  BY <1>2, <1>3, <1>4, <1>5 DEF Bill

\* The steps of the ticker and of the dumps keep the types.
LEMMA DumpTypes ==
  ASSUME TypeOK, Ticker \/ \E d \in Dumpers : Dump(d)
  PROVE  TypeOK'
<1>1. mem \in Budget /\ row \in Budget /\ now \in Windows
  BY DEF TypeOK
<1>2. "ticker" \in Dumpers
  BY DEF Dumpers
<1>3. CASE Sweep
  <2>1. mem' \in Budget
    <3>1. CASE Due
      <4>1. [mem EXCEPT !.usage = 0, !.last = now] \in Budget
        BY <1>1 DEF Budget
      <4> QED
        BY <1>3, <3>1, <4>1, PublishType DEF Sweep, ResetBudgetAt
    <3>2. CASE ~Due
      BY <1>1, <1>3, <3>2 DEF Sweep
    <3> QED
      BY <3>1, <3>2
  <2>2. snap' \in [Dumpers -> Budget]
    BY <1>3, <2>1 DEF Sweep, TypeOK
  <2>3. fresh' \subseteq Requests
    BY <1>3 DEF Sweep, ResetBudgetAt, Publish, TypeOK
  <2>4. dump' \in [Dumpers -> {"idle", "mark", "persist", "gens", "rows", "check", "write", "end"}]
    BY <1>3 DEF Sweep, Goto, TypeOK
  <2> QED
    BY <1>3, <2>1, <2>2, <2>3, <2>4 DEF Sweep, TypeOK, adminVars
<1>4. CASE SweepMark
  <2>1. dump' \in [Dumpers -> {"idle", "mark", "persist", "gens", "rows", "check", "write", "end"}] /\ gens' \in Nat
    BY <1>2, <1>4 DEF TypeOK, SweepMark, MarkBudgetReset, Goto
  <2> QED
    BY <1>4, <2>1 DEF TypeOK, SweepMark, reqVars, adminVars
<1>5. CASE Persist
  <2>0. snap["ticker"] \in Budget
    BY <1>2 DEF TypeOK
  <2>1. row' \in Budget
    <3>1. Written(snap["ticker"], TRUE) \in Budget
      BY <1>1, <2>0, WrittenType
    <3> QED
      BY <1>1, <1>5, <3>1 DEF Persist
  <2>2. dump' \in [Dumpers -> {"idle", "mark", "persist", "gens", "rows", "check", "write", "end"}]
    BY <1>2, <1>5 DEF TypeOK, Persist, Goto
  <2>3. snap' \in [Dumpers -> Budget] /\ seen' \in [Dumpers -> Nat]
    BY <1>2, <1>5, ZeroType DEF TypeOK, Persist, Forget
  <2> QED
    BY <1>5, <2>1, <2>2, <2>3 DEF TypeOK, Persist, reqVars, adminVars
<1>6. CASE Tick
  BY <1>6 DEF TypeOK, Tick, Goto, reqVars, adminVars
<1>7. ASSUME NEW d \in Dumpers, Dump(d)
      PROVE  TypeOK'
  <2>1. CASE ReadGens(d)
    BY <2>1 DEF TypeOK, ReadGens, Goto, reqVars, adminVars
  <2>2. CASE ReadRows(d)
    BY <2>2 DEF TypeOK, ReadRows, Goto, reqVars, adminVars
  <2>3. CASE KeepUnreset(d)
    BY <2>3, ZeroType DEF TypeOK, KeepUnreset, Goto, Forget, reqVars, adminVars
  <2>4. CASE Write(d)
    <3>0. snap[d] \in Budget
      BY DEF TypeOK
    <3>1. row' \in Budget
      <4>1. Written(snap[d], FALSE) \in Budget
        BY <1>1, <3>0, WrittenType
      <4> QED
        BY <1>1, <2>4, <4>1 DEF Write
    <3>2. dump' \in [Dumpers -> {"idle", "mark", "persist", "gens", "rows", "check", "write", "end"}]
      BY <2>4 DEF TypeOK, Write, Goto
    <3>3. snap' \in [Dumpers -> Budget] /\ seen' \in [Dumpers -> Nat]
      BY <2>4, ZeroType DEF TypeOK, Write, Forget
    <3> QED
      BY <2>4, <3>1, <3>2, <3>3 DEF TypeOK, Write, reqVars, adminVars
  <2> QED
    BY <1>7, <2>1, <2>2, <2>3, <2>4 DEF Dump
<1> QED
  BY <1>3, <1>4, <1>5, <1>6, <1>7 DEF Ticker

\* The steps of an operator's handler keep the types.
LEMMA HandleTypes ==
  ASSUME TypeOK, NEW a \in Admins, Handle(a)
  PROVE  TypeOK'
<1>1. mem \in Budget /\ row \in Budget /\ now \in Windows /\ edit[a] \in Budget
  BY DEF TypeOK
<1>2. CASE Transaction(a)
  <2>1. [anchor |-> now, total |-> Cycles] \in Grants /\ NoGrant \in Grants
    BY <1>1 DEF Grants
  <2>2. PICK o \in AdminOps :
          /\ op' = [op EXCEPT ![a] = o]
          /\ row' = CASE o = "reset" -> [row EXCEPT !.usage = 0]
                      [] o = "grant" -> [row EXCEPT !.grant = [anchor |-> now, total |-> Cycles]]
                      [] o = "clear" -> [row EXCEPT !.grant = NoGrant]
    BY <1>2 DEF Transaction
  <2>3. o = "reset" \/ o = "grant" \/ o = "clear"
    BY BudgetsAssumption
  <2>4. row' \in Budget
    BY <1>1, <2>1, <2>2, <2>3 DEF Budget
  <2> QED
    BY <1>2, <2>2, <2>4 DEF Transaction, TypeOK, reqVars, dumpVars
<1>3. CASE ReadRow(a)
  BY <1>3 DEF TypeOK, ReadRow, reqVars, dumpVars
<1>4. CASE Merge(a)
  <2>1. [edit[a] EXCEPT !.usage = mem.usage, !.last = mem.last] \in Budget
    BY <1>1 DEF Budget
  <2>2. edit' = [edit EXCEPT ![a] = [edit[a] EXCEPT !.usage = mem.usage, !.last = mem.last]]
    BY <1>4 DEF Merge
  <2>3. edit' \in [Admins -> Budget]
    BY <2>1, <2>2 DEF TypeOK
  <2> QED
    BY <1>4, <2>3 DEF TypeOK, Merge, reqVars, dumpVars
<1>5. CASE Store(a)
  <2>1. mem' \in Budget /\ fresh' = {}
    BY <1>1, <1>5, PublishType DEF Store, Publish
  <2> QED
    BY <1>5, <2>1, ZeroType DEF TypeOK, Store, dumpVars
<1>6. CASE Rebase(a)
  <2>1. [mem EXCEPT !.usage = 0] \in Budget
    BY <1>1 DEF Budget
  <2>2. mem' \in Budget /\ fresh' = {}
    BY <1>6, <2>1, PublishType DEF Rebase, Publish
  <2> QED
    BY <1>6, <2>2 DEF TypeOK, Rebase, dumpVars
<1>7. CASE RebaseMark(a)
  BY <1>7 DEF TypeOK, RebaseMark, MarkBudgetReset, reqVars, dumpVars
<1> QED
  BY <1>2, <1>3, <1>4, <1>5, <1>6, <1>7 DEF Handle

\* Losing the process keeps the types.
LEMMA DownTypes ==
  ASSUME TypeOK, Down
  PROVE  TypeOK'
BY ZeroType DEF TypeOK, Down

\* The clock, the shutdown and the restart keep the types.
LEMMA ProcessTypes ==
  ASSUME TypeOK, Process
  PROVE  TypeOK'
<1>1. CASE NextWindow
  BY <1>1, BudgetsAssumption DEF TypeOK, NextWindow, Windows, reqVars, dumpVars, adminVars
<1>2. CASE Stop
  BY <1>2 DEF TypeOK, Stop, Goto, Dumpers, reqVars, adminVars
<1>3. CASE Halt
  BY <1>3, DownTypes DEF Halt
<1>4. CASE Crash
  BY <1>4, DownTypes DEF Crash
<1>5. CASE Restart
  <2>1. mem' \in Budget /\ fresh' = {}
    BY <1>5, PublishType DEF TypeOK, Restart, Publish
  <2> QED
    BY <1>5, <2>1 DEF TypeOK, Restart, dumpVars, adminVars
<1> QED
  BY <1>1, <1>2, <1>3, <1>4, <1>5 DEF Process

\* Every step keeps the types.
LEMMA StepTypes == TypeOK /\ [Next]_vars => TypeOK'
<1> SUFFICES ASSUME TypeOK, [Next]_vars
             PROVE  TypeOK'
  OBVIOUS
<1>1. CASE UNCHANGED vars
  BY <1>1 DEF TypeOK, vars, reqVars, dumpVars, adminVars
<1> QED
  BY <1>1, BillTypes, DumpTypes, HandleTypes, ProcessTypes DEF Next

-----------------------------------------------------------------------------
(***************************************************************************)
(* Nothing is carried over and nothing is lost.                            *)
(***************************************************************************)

\* What was spent in a window stays spent.
LEMMA SpentGrows ==
  ASSUME TypeOK, [Next]_vars
  PROVE  \A w \in Windows : spent'[w] >= spent[w]
<1>1. ASSUME NEW r \in Requests, Swap(r)
      PROVE  \A w \in Windows : spent'[w] >= spent[w]
  BY <1>1 DEF TypeOK, Swap
<1>2. (\A r \in Requests : ~Swap(r)) => spent' = spent
  BY DEF Next, vars, reqVars, Bill, CheckBudget, Load, Mark, Ticker, Sweep, SweepMark, Persist,
         Tick, Dump, ReadGens, ReadRows, KeepUnreset, Write, Handle, Transaction, ReadRow,
         Merge, Store, Rebase, RebaseMark, Process, NextWindow, Stop, Halt, Crash, Down, Restart
<1>3. \A w \in Windows : spent[w] \in Nat
  BY DEF TypeOK
<1> QED
  BY <1>1, <1>2, <1>3

\* A copy that was covered stays covered.
LEMMA CoveredStays ==
  ASSUME TypeOK, TypeOK', [Next]_vars, NEW b \in Budget, Covered(b)
  PROVE  b.usage <= spent'[b.last]
<1>1. b.last \in Windows /\ b.usage \in Nat
  BY DEF Budget
<1>2. spent[b.last] \in Nat /\ spent'[b.last] \in Nat
  BY <1>1 DEF TypeOK
<1>3. spent'[b.last] >= spent[b.last]
  BY <1>1, SpentGrows
<1> QED
  BY <1>1, <1>2, <1>3 DEF Covered

\* An empty budget is covered in every state.
LEMMA EmptyIsCovered ==
  ASSUME TypeOK, NEW b \in Budget, b.usage = 0
  PROVE  Covered(b)
<1>1. spent[b.last] \in Nat
  BY DEF TypeOK, Budget
<1> QED
  BY <1>1 DEF Covered

\* The steps that change the entry.
LEMMA EntryChange ==
  ASSUME [Next]_vars
  PROVE  \/ mem' = mem /\ spent' = spent
         \/ Due /\ ResetBudgetAt /\ spent' = spent
         \/ \E r \in Requests : Swap(r) /\ r \in fresh
         \/ \E a \in Admins : Store(a) \/ Rebase(a)
         \/ Down \/ Restart
<1>1. CASE UNCHANGED vars
  BY <1>1 DEF vars, reqVars
<1>2. ASSUME NEW r \in Requests, Bill(r)
      PROVE  \/ mem' = mem /\ spent' = spent
             \/ Due /\ ResetBudgetAt /\ spent' = spent
             \/ Swap(r) /\ r \in fresh
  BY <1>2 DEF Bill, CheckBudget, Load, Mark, Swap
<1>3. CASE Ticker \/ \E d \in Dumpers : Dump(d)
  BY <1>3 DEF Ticker, Sweep, SweepMark, Persist, Tick, Dump, ReadGens, ReadRows, KeepUnreset,
              Write, reqVars
<1>4. ASSUME NEW a \in Admins, Handle(a)
      PROVE  (mem' = mem /\ spent' = spent) \/ Store(a) \/ Rebase(a)
  BY <1>4 DEF Handle, Transaction, ReadRow, Merge, RebaseMark, reqVars
<1>5. CASE Process
  BY <1>5 DEF Process, NextWindow, Stop, Halt, Crash, reqVars
<1> QED
  BY <1>1, <1>2, <1>3, <1>4, <1>5 DEF Next

\* The entry stays covered, and an override in it has not ended.
LEMMA EntryStep ==
  ASSUME BudgetInv, TypeOK', [Next]_vars
  PROVE  Covered(mem)' /\ OverrideEnds'
<1>1. /\ TypeOK /\ mem \in Budget /\ row \in Budget /\ now \in Windows
      /\ Covered(mem) /\ Covered(row) /\ OverrideEnds
  BY DEF BudgetInv, TypeOK, NoSpendCarriedOver, Covered
<1>2. CASE mem' = mem /\ spent' = spent
  BY <1>1, <1>2 DEF Covered, OverrideEnds
<1>3. CASE Due /\ ResetBudgetAt /\ spent' = spent
  <2>1. [mem EXCEPT !.usage = 0, !.last = now] \in Budget
    BY <1>1 DEF Budget
  <2>2. mem' \in Budget /\ mem'.usage = 0 /\ OverrideEnds'
    BY <1>1, <1>3, <2>1, PublishType DEF ResetBudgetAt, Budget
  <2> QED
    BY <2>2, EmptyIsCovered, <1>1, <1>3 DEF Covered
<1>4. ASSUME NEW r \in Requests, Swap(r), r \in fresh
      PROVE  Covered(mem)' /\ OverrideEnds'
  <2>1. mem.usage \in Nat /\ mem.last \in Windows
    BY <1>1 DEF Budget
  <2>2. [mem EXCEPT !.usage = @ + 1] \in Budget
    BY <1>1, <2>1 DEF Budget
  <2>3. mem'.usage = mem.usage + 1 /\ mem'.last = mem.last /\ OverrideEnds'
    BY <1>1, <1>4, <2>2, PublishType DEF Swap, Budget
  <2>4. spent'[mem.last] = spent[mem.last] + 1 /\ spent[mem.last] \in Nat
    BY <1>1, <1>4, <2>1 DEF Swap, TypeOK
  <2> QED
    BY <1>1, <2>1, <2>3, <2>4 DEF Covered
<1>5. ASSUME NEW a \in Admins, Store(a)
      PROVE  Covered(mem)' /\ OverrideEnds'
  <2>1. edit[a] \in Budget /\ Covered(edit[a])
    BY DEF BudgetInv, TypeOK
  <2>2. mem'.usage = edit[a].usage /\ mem'.last = edit[a].last /\ OverrideEnds'
    BY <1>5, <2>1, PublishType DEF Store
  <2>3. spent' = spent
    BY <1>5 DEF Store
  <2> QED
    BY <2>1, <2>2, <2>3 DEF Covered
<1>6. ASSUME NEW a \in Admins, Rebase(a)
      PROVE  Covered(mem)' /\ OverrideEnds'
  <2>1. [mem EXCEPT !.usage = 0] \in Budget
    BY <1>1 DEF Budget
  <2>2. mem'.usage = 0 /\ mem'.last = mem.last /\ OverrideEnds'
    BY <1>1, <1>6, <2>1, PublishType DEF Rebase, Budget
  <2>3. spent' = spent /\ spent[mem.last] \in Nat
    BY <1>1, <1>6 DEF Rebase, TypeOK, Budget
  <2> QED
    BY <2>2, <2>3 DEF Covered
<1>7. CASE Down
  <2>1. mem' = Zero /\ spent' = spent
    BY <1>7 DEF Down
  <2>2. Zero.usage = 0 /\ Zero.grant = NoGrant
    BY DEF Zero
  <2>3. Covered(Zero)
    BY <1>1, <2>2, ZeroType, EmptyIsCovered
  <2> QED
    BY <2>1, <2>2, <2>3 DEF Covered, OverrideEnds
<1>8. CASE Restart
  <2>1. mem'.usage = row.usage /\ mem'.last = row.last /\ OverrideEnds'
    BY <1>1, <1>8, PublishType DEF Restart
  <2>2. spent' = spent
    BY <1>8 DEF Restart
  <2> QED
    BY <1>1, <2>1, <2>2 DEF Covered
<1> QED
  BY EntryChange, <1>2, <1>3, <1>4, <1>5, <1>6, <1>7, <1>8

\* Requests lose no increment, and no window is spent in before its turn.
LEMMA IncrementStep ==
  ASSUME BudgetInv, TypeOK', [Next]_vars
  PROVE  NoIncrementLost' /\ NoFutureSpend'
<1> SUFFICES ASSUME Untouched'
             PROVE  /\ mem'.usage = spent'[mem'.last]
                    /\ \A w \in Windows : w > mem'.last => spent'[w] = 0
  BY DEF NoIncrementLost, NoFutureSpend, Untouched
<1>1. TypeOK /\ mem \in Budget /\ now \in Windows /\ mem.last \in Windows /\ mem.usage \in Nat
  BY DEF BudgetInv, TypeOK, Budget
<1>2. \A w \in Windows : w \in Int /\ spent[w] \in Nat
  BY <1>1, BudgetsAssumption DEF TypeOK, Windows
<1>3. Untouched
  <2>1. stops = 0
    <3>1. stops' = stops \/ Down
      BY DEF Next, vars, Bill, CheckBudget, Load, Mark, Swap, Ticker, Sweep, SweepMark, Persist,
             Tick, Dump, ReadGens, ReadRows, KeepUnreset, Write, Handle, Transaction, ReadRow,
             Merge, Store, Rebase, RebaseMark, Process, NextWindow, Stop, Halt, Crash, Restart
    <3>2. stops \in Nat /\ stops' = 0
      BY <1>1 DEF Untouched, TypeOK
    <3>3. ~Down
      BY <3>2 DEF Down
    <3> QED
      BY <3>1, <3>2, <3>3
  <2>2. ASSUME NEW a \in Admins
        PROVE  admin[a] \in {"new", "read", "merge", "store"}
    <3>1. CASE admin' = admin
      BY <3>1 DEF Untouched
    <3>2. CASE Down
      BY <3>2 DEF Down, Untouched, TypeOK
    <3>3. ASSUME NEW b \in Admins, Handle(b)
          PROVE  admin[a] \in {"new", "read", "merge", "store"}
      BY <1>1, <3>3 DEF Untouched, TypeOK, Handle, Transaction, ReadRow, Merge, Store, Rebase,
                        RebaseMark
    <3> QED
      BY <3>1, <3>2, <3>3
      DEF Next, vars, adminVars, Bill, CheckBudget, Load, Mark, Swap, Ticker, Sweep, SweepMark,
          Persist, Tick, Dump, ReadGens, ReadRows, KeepUnreset, Write, Process, NextWindow,
          Stop, Halt, Crash, Restart
  <2> QED
    BY <2>1, <2>2 DEF Untouched
<1>4. mem.usage = spent[mem.last] /\ \A w \in Windows : w > mem.last => spent[w] = 0
  BY <1>3 DEF BudgetInv, NoIncrementLost, NoFutureSpend, Untouched
<1>5. CASE mem' = mem /\ spent' = spent
  BY <1>4, <1>5
<1>6. CASE Due /\ ResetBudgetAt /\ spent' = spent
  <2>1. [mem EXCEPT !.usage = 0, !.last = now] \in Budget
    BY <1>1 DEF Budget
  <2>2. mem'.usage = 0 /\ mem'.last = now
    BY <1>1, <1>6, <2>1, PublishType DEF ResetBudgetAt, Budget
  <2> QED
    BY <1>1, <1>2, <1>4, <1>6, <2>2 DEF Due
<1>7. ASSUME NEW r \in Requests, Swap(r), r \in fresh
      PROVE  /\ mem'.usage = spent'[mem'.last]
             /\ \A w \in Windows : w > mem'.last => spent'[w] = 0
  <2>1. [mem EXCEPT !.usage = @ + 1] \in Budget
    BY <1>1 DEF Budget
  <2>2. mem'.usage = mem.usage + 1 /\ mem'.last = mem.last
    BY <1>1, <1>7, <2>1, PublishType DEF Swap, Budget
  <2>3. spent' = [spent EXCEPT ![mem.last] = @ + 1]
    BY <1>7 DEF Swap
  <2> QED
    BY <1>1, <1>2, <1>4, <2>2, <2>3 DEF TypeOK
<1>8. ASSUME NEW a \in Admins, Store(a) \/ Rebase(a)
      PROVE  FALSE
  BY <1>1, <1>3, <1>8 DEF Untouched, Store, Rebase, TypeOK
<1>9. ~Down
  BY <1>1, <1>3 DEF Down, Untouched
<1>10. ~Restart
  BY <1>3 DEF Restart, Untouched, BudgetInv
<1> QED
  BY EntryChange, <1>5, <1>6, <1>7, <1>8, <1>9, <1>10

\* The copies that dumpers and handlers carry, and the row, stay covered.
LEMMA CopiesStep ==
  ASSUME BudgetInv, TypeOK', [Next]_vars
  PROVE  /\ Covered(row)'
         /\ \A d \in Dumpers : Covered(snap[d])'
         /\ \A a \in Admins : Covered(edit[a])'
<1>1. TypeOK /\ mem \in Budget /\ row \in Budget /\ Covered(mem) /\ Covered(row)
  BY DEF BudgetInv, TypeOK, NoSpendCarriedOver, Covered
<1>2. \A d \in Dumpers : snap[d] \in Budget /\ Covered(snap[d])
  BY DEF BudgetInv, TypeOK
<1>3. \A a \in Admins : edit[a] \in Budget /\ Covered(edit[a])
  BY DEF BudgetInv, TypeOK
<1>4. Zero \in Budget /\ Covered(Zero)
  BY <1>1, ZeroType, EmptyIsCovered DEF Zero
<1>5. ASSUME NEW b \in Budget, Covered(b), NEW c, c.usage = b.usage, c.last = b.last
      PROVE  c.usage <= spent'[c.last]
  BY <1>1, <1>5, CoveredStays
<1>6. Covered(row)'
  <2>1. ASSUME NEW b \in Budget, Covered(b), NEW strictly \in BOOLEAN,
               row' \in {row, Written(b, strictly)}
        PROVE  Covered(row)'
    <3>1. \/ row'.usage = row.usage /\ row'.last = row.last
          \/ row'.usage = b.usage /\ row'.last = b.last
      BY <1>1, <2>1, WrittenType
    <3> QED
      BY <1>1, <1>5, <2>1, <3>1 DEF Covered
  <2>2. CASE Persist
    BY <1>2, <2>1, <2>2 DEF Persist, Dumpers
  <2>3. ASSUME NEW d \in Dumpers, Write(d)
        PROVE  Covered(row)'
    BY <1>2, <2>1, <2>3 DEF Write
  <2>4. ASSUME NEW a \in Admins, Transaction(a)
        PROVE  Covered(row)'
    <3>1. row'.last = row.last /\ (row'.usage = row.usage \/ row'.usage = 0)
      BY <1>1, <2>4, BudgetsAssumption DEF Transaction, Budget
    <3>2. CASE row'.usage = 0
      <4>1. row' \in Budget
        BY DEF TypeOK
      <4>2. spent'[row'.last] \in Nat
        BY <4>1 DEF TypeOK, Budget
      <4> QED
        BY <3>2, <4>2 DEF Covered
    <3>3. CASE row'.usage = row.usage
      BY <1>1, <1>5, <3>1, <3>3 DEF Covered
    <3> QED
      BY <3>1, <3>2, <3>3
  <2>5. CASE row' = row
    BY <1>1, <1>5, <2>5 DEF Covered
  <2> QED
    BY <2>2, <2>3, <2>4, <2>5
    DEF Next, vars, Bill, CheckBudget, Load, Mark, Swap, Ticker, Sweep, SweepMark, Tick, Dump,
        ReadGens, ReadRows, KeepUnreset, Handle, ReadRow, Merge, Store, Rebase, RebaseMark,
        Process, NextWindow, Stop, Halt, Crash, Down, Restart
<1>7. ASSUME NEW d \in Dumpers
      PROVE  Covered(snap[d])'
  <2>1. CASE snap'[d] \in {snap[d], mem, Zero}
    BY <1>1, <1>2, <1>4, <1>5, <2>1 DEF Covered
  <2>2. CASE snap'[d] = mem'
    BY <2>2, EntryStep DEF Covered
  <2>3. snap'[d] \in {snap[d], mem, Zero} \/ snap'[d] = mem'
    <3>1. snap \in [Dumpers -> Budget]
      BY <1>1 DEF TypeOK
    <3> QED
      BY <3>1
      DEF Next, vars, dumpVars, Bill, CheckBudget, Load, Mark, Swap, Ticker, Sweep, SweepMark,
          Persist, Tick, Dump, ReadGens, ReadRows, KeepUnreset, Write, Forget, Handle,
          Transaction, ReadRow, Merge, Store, Rebase, RebaseMark, Process, NextWindow, Stop,
          Halt, Crash, Down, Restart
  <2> QED
    BY <2>1, <2>2, <2>3
<1>8. ASSUME NEW a \in Admins
      PROVE  Covered(edit[a])'
  <2>1. CASE edit'[a] \in {edit[a], row, Zero}
    BY <1>1, <1>3, <1>4, <1>5, <2>1 DEF Covered
  <2>2. CASE edit'[a].usage = mem.usage /\ edit'[a].last = mem.last
    BY <1>1, <1>5, <2>2 DEF Covered
  <2>3. \/ edit'[a] \in {edit[a], row, Zero}
        \/ edit'[a].usage = mem.usage /\ edit'[a].last = mem.last
    <3>1. edit \in [Admins -> Budget] /\ edit[a] \in Budget
      BY <1>1 DEF TypeOK
    <3>2. ASSUME NEW b \in Admins, Merge(b)
          PROVE  \/ edit'[a] = edit[a]
                 \/ edit'[a].usage = mem.usage /\ edit'[a].last = mem.last
      BY <3>1, <3>2 DEF Merge, Budget
    <3>3. ASSUME NEW b \in Admins, Handle(b), ~Merge(b)
          PROVE  edit'[a] \in {edit[a], row, Zero}
      BY <3>1, <3>3 DEF Handle, Transaction, ReadRow, Store, Rebase, RebaseMark
    <3>4. CASE Down
      BY <3>4 DEF Down
    <3>5. CASE edit' = edit
      BY <3>5
    <3> QED
      BY <3>2, <3>3, <3>4, <3>5
      DEF Next, vars, adminVars, Bill, CheckBudget, Load, Mark, Swap, Ticker, Sweep, SweepMark,
          Persist, Tick, Dump, ReadGens, ReadRows, KeepUnreset, Write, Process, NextWindow,
          Stop, Halt, Crash, Restart
  <2> QED
    BY <2>1, <2>2, <2>3
<1> QED
  BY <1>6, <1>7, <1>8

\* The invariant holds at the start ...
LEMMA InitInv == Init => BudgetInv
<1> SUFFICES ASSUME Init
             PROVE  BudgetInv
  OBVIOUS
<1>1. TypeOK
  BY InitTypes
<1>2. Zero.usage = 0 /\ Zero.last = 0 /\ Zero.grant = NoGrant
  BY DEF Zero
<1>3. Covered(Zero)
  BY <1>1, <1>2, ZeroType, EmptyIsCovered
<1>4. 0 \in Windows
  BY BudgetsAssumption DEF Windows
<1>5. NoSpendCarriedOver /\ OverrideEnds
  BY <1>2, <1>3 DEF Init, NoSpendCarriedOver, Covered, OverrideEnds
<1>6. NoIncrementLost /\ NoFutureSpend
  BY <1>2, <1>4 DEF Init, NoIncrementLost, NoFutureSpend
<1>7. (\A d \in Dumpers : Covered(snap[d])) /\ \A a \in Admins : Covered(edit[a])
  BY <1>3 DEF Init
<1>8. up = "up"
  BY DEF Init
<1> QED
  BY <1>1, <1>5, <1>6, <1>7, <1>8 DEF BudgetInv

\* ... and every step keeps it.
LEMMA StepInv == BudgetInv /\ [Next]_vars => BudgetInv'
<1> SUFFICES ASSUME BudgetInv, [Next]_vars
             PROVE  BudgetInv'
  OBVIOUS
<1>1. TypeOK'
  BY StepTypes DEF BudgetInv
<1>2. NoSpendCarriedOver'
  BY <1>1, EntryStep, CopiesStep DEF NoSpendCarriedOver, Covered
<1>3. (up = "down" => stops > 0)'
  <2>1. CASE up' = up /\ stops' = stops
    BY <2>1 DEF BudgetInv
  <2>2. CASE Down
    BY <2>2 DEF Down, BudgetInv, TypeOK
  <2>3. CASE up' # "down"
    BY <2>3
  <2> QED
    BY <2>1, <2>2, <2>3
    DEF Next, vars, Bill, CheckBudget, Load, Mark, Swap, Ticker, Sweep, SweepMark, Persist, Tick,
        Dump, ReadGens, ReadRows, KeepUnreset, Write, Handle, Transaction, ReadRow, Merge,
        Store, Rebase, RebaseMark, Process, NextWindow, Stop, Halt, Crash, Restart
<1> QED
  BY <1>1, <1>2, <1>3, EntryStep, CopiesStep, IncrementStep DEF BudgetInv

\* The inductive invariant of a budget holds for any number of requests, handlers, windows
\* and stops.
LEMMA BudgetInvariance == Spec => []BudgetInv
BY InitInv, StepInv, PTL DEF Spec

(* Every variable of the budget keeps its type.                            *)
THEOREM BudgetTypes == Spec => []TypeOK
<1>1. BudgetInv => TypeOK
  BY DEF BudgetInv
<1> QED
  BY <1>1, BudgetInvariance, PTL

(* Nobody pays in one window for what was spent in another, though usage   *)
(* and boundary are copied between the entry, the row, dumps and reloads   *)
(* (BumpBudgetUsage, DumpBudgets, ResetExpiredBudgets, the admin reloads). *)
THEOREM SpendStaysInItsWindow == Spec => []NoSpendCarriedOver
<1>1. BudgetInv => NoSpendCarriedOver
  BY DEF BudgetInv
<1> QED
  BY <1>1, BudgetInvariance, PTL

(* Concurrent BumpBudgetUsage calls and window resets lose no increment.   *)
THEOREM IncrementsAreKept == Spec => []NoIncrementLost
<1>1. BudgetInv => NoIncrementLost
  BY DEF BudgetInv
<1> QED
  BY <1>1, BudgetInvariance, PTL

(* An override never raises the limit past the windows it was granted for, *)
(* however often storeBudget replays its grant.                            *)
THEOREM OverridesEnd == Spec => []OverrideEnds
<1>1. BudgetInv => OverrideEnds
  BY DEF BudgetInv
<1> QED
  BY <1>1, BudgetInvariance, PTL

(* No write of writeBudgetBatch moves the persisted boundary back, in      *)
(* whatever order resets and dumps reach the database.                     *)
THEOREM BoundaryIsMonotone == Spec => BoundaryAdvances
<1>1. ASSUME BudgetInv, [Next]_vars
      PROVE  row.last' >= row.last
  <2>1. TypeOK /\ row \in Budget /\ row.last \in Int
    <3>1. TypeOK
      BY <1>1 DEF BudgetInv
    <3>2. row \in Budget
      BY <3>1 DEF TypeOK
    <3>3. row.last \in Windows
      BY <3>2 DEF Budget
    <3> QED
      BY <3>1, <3>2, <3>3 DEF Windows
  <2>2. ASSUME NEW b \in Budget, NEW strictly \in BOOLEAN, row' \in {row, Written(b, strictly)}
        PROVE  row.last' >= row.last
    BY <2>1, <2>2, WrittenType
  <2>3. CASE Persist
    BY <2>1, <2>2, <2>3 DEF Persist, TypeOK, Dumpers
  <2>4. ASSUME NEW d \in Dumpers, Write(d)
        PROVE  row.last' >= row.last
    BY <2>1, <2>2, <2>4 DEF Write, TypeOK
  <2>5. ASSUME NEW a \in Admins, Transaction(a)
        PROVE  row.last' >= row.last
    <3>1. row.last' = row.last
      BY <2>1, <2>5, BudgetsAssumption DEF Transaction, Budget
    <3> QED
      BY <2>1, <3>1
  <2>6. CASE row' = row
    BY <2>1, <2>6
  <2> QED
    BY <1>1, <2>3, <2>4, <2>5, <2>6
    DEF Next, vars, Bill, CheckBudget, Load, Mark, Swap, Ticker, Sweep, SweepMark, Tick, Dump,
        ReadGens, ReadRows, KeepUnreset, Handle, ReadRow, Merge, Store, Rebase, RebaseMark,
        Process, NextWindow, Stop, Halt, Crash, Down, Restart
<1>2. BudgetInv /\ [Next]_vars => [row.last' >= row.last]_vars
  BY <1>1
<1> QED
  BY <1>2, BudgetInvariance, PTL DEF Spec, BoundaryAdvances
=============================================================================
