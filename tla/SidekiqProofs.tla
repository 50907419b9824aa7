--------------------------- MODULE SidekiqProofs ---------------------------
(***************************************************************************)
(* Proofs about Sidekiq, for every set of nodes and goroutines, every      *)
(* number of jobs, slots, attempts and checkpoints, and every stale window.*)
(***************************************************************************)
EXTENDS Sidekiq, TLAPS

\* The invariant holds initially.
LEMMA InitJobInv == Init => JobInv
<1> SUFFICES ASSUME Init PROVE JobInv
  OBVIOUS
<1> USE SidekiqAssumption DEF Init
<1>1. TypeOK
  BY DEF TypeOK
<1>2. ThreadInv
  BY DEF ThreadInv
<1>3. ClaimInv /\ CursorInv
  BY DEF ClaimInv, CursorInv, Claimed
<1>4. PoisonJobIsBounded
  BY DEF PoisonJobIsBounded
<1>5. RowInv /\ OrderInv
  BY DEF RowInv, OrderInv, Claiming, Claimed
<1>6. ExclusionInv
  BY DEF ExclusionInv, Claiming, Claimed
<1> QED
  BY <1>1, <1>2, <1>3, <1>4, <1>5, <1>6 DEF JobInv

-----------------------------------------------------------------------------
(* Goroutines.                                                              *)

\* A goroutine that returns takes only its own entry out of the in-flight set; what
\* it wrote before, if it wrote, closed the fence of its job.
LEMMA ExitInv ==
  ASSUME JobInv, NEW t \in Threads, pc[t] # "free", Exit(t),
         UNCHANGED <<nodeVars, started, owner, attempts>>,
         snapshot' \subseteq snapshot,
         pc[t] = "update" => t \notin snapshot',
         \/ UNCHANGED <<status, age, cursor>>
         \/ /\ status' \in [Jobs -> {"absent", "pending", "running"} \cup Terminal]
            /\ age' \in [Jobs -> 0..StaleAfter + 1]
            /\ cursor' \in [Jobs -> Nat]
            /\ Fence(node[t], job[t])
            /\ pc[t] \in Claimed
            /\ status'[job[t]] \in Terminal
            /\ \A j \in Jobs : j # job[t] => /\ status'[j] = status[j]
                                             /\ age'[j] = age[j]
                                             /\ cursor'[j] = cursor[j]
  PROVE  JobInv'
<1> USE DEF nodeVars
<1>0. TypeOK /\ ThreadInv /\ RowInv /\ OrderInv
  BY DEF JobInv
<1>1. /\ pc' = [pc EXCEPT ![t] = "free"]
      /\ node' = [node EXCEPT ![t] = NoNode]
      /\ job' = [job EXCEPT ![t] = 0]
      /\ attempt' = [attempt EXCEPT ![t] = 0]
      /\ seen' = [seen EXCEPT ![t] = 0]
      /\ cancelled' = cancelled \ {t}
      /\ inflight' = inflight \ {<<node[t], job[t]>>}
  BY DEF Exit
<1>2. /\ pc'[t] = "free" /\ node'[t] = NoNode
      /\ \A u \in Threads : u # t =>
           /\ pc'[u] = pc[u] /\ node'[u] = node[u] /\ job'[u] = job[u]
           /\ attempt'[u] = attempt[u] /\ seen'[u] = seen[u]
  BY <1>0, <1>1 DEF TypeOK
<1>3. TypeOK'
  BY <1>0, <1>1, SMTT(30) DEF TypeOK
<1>4. \A u \in Threads : u # t /\ pc[u] # "free" => <<node[u], job[u]>> \in inflight'
  BY <1>0, <1>1 DEF ThreadInv
<1>5. \A j \in Jobs : status[j] # "absent" => status'[j] # "absent"
  BY DEF Terminal
<1>6. ThreadInv'
  BY <1>0, <1>2, <1>4, <1>5, SMTT(30) DEF ThreadInv, TypeOK
<1>7. \A u \in Threads : u # t /\ pc[u] \in Claimed /\ Fence(node[u], job[u])' =>
        /\ Fence(node[u], job[u])
        /\ cursor'[job[u]] = cursor[job[u]] /\ age'[job[u]] = age[job[u]]
  <2> SUFFICES ASSUME NEW u \in Threads, u # t, pc[u] \in Claimed, Fence(node[u], job[u])'
               PROVE  /\ Fence(node[u], job[u])
                      /\ cursor'[job[u]] = cursor[job[u]] /\ age'[job[u]] = age[job[u]]
    OBVIOUS
  <2>1. job[u] \in Jobs /\ job'[u] = job[u] /\ node'[u] = node[u]
    BY <1>0, <1>2 DEF ThreadInv, Claimed
  <2>2. owner[job[u]] = node[u] /\ status'[job[u]] = "running"
    BY <2>1 DEF Fence
  <2> QED
    BY <2>1, <2>2 DEF Fence, Terminal
<1>8. ClaimInv' /\ CursorInv'
  <2>1. ClaimInv'
    BY <1>2, <1>7, <1>0 DEF JobInv, ClaimInv, Claimed, Fence
  <2>2. CursorInv'
    BY <1>2, <1>7, <1>0 DEF JobInv, CursorInv, Claimed, Fence
  <2> QED BY <2>1, <2>2
<1>9. PoisonJobIsBounded'
  BY DEF JobInv, PoisonJobIsBounded
<1>10. \A u \in Threads : Claiming(u)' =>
         Claiming(u) /\ u # t /\ job'[u] = job[u] /\ attempt'[u] = attempt[u]
  BY <1>0, <1>2 DEF Claiming, Claimed, OrderInv
<1>11. RowInv' /\ OrderInv'
  <2>1. RowInv'
    BY <1>0 DEF RowInv, Fence, ThreadInv, TypeOK, Terminal
  <2>2. OrderInv'
    <3>1. \A u \in snapshot' : pc'[u] = "update"
      BY <1>0, <1>2 DEF OrderInv, TypeOK
    <3> QED
      BY <3>1, <1>0, <1>10 DEF OrderInv, SameKey
  <2> QED
    BY <2>1, <2>2
<1>12. ExclusionInv'
  <2> SUFFICES ASSUME ClusterMode, Punctual
               PROVE  ExclusionInv'
    BY DEF ExclusionInv
  <2>0. ExclusionInv
    BY DEF JobInv
  <2>1. \A u \in Threads : u # t /\ pc[u] \in Claimed =>
          /\ Fence(node[u], job[u]) /\ age[job[u]] <= StaleAfter
          /\ node[u] \in Nodes /\ job[u] \in Jobs
    BY <1>0 DEF JobInv, ExclusionInv, ThreadInv, Claimed
  <2>2. \A u \in Threads : u # t /\ pc[u] \in Claimed =>
          status'[job[u]] = status[job[u]] /\ age'[job[u]] = age[job[u]]
    BY <1>0, <2>1 DEF ThreadInv, Fence, Claimed
  <2>3. \A u \in Threads : pc'[u] \in Claimed =>
          u # t /\ Fence(node[u], job[u])' /\ age'[job'[u]] <= StaleAfter
    BY <1>2, <2>1, <2>2 DEF Fence, Claimed
  <2>4. \A u \in Threads : pc'[u] \in Claimed => pc[u] \in Claimed
    BY <1>2 DEF Claimed
  <2>5. \A u \in Threads, v \in snapshot' : pc'[u] \in Claimed => job'[u] # job'[v]
    <3> SUFFICES ASSUME NEW u \in Threads, NEW v \in snapshot', pc'[u] \in Claimed
                 PROVE  job'[u] # job'[v]
      OBVIOUS
    <3>1. v \in Threads /\ Claiming(v)' /\ Claiming(u)'
      BY <1>3 DEF TypeOK, Claiming
    <3> QED
      BY <3>1, <2>0, <2>4, <1>10 DEF ExclusionInv
  <2>6. \A u, v \in Threads :
          /\ pc'[u] \in Claimed /\ Claiming(v)'
          /\ SameKey(job'[u], job'[v]) /\ job'[u] < job'[v]
          => attempt'[u] >= 2
    <3> SUFFICES ASSUME NEW u \in Threads, NEW v \in Threads,
                        pc'[u] \in Claimed, Claiming(v)',
                        SameKey(job'[u], job'[v]), job'[u] < job'[v]
                 PROVE  attempt'[u] >= 2
      OBVIOUS
    <3>1. Claiming(u)'
      BY DEF Claiming
    <3> QED
      BY <3>1, <2>0, <2>4, <1>10 DEF ExclusionInv
  <2> QED
    BY <2>0, <2>3, <2>5, <2>6 DEF ExclusionInv, SameKey
<1> QED
  BY <1>3, <1>6, <1>8, <1>9, <1>11, <1>12 DEF JobInv

\* A goroutine moves on inside its claim, the rows staying as they are.
LEMMA MoveInv ==
  ASSUME JobInv, NEW t \in Threads, pc[t] \notin {"free", "update"},
         NEW p \in {"waitSlot", "claim"} \cup Claimed,
         pc' = [pc EXCEPT ![t] = p],
         p \in Claimed => pc[t] \in Claimed,
         p \in Claimed \ {"fetch"} => pc[t] # "fetch" \/ seen'[t] = cursor[job[t]],
         seen' = [seen EXCEPT ![t] = seen'[t]],
         seen'[t] \in Nat,
         pc[t] \in Claimed \ {"fetch"} => seen'[t] >= seen[t],
         UNCHANGED <<rowVars, node, job, attempt, cancelled, nodeVars, inflight>>,
         started' \in [Jobs -> SUBSET Nat],
         PoisonJobIsBounded'
  PROVE  JobInv'
<1> USE DEF nodeVars, rowVars
<1>0. TypeOK /\ ThreadInv
  BY DEF JobInv
<1>1. TypeOK'
  BY <1>0 DEF TypeOK
<1>2. p # "free"
  BY DEF Claimed
<1>3. ThreadInv'
  BY <1>0, <1>2 DEF ThreadInv, TypeOK
<1>4. ClaimInv'
  BY <1>0 DEF JobInv, ClaimInv, TypeOK, Fence
<1>5. CursorInv'
  <2> SUFFICES ASSUME NEW u \in Threads, pc'[u] \in Claimed \ {"fetch"}, Fence(node[u], job[u])
               PROVE  seen'[u] >= cursor[job[u]]
    BY DEF CursorInv, Fence
  <2>1. CASE u # t
    BY <2>1, <1>0 DEF JobInv, CursorInv, TypeOK
  <2>2. CASE u = t
    <3>1. pc'[t] = p
      BY <1>0 DEF TypeOK
    <3>2. job[t] \in Jobs /\ cursor[job[t]] \in Nat
      BY <1>0 DEF ThreadInv, TypeOK
    <3>3. CASE pc[t] = "fetch"
      BY <3>3, <3>1, <3>2, <2>2
    <3>4. CASE pc[t] # "fetch"
      <4>1. pc[t] \in Claimed \ {"fetch"}
        BY <3>4, <3>1, <2>2
      <4>2. seen[t] >= cursor[job[t]]
        BY <4>1, <2>2 DEF JobInv, CursorInv
      <4> QED
        BY <4>1, <4>2, <3>2, <2>2, <1>0 DEF TypeOK
    <3> QED
      BY <3>3, <3>4
  <2> QED
    BY <2>1, <2>2
<1>6. /\ \A u \in Threads : pc'[u] \in Claimed => pc[u] \in Claimed
      /\ \A u \in Threads : Claiming(u)' => Claiming(u)
  BY <1>0 DEF TypeOK, Claiming
<1>7. RowInv' /\ OrderInv'
  <2>1. \A u \in snapshot' : pc'[u] = "update"
    BY <1>0 DEF JobInv, OrderInv, TypeOK
  <2>2. OrderInv
    BY DEF JobInv
  <2>3. OrderInv'
    BY <2>1, <2>2, <1>6 DEF OrderInv, SameKey
  <2>4. RowInv'
    BY DEF JobInv, RowInv
  <2> QED
    BY <2>3, <2>4
<1>8. ExclusionInv'
  <2>1. ExclusionInv
    BY DEF JobInv
  <2> QED
    BY <2>1, <1>6 DEF ExclusionInv, Fence, SameKey
<1> QED
  BY <1>1, <1>3, <1>4, <1>5, <1>7, <1>8 DEF JobInv

\* Acquiring a slot, leaving the queue and the handler's return.
LEMMA WaitingSteps ==
  ASSUME JobInv, NEW t \in Threads, AcquireSlot(t) \/ LeaveQueue(t) \/ HandlerReturn(t)
  PROVE  JobInv'
<1>0. TypeOK /\ PoisonJobIsBounded
  BY DEF JobInv
<1>1. CASE LeaveQueue(t)
  BY <1>1, ExitInv DEF LeaveQueue, rowVars
<1>2. CASE AcquireSlot(t)
  <2> USE <1>2 DEF AcquireSlot
  <2>1. PoisonJobIsBounded'
    BY <1>0 DEF PoisonJobIsBounded
  <2> QED
    BY <1>0, <2>1, MoveInv DEF TypeOK, Claimed
<1>3. CASE HandlerReturn(t)
  <2> USE <1>3 DEF HandlerReturn
  <2>1. PoisonJobIsBounded'
    BY <1>0 DEF PoisonJobIsBounded
  <2>2. PICK p \in {"succeeded", "errored", "panicked"} : pc' = [pc EXCEPT ![t] = p]
    OBVIOUS
  <2>3. /\ seen' = [seen EXCEPT ![t] = seen'[t]] /\ seen'[t] = seen[t] /\ seen[t] \in Nat
        /\ started' \in [Jobs -> SUBSET Nat]
    BY <1>0 DEF TypeOK
  <2>4. /\ p \in {"waitSlot", "claim"} \cup Claimed
        /\ pc[t] \in Claimed /\ pc[t] # "fetch" /\ pc[t] \notin {"free", "update"}
    BY DEF Claimed
  <2> HIDE DEF HandlerReturn
  <2>5. UNCHANGED <<rowVars, node, job, attempt, cancelled, nodeVars, inflight>>
    BY DEF HandlerReturn
  <2>6. /\ p \in Claimed => pc[t] \in Claimed
        /\ p \in Claimed \ {"fetch"} => pc[t] # "fetch" \/ seen'[t] = cursor[job[t]]
        /\ pc[t] \in Claimed \ {"fetch"} => seen'[t] >= seen[t]
        /\ seen'[t] \in Nat
    BY <2>3, <2>4
  <2> QED
    BY <2>1, <2>2, <2>3, <2>4, <2>5, <2>6, MoveInv, Zenon
<1> QED
  BY <1>1, <1>2, <1>3

\* A claim's statement reads: no live claim of its job is held, none of an older job
\* of its key either, and those older jobs left the queue.
LEMMA ClaimReadSteps ==
  ASSUME JobInv, NEW t \in Threads, ClaimRead(t)
  PROVE  JobInv'
<1> DEFINE n == node[t]
           j == job[t]
<1>0. TypeOK /\ ThreadInv /\ RowInv /\ OrderInv /\ pc[t] = "claim"
  BY DEF JobInv, ClaimRead
<1>1. CASE Exit(t) /\ UNCHANGED snapshot
  BY <1>0, <1>1, ExitInv DEF ClaimRead
<1>2. CASE /\ Wins(n, j)
           /\ pc' = [pc EXCEPT ![t] = "update"]
           /\ snapshot' = snapshot \cup {t}
           /\ UNCHANGED <<node, job, attempt, seen, cancelled, inflight>>
  <2> USE DEF nodeVars
  <2>0. UNCHANGED <<status, owner, attempts, age, cursor, nodeVars, started>>
    BY DEF ClaimRead
  <2>1. n \in Nodes /\ j \in Jobs /\ status[j] # "absent"
    BY <1>0 DEF ThreadInv
  <2>2. TypeOK'
    BY <1>0, <1>2, <2>0 DEF TypeOK
  <2>3. /\ pc'[t] = "update"
        /\ \A u \in Threads : u # t => pc'[u] = pc[u]
        /\ \A u \in Threads : pc'[u] \in Claimed => u # t /\ pc[u] \in Claimed
        /\ \A u \in Threads : Claiming(u)' => u = t \/ Claiming(u)
    BY <1>0, <1>2 DEF TypeOK, Claiming, Claimed
  <2>4. ThreadInv'
    BY <1>0, <1>2, <2>0, <2>3 DEF ThreadInv
  <2>5. ClaimInv' /\ CursorInv'
    BY <1>2, <2>0, <2>3 DEF JobInv, ClaimInv, CursorInv, Fence
  <2>6. PoisonJobIsBounded' /\ RowInv'
    BY <2>0 DEF JobInv, PoisonJobIsBounded, RowInv
  <2>7. \A i \in Jobs : SameKey(i, j) /\ i < j => attempts[i] >= 1
    <3> SUFFICES ASSUME NEW i \in Jobs, SameKey(i, j), i < j PROVE attempts[i] >= 1
      OBVIOUS
    <3>1. status[i] # "absent" /\ status[i] # "pending"
      BY <1>0, <1>2, <2>1 DEF RowInv, Wins, NextInLine
    <3> QED
      BY <3>1, <1>0 DEF RowInv
  <2>8. OrderInv'
    <3>1. \A u \in snapshot' : pc'[u] = "update"
      BY <1>0, <1>2, <2>3 DEF OrderInv, TypeOK
    <3>2. ASSUME NEW u \in Threads, Claiming(u)', NEW i \in Jobs, SameKey(i, job[u]), i < job[u]
          PROVE  attempts[i] >= 1
      BY <3>2, <2>3, <2>7, <1>0 DEF OrderInv
    <3> QED
      BY <3>1, <3>2, <1>2, <2>0 DEF OrderInv, SameKey
  <2>9. ExclusionInv'
    <3> SUFFICES ASSUME ClusterMode, Punctual
                 PROVE  ExclusionInv'
      BY DEF ExclusionInv
    <3>0. ExclusionInv
      BY DEF JobInv
    <3>1. window[n] = StaleAfter
      BY <1>0, <2>1, <3>0 DEF ExclusionInv, ThreadInv
    <3>2. \A u \in Threads : pc[u] \in Claimed =>
            /\ job[u] \in Jobs
            /\ Fence(node[u], job[u]) /\ ~Stale(n, job[u])
      <4> SUFFICES ASSUME NEW u \in Threads, pc[u] \in Claimed
                   PROVE  /\ job[u] \in Jobs
                          /\ Fence(node[u], job[u]) /\ ~Stale(n, job[u])
        OBVIOUS
      <4>1. job[u] \in Jobs
        BY <1>0 DEF ThreadInv, Claimed
      <4>2. age[job[u]] \in Nat
        BY <4>1, <1>0, SidekiqAssumption DEF TypeOK
      <4>3. Fence(node[u], job[u]) /\ age[job[u]] <= StaleAfter
        BY <3>0 DEF ExclusionInv
      <4> QED
        BY <3>1, <4>1, <4>2, <4>3, SidekiqAssumption DEF Stale
    <3>3. \A u \in Threads : pc[u] \in Claimed => job[u] # j /\ ~SameKey(job[u], j)
      BY <1>2, <3>2 DEF Wins, Claimable, NextInLine, Fence, SameKey, Stale
    <3>4. \A u \in Threads, v \in snapshot' : pc'[u] \in Claimed => job[u] # job[v]
      BY <1>2, <2>3, <3>0, <3>3 DEF ExclusionInv
    <3>5. ASSUME NEW u \in Threads, NEW v \in Threads, pc'[u] \in Claimed, Claiming(v)',
                 SameKey(job[u], job[v]), job[u] < job[v]
          PROVE  attempt[u] >= 2
      BY <2>3, <3>0, <3>3, <3>5 DEF ExclusionInv
    <3> QED
      BY <1>2, <2>0, <2>3, <3>0, <3>4, <3>5 DEF ExclusionInv, Fence, SameKey
  <2> QED
    BY <2>2, <2>4, <2>5, <2>6, <2>8, <2>9 DEF JobInv
<1> QED
  BY <1>1, <1>2 DEF ClaimRead

\* A claim that writes: the other goroutines on the job belong to other nodes, so the
\* change of owner closes their fence.  The row was not written since it was read, so
\* it is held by nobody in time, and the other claims of it that have read are void.
LEMMA ClaimWriteSteps ==
  ASSUME JobInv, NEW t \in Threads, ClaimWrite(t)
  PROVE  JobInv'
<1> DEFINE n == node[t]
           j == job[t]
<1>0. TypeOK /\ ThreadInv /\ RowInv /\ OrderInv /\ pc[t] = "update"
  BY DEF JobInv, ClaimWrite
<1>1. CASE /\ Exit(t)
           /\ snapshot' = snapshot \ {t}
           /\ UNCHANGED <<status, owner, attempts, age, cursor>>
  BY <1>0, <1>1, ExitInv DEF ClaimWrite
<1>2. CASE /\ Unwritten(t)
           /\ ClaimRow(n, j)
           /\ pc' = [pc EXCEPT ![t] = "fetch"]
           /\ attempt' = [attempt EXCEPT ![t] = attempts[j] + 1]
           /\ UNCHANGED <<node, job, seen, cancelled, inflight>>
  <2> USE <1>2 DEF ClaimRow, nodeVars
  <2>0. UNCHANGED <<nodeVars, started>>
    BY DEF ClaimWrite
  <2>1. n \in Nodes /\ j \in Jobs
    BY <1>0 DEF ThreadInv
  <2>2. TypeOK'
    BY <1>0, <2>0, <2>1, SidekiqAssumption, SMTT(30) DEF TypeOK, Claimed, Overwrites
  <2>3. ThreadInv'
    BY <1>0, <2>0, <2>1, SMTT(30) DEF ThreadInv, TypeOK
  <2>4. \A u \in Threads : u # t /\ pc[u] \in Claimed =>
          /\ pc'[u] = pc[u] /\ attempt'[u] = attempt[u] /\ job[u] \in Jobs
          /\ attempts'[job[u]] >= attempts[job[u]]
          /\ Fence(node[u], job[u])' => job[u] # j /\ Fence(node[u], job[u])
    <3> SUFFICES ASSUME NEW u \in Threads, u # t, pc[u] \in Claimed
                 PROVE  /\ pc'[u] = pc[u] /\ attempt'[u] = attempt[u] /\ job[u] \in Jobs
                        /\ attempts'[job[u]] >= attempts[job[u]]
                        /\ Fence(node[u], job[u])' => job[u] # j /\ Fence(node[u], job[u])
      OBVIOUS
    <3>1. pc[u] # "free" /\ job[u] \in Jobs
      BY <1>0 DEF ThreadInv, Claimed
    <3>2. job[u] = j => node[u] # n
      BY <1>0, <3>1 DEF ThreadInv
    <3> QED
      BY <1>0, <2>1, <3>1, <3>2 DEF TypeOK, Fence
  <2>5. /\ pc'[t] = "fetch" /\ attempt'[t] = attempts[j] + 1
        /\ attempts'[j] = attempts[j] + 1 /\ attempts[j] \in Nat
    BY <1>0, <2>1 DEF TypeOK
  <2>6. ClaimInv'
    <3> SUFFICES ASSUME NEW u \in Threads, pc'[u] \in Claimed
                 PROVE  /\ attempt'[u] >= 1 /\ attempt'[u] <= attempts'[job[u]]
                        /\ Fence(node[u], job[u])' => attempt'[u] = attempts'[job[u]]
      BY DEF ClaimInv, Fence
    <3>1. CASE u = t
      BY <3>1, <2>5
    <3>2. CASE u # t
      <4>1. pc[u] \in Claimed
        BY <3>2, <1>0 DEF TypeOK
      <4>2. /\ attempt[u] >= 1 /\ attempt[u] <= attempts[job[u]]
            /\ Fence(node[u], job[u]) => attempt[u] = attempts[job[u]]
        BY <4>1 DEF JobInv, ClaimInv
      <4>3. job[u] # j => attempts'[job[u]] = attempts[job[u]]
        BY <1>0, <2>4, <3>2, <4>1 DEF TypeOK
      <4>4. attempt[u] \in Nat /\ attempts[job[u]] \in Nat /\ attempts'[job[u]] \in Nat
        BY <1>0, <2>2, <2>4, <3>2, <4>1 DEF TypeOK
      <4>5. /\ attempt'[u] = attempt[u] /\ attempts'[job[u]] >= attempts[job[u]]
            /\ Fence(node[u], job[u])' => job[u] # j /\ Fence(node[u], job[u])
        BY <3>2, <2>4, <4>1
      <4>6. attempt'[u] >= 1 /\ attempt'[u] <= attempts'[job[u]]
        BY <4>2, <4>4, <4>5
      <4> QED
        BY <4>2, <4>3, <4>5, <4>6
    <3> QED
      BY <3>1, <3>2
  <2>7. CursorInv'
    <3> SUFFICES ASSUME NEW u \in Threads, pc'[u] \in Claimed \ {"fetch"},
                        Fence(node[u], job[u])'
                 PROVE  seen[u] >= cursor[job[u]]
      BY DEF CursorInv, Fence
    <3>1. u # t
      BY <2>5
    <3>2. pc[u] \in Claimed \ {"fetch"} /\ Fence(node[u], job[u])
      BY <3>1, <2>4, <1>0 DEF TypeOK
    <3> QED
      BY <3>2 DEF JobInv, CursorInv
  <2>8. PoisonJobIsBounded' /\ RowInv'
    <3>1. PoisonJobIsBounded'
      BY <2>0 DEF JobInv, PoisonJobIsBounded
    <3>2. \A i \in Jobs : /\ status'[i] = "absent" <=> status[i] = "absent"
                          /\ i # j => status'[i] = status[i] /\ attempts'[i] = attempts[i]
      BY <1>0, <2>1 DEF TypeOK, ThreadInv
    <3> QED
      BY <1>0, <2>5, <3>1, <3>2 DEF RowInv
  <2>9. /\ t \in snapshot /\ snapshot' = {u \in snapshot : job[u] # j}
        /\ \A u \in Threads : pc'[u] \in Claimed /\ u # t => pc[u] \in Claimed
        /\ \A u \in Threads : Claiming(u)' => Claiming(u)
        /\ \A i \in Jobs : attempts'[i] >= attempts[i]
    BY <1>0, <2>1 DEF Unwritten, Overwrites, TypeOK, Claiming
  <2>10. OrderInv'
    <3>1. \A u \in snapshot' : pc'[u] = "update"
      BY <1>0, <2>9 DEF OrderInv, TypeOK
    <3>2. ASSUME NEW u \in Threads, Claiming(u)', NEW i \in Jobs, SameKey(i, job[u]), i < job[u]
          PROVE  attempts'[i] >= 1
      <4>1. attempts[i] >= 1 /\ attempts'[i] >= attempts[i]
        BY <3>2, <2>9, <1>0 DEF OrderInv
      <4>2. attempts[i] \in Nat /\ attempts'[i] \in Nat
        BY <1>0, <2>2 DEF TypeOK
      <4> QED
        BY <4>1, <4>2
    <3> QED
      BY <3>1, <3>2 DEF OrderInv, SameKey
  <2>11. ExclusionInv'
    <3> SUFFICES ASSUME ClusterMode, Punctual
                 PROVE  ExclusionInv'
      BY DEF ExclusionInv
    <3>0. ExclusionInv
      BY DEF JobInv
    <3>1. \A u \in Threads : pc[u] \in Claimed => job[u] \in Jobs /\ job[u] # j
      BY <1>0, <2>9, <3>0 DEF ExclusionInv, ThreadInv, Claimed
    <3>2. ASSUME NEW u \in Threads, pc'[u] \in Claimed
          PROVE  Fence(node[u], job[u])' /\ age'[job[u]] <= StaleAfter
      <4>1. CASE u = t
        BY <4>1, <1>0, <2>1, SidekiqAssumption DEF Fence, TypeOK
      <4>2. CASE u # t
        BY <4>2, <3>0, <3>1, <3>2, <1>0, <2>1, <2>9 DEF Fence, TypeOK, ExclusionInv
      <4> QED
        BY <4>1, <4>2
    <3>3. ASSUME NEW u \in Threads, NEW v \in snapshot', pc'[u] \in Claimed
          PROVE  job[u] # job[v]
      BY <2>9, <3>0, <3>3 DEF ExclusionInv
    <3>4. ASSUME NEW u \in Threads, NEW v \in Threads, pc'[u] \in Claimed, Claiming(v)',
                 SameKey(job[u], job[v]), job[u] < job[v]
          PROVE  attempt'[u] >= 2
      <4>1. CASE u = t
        <5>1. attempts[j] >= 1
          BY <4>1, <3>4, <2>1, <2>9, <1>0 DEF OrderInv
        <5> QED
          BY <5>1, <4>1, <2>5
      <4>2. CASE u # t
        <5>1. attempt'[u] = attempt[u] /\ pc[u] \in Claimed /\ Claiming(v)
          BY <4>2, <3>4, <2>4, <2>9
        <5> QED
          BY <5>1, <3>0, <3>4 DEF ExclusionInv
      <4> QED
        BY <4>1, <4>2
    <3> QED
      BY <2>0, <3>0, <3>2, <3>3, <3>4 DEF ExclusionInv, Fence, SameKey
  <2> QED
    BY <2>2, <2>3, <2>6, <2>7, <2>8, <2>10, <2>11 DEF JobInv
<1> QED
  BY <1>1, <1>2 DEF ClaimWrite

\* The row is read again: the handler starts at the row's cursor, for an attempt
\* below MaxAttempts.
LEMMA FetchSteps ==
  ASSUME JobInv, NEW t \in Threads, Fetch(t)
  PROVE  JobInv'
<1> DEFINE j == job[t]
<1>0. TypeOK /\ ThreadInv /\ ClaimInv /\ PoisonJobIsBounded
  BY DEF JobInv
<1>1. pc[t] = "fetch" /\ UNCHANGED <<rowVars, nodeVars>>
  BY DEF Fetch
<1>2. j \in Jobs /\ cursor[j] \in Nat /\ attempts[j] \in Nat /\ attempt[t] \in Nat
  BY <1>0, <1>1 DEF ThreadInv, TypeOK
<1>3. CASE Exit(t) /\ UNCHANGED started
  BY <1>1, <1>3, ExitInv DEF rowVars
<1>4. CASE /\ pc' = [pc EXCEPT ![t] = "exhausted"]
           /\ seen' = [seen EXCEPT ![t] = cursor[j]]
           /\ UNCHANGED <<node, job, attempt, cancelled, inflight, started>>
  <2>1. PoisonJobIsBounded'
    BY <1>0, <1>4 DEF PoisonJobIsBounded
  <2>2. seen'[t] = cursor[j]
    BY <1>0, <1>4 DEF TypeOK
  <2> QED
    BY <1>0, <1>1, <1>2, <1>4, <2>1, <2>2, MoveInv DEF TypeOK, Claimed
<1>5. CASE /\ ~Exhausted(j)
           /\ pc' = [pc EXCEPT ![t] = "handle"]
           /\ seen' = [seen EXCEPT ![t] = cursor[j]]
           /\ started' = [started EXCEPT ![j] = @ \cup {attempt[t]}]
           /\ UNCHANGED <<node, job, attempt, cancelled, inflight>>
  <2>1. attempt[t] \in 1..MaxAttempts - 1
    BY <1>0, <1>1, <1>2, <1>5, SidekiqAssumption DEF ClaimInv, Exhausted, Claimed
  <2>2. PoisonJobIsBounded'
    BY <1>0, <1>2, <1>5, <2>1 DEF PoisonJobIsBounded, TypeOK
  <2>3. started' \in [Jobs -> SUBSET Nat]
    BY <1>0, <1>2, <1>5 DEF TypeOK
  <2>4. seen'[t] = cursor[j]
    BY <1>0, <1>5 DEF TypeOK
  <2> QED
    BY <1>0, <1>1, <1>2, <1>5, <2>2, <2>3, <2>4, MoveInv DEF TypeOK, Claimed
<1> QED
  BY <1>3, <1>4, <1>5 DEF Fetch

\* A checkpoint is written through the fence or not at all; through it, only the
\* latest claim's goroutine sees the new cursor, and it is its own.
LEMMA ProgressSteps ==
  ASSUME JobInv, NEW t \in Threads, Progress(t)
  PROVE  JobInv' /\ \A i \in Jobs : cursor'[i] >= cursor[i]
<1> DEFINE n == node[t]
           j == job[t]
<1>0. /\ TypeOK /\ ThreadInv /\ CursorInv /\ ExclusionInv /\ PoisonJobIsBounded /\ ClaimInv
      /\ RowInv /\ OrderInv
  BY DEF JobInv
<1>1. /\ pc[t] = "handle" /\ seen' = [seen EXCEPT ![t] = seen[t] + 1]
      /\ UNCHANGED <<status, owner, attempts, pc, node, job, attempt, cancelled, nodeVars,
                     inflight, started>>
  BY DEF Progress
<1>2. j \in Jobs /\ n \in Nodes /\ seen[t] \in Nat /\ cursor[j] \in Nat
  BY <1>0, <1>1 DEF ThreadInv, TypeOK
<1>3. \/ UNCHANGED <<cursor, age>>
      \/ /\ Fence(n, j)
         /\ cursor' = [cursor EXCEPT ![j] = seen[t] + 1]
         /\ age' = [age EXCEPT ![j] = 0]
  BY DEF Progress
<1>4. snapshot' \subseteq snapshot
  BY DEF Progress, Overwrites
<1>5. \A u \in Threads : Claiming(u)' => Claiming(u)
  BY <1>1, <1>4 DEF Claiming
<1>6. RowInv' /\ OrderInv'
  BY <1>0, <1>1, <1>4, <1>5 DEF RowInv, OrderInv, SameKey
<1>7. /\ cursor' \in [Jobs -> Nat] /\ age' \in [Jobs -> 0..StaleAfter + 1]
      /\ seen' \in [Threads -> Nat]
  BY <1>0, <1>1, <1>2, <1>3, SidekiqAssumption DEF TypeOK
<1>8. TypeOK'
  BY <1>0, <1>1, <1>7, <1>4 DEF TypeOK, nodeVars
<1>9. ThreadInv'
  BY <1>0, <1>1 DEF ThreadInv, nodeVars
<1>10. ClaimInv' /\ PoisonJobIsBounded'
  BY <1>0, <1>1 DEF ClaimInv, PoisonJobIsBounded, Fence
<1>11. Fence(n, j) => seen[t] >= cursor[j]
  BY <1>0, <1>1 DEF CursorInv, Claimed
<1>12. CursorInv'
  <2> SUFFICES ASSUME NEW u \in Threads, pc[u] \in Claimed \ {"fetch"}, Fence(node[u], job[u])
               PROVE  seen'[u] >= cursor'[job[u]]
    BY <1>1 DEF CursorInv, Fence
  <2>1. seen[u] >= cursor[job[u]] /\ seen[u] \in Nat /\ job[u] \in Jobs /\ cursor[job[u]] \in Nat
    BY <1>0 DEF CursorInv, TypeOK, ThreadInv, Claimed
  <2>2. CASE u = t
    BY <2>1, <2>2, <1>0, <1>1, <1>2, <1>3 DEF TypeOK
  <2>3. CASE u # t /\ job[u] # j
    BY <2>1, <2>3, <1>0, <1>1, <1>3 DEF TypeOK
  <2>4. CASE u # t /\ job[u] = j
    <3>1. node[u] # n
      BY <2>4, <1>0, <1>1 DEF ThreadInv, Claimed
    <3>2. ~Fence(n, j)
      BY <2>4, <3>1 DEF Fence
    <3> QED
      BY <3>2, <2>1, <2>4, <1>0, <1>1, <1>3 DEF TypeOK
  <2> QED
    BY <2>2, <2>3, <2>4
<1>13. ExclusionInv'
  <2>1. \A i \in Jobs : age[i] <= StaleAfter => age'[i] <= StaleAfter
    BY <1>0, <1>2, <1>3, SidekiqAssumption DEF TypeOK
  <2>2. \A u \in Threads : pc[u] \in Claimed => job[u] \in Jobs
    BY <1>0 DEF ThreadInv, Claimed
  <2> QED
    BY <2>1, <2>2, <1>0, <1>1, <1>4, <1>5 DEF ExclusionInv, Fence, SameKey, nodeVars
<1>14. \A i \in Jobs : cursor'[i] >= cursor[i]
  BY <1>0, <1>2, <1>3, <1>11 DEF TypeOK
<1> QED
  BY <1>8, <1>9, <1>10, <1>12, <1>13, <1>14, <1>6 DEF JobInv

\* The final write goes through the fence and closes it.
LEMMA FinishSteps ==
  ASSUME JobInv, NEW t \in Threads, Finish(t)
  PROVE  JobInv' /\ \A i \in Jobs : cursor'[i] >= cursor[i]
<1> DEFINE n == node[t]
           j == job[t]
           s == IF pc[t] = "succeeded" THEN "completed" ELSE "failed"
           c == IF pc[t] = "panicked" THEN cursor[j] ELSE seen[t]
<1>0. TypeOK /\ ThreadInv /\ CursorInv
  BY DEF JobInv
<1>1. /\ pc[t] \in Claimed \ {"fetch"} /\ pc[t] \notin {"free", "update"}
      /\ Exit(t) /\ UNCHANGED <<nodeVars, started>>
  BY DEF Finish, Claimed
<1>2. CASE UNCHANGED rowVars
  <2>1. JobInv'
    BY <1>1, <1>2, ExitInv DEF rowVars
  <2>2. \A i \in Jobs : cursor'[i] >= cursor[i]
    BY <1>0, <1>2 DEF rowVars, TypeOK
  <2> QED
    BY <2>1, <2>2
<1>3. CASE Fence(n, j) /\ FinishRow(j, s, c)
  <2>1. j \in Jobs /\ cursor[j] \in Nat /\ seen[t] \in Nat /\ seen[t] >= cursor[j]
    BY <1>0, <1>1, <1>3 DEF ThreadInv, CursorInv, TypeOK
  <2>2. c \in Nat /\ c >= cursor[j] /\ s \in Terminal
    BY <2>1 DEF Terminal
  <2> HIDE DEF s, c
  <2>3. /\ status' = [status EXCEPT ![j] = s] /\ age' = [age EXCEPT ![j] = 0]
        /\ cursor' = [cursor EXCEPT ![j] = c] /\ UNCHANGED <<owner, attempts>>
        /\ snapshot' \subseteq snapshot
    BY <1>3 DEF FinishRow, Overwrites
  <2>4. /\ status' \in [Jobs -> {"absent", "pending", "running"} \cup Terminal]
        /\ age' \in [Jobs -> 0..StaleAfter + 1]
        /\ cursor' \in [Jobs -> Nat]
        /\ status'[j] \in Terminal
        /\ \A i \in Jobs : i # j => /\ status'[i] = status[i] /\ age'[i] = age[i]
                                    /\ cursor'[i] = cursor[i]
    BY <1>0, <2>1, <2>2, <2>3, SidekiqAssumption DEF TypeOK
  <2>5. JobInv'
    BY <1>1, <1>3, <2>3, <2>4, ExitInv
  <2>6. \A i \in Jobs : cursor'[i] >= cursor[i]
    BY <1>0, <2>1, <2>2, <2>3 DEF TypeOK
  <2> QED
    BY <2>5, <2>6
<1> QED
  BY <1>2, <1>3 DEF Finish

\* A step that only makes rows younger or, without Punctual, older.
LEMMA AgeInv ==
  ASSUME JobInv, age' \in [Jobs -> 0..StaleAfter + 1], cancelled' \subseteq Threads,
         \A t \in Threads : /\ ClusterMode /\ Punctual /\ pc[t] \in Claimed
                            /\ age[job[t]] <= StaleAfter
                            => age'[job[t]] <= StaleAfter,
         snapshot' \subseteq snapshot,
         UNCHANGED <<status, owner, attempts, cursor, pc, node, job, attempt, seen, nodeVars,
                     inflight, started>>
  PROVE  JobInv'
<1> USE DEF nodeVars
<1>0. /\ TypeOK /\ ThreadInv /\ ClaimInv /\ CursorInv /\ PoisonJobIsBounded /\ ExclusionInv
      /\ RowInv /\ OrderInv
  BY DEF JobInv
<1>1. TypeOK'
  BY <1>0 DEF TypeOK
<1>2. ThreadInv'
  BY <1>0 DEF ThreadInv
<1>3. ClaimInv' /\ CursorInv' /\ PoisonJobIsBounded'
  BY <1>0 DEF ClaimInv, CursorInv, PoisonJobIsBounded, Fence
<1>4. \A u \in Threads : Claiming(u)' => Claiming(u)
  BY DEF Claiming
<1>5. RowInv' /\ OrderInv'
  BY <1>0, <1>4 DEF RowInv, OrderInv, SameKey
<1>6. ExclusionInv'
  BY <1>0, <1>4 DEF ExclusionInv, Fence, SameKey
<1> QED
  BY <1>1, <1>2, <1>3, <1>5, <1>6 DEF JobInv

\* A heartbeat makes the row young, or cancels the job's context.
LEMMA HeartbeatStep ==
  ASSUME JobInv, NEW t \in Threads, Heartbeat(t)
  PROVE  JobInv'
<1>0. TypeOK /\ ThreadInv
  BY DEF JobInv
<1>1. pc[t] # "free" /\ job[t] \in Jobs
  BY <1>0 DEF Heartbeat, ThreadInv
<1>2. age' = age \/ age' = [age EXCEPT ![job[t]] = 0]
  BY DEF Heartbeat
<1>3. age' \in [Jobs -> 0..StaleAfter + 1] /\ cancelled' \subseteq Threads
  BY <1>0, <1>1, <1>2, SidekiqAssumption DEF TypeOK, Heartbeat
<1>4. \A u \in Threads : pc[u] \in Claimed /\ age[job[u]] <= StaleAfter
                         => age'[job[u]] <= StaleAfter
  <2>1. \A u \in Threads : pc[u] \in Claimed => job[u] \in Jobs
    BY <1>0 DEF ThreadInv, Claimed
  <2>2. \A j \in Jobs : age[j] <= StaleAfter => age'[j] <= StaleAfter
    BY <1>0, <1>1, <1>2, SidekiqAssumption DEF TypeOK
  <2> QED
    BY <2>1, <2>2
<1>5. snapshot' \subseteq snapshot
  BY DEF Heartbeat, Overwrites
<1> QED
  BY <1>3, <1>4, <1>5, AgeInv DEF Heartbeat

\* Time passes: a claim that is held stays younger than the stale window.
LEMMA TickStep ==
  ASSUME JobInv, Tick
  PROVE  JobInv'
<1>0. TypeOK /\ ThreadInv /\ ClaimInv /\ ExclusionInv
  BY DEF JobInv
<1>1. age' = [j \in Jobs |-> IF status[j] = "running" /\ age[j] <= StaleAfter
                               THEN age[j] + 1 ELSE age[j]]
  BY DEF Tick
<1>2. age' \in [Jobs -> 0..StaleAfter + 1]
  BY <1>0, <1>1, SidekiqAssumption DEF TypeOK
<1>3. ASSUME NEW t \in Threads, ClusterMode, Punctual, pc[t] \in Claimed
      PROVE  age'[job[t]] <= StaleAfter
  <2>1. Holds(t)
    BY <1>0, <1>3 DEF Holds, ClaimInv, ExclusionInv
  <2>2. job[t] \in Jobs /\ age[job[t]] < StaleAfter
    BY <1>0, <1>3, <2>1 DEF Tick, ThreadInv, Claimed
  <2> QED
    BY <1>0, <1>1, <2>2, SidekiqAssumption DEF TypeOK
<1>4. cancelled' \subseteq Threads
  BY <1>0 DEF Tick, threadVars, TypeOK
<1> QED
  BY <1>2, <1>3, <1>4, AgeInv DEF Tick, threadVars

-----------------------------------------------------------------------------
(* Enqueueing, the dispatcher and the life of a node.                       *)

\* A goroutine is spawned for a job that its node does not work on yet.
LEMMA SpawnInv ==
  ASSUME JobInv, NEW n \in Nodes, NEW j \in Jobs, NEW p \in {"waitSlot", "claim"},
         Spawn(n, j, p),
         up[n] # "down",
         \A u \in Threads : pc[u] # "free" /\ node[u] = n => job[u] # j,
         inflight' = inflight \cup {<<n, j>>},
         status' \in [Jobs -> {"absent", "pending", "running"} \cup Terminal],
         status'[j] # "absent",
         \A i \in Jobs : status[i] # "absent" => status'[i] = status[i],
         \A i \in Jobs : i # j => status'[i] = status[i],
         status'[j] = status[j] \/ status'[j] = "pending",
         \A i \in Jobs : i < j => status[i] # "absent",
         listed' \in [Nodes -> SUBSET Jobs],
         \A m \in Nodes : listed'[m] \subseteq listed[m],
         UNCHANGED <<owner, attempts, age, cursor, snapshot>>,
         UNCHANGED <<up, window, dispatching, stops, started>>
  PROVE  JobInv'
<1>0. /\ TypeOK /\ ThreadInv /\ ClaimInv /\ CursorInv /\ PoisonJobIsBounded /\ ExclusionInv
      /\ RowInv /\ OrderInv
  BY DEF JobInv
<1>1. PICK t \in Threads :
        /\ pc[t] = "free"
        /\ pc' = [pc EXCEPT ![t] = p]
        /\ node' = [node EXCEPT ![t] = n]
        /\ job' = [job EXCEPT ![t] = j]
        /\ UNCHANGED <<attempt, seen, cancelled>>
  BY DEF Spawn
<1>2. TypeOK'
  BY <1>0, <1>1, SMTT(30) DEF TypeOK
<1>3. /\ pc'[t] = p /\ node'[t] = n /\ job'[t] = j
      /\ \A u \in Threads : u # t => pc'[u] = pc[u] /\ node'[u] = node[u] /\ job'[u] = job[u]
  BY <1>0, <1>1 DEF TypeOK
<1>4. \A i \in Jobs : /\ status'[i] = "absent" => status[i] = "absent" /\ i # j
                      /\ status[i] # "absent" => status'[i] = status[i]
  BY <1>0 DEF TypeOK
<1>5. ThreadInv'
  <2>1. ASSUME NEW u \in Threads
        PROVE  IF pc'[u] = "free"
                 THEN node'[u] = NoNode
                 ELSE /\ node'[u] \in Nodes
                      /\ job'[u] \in Jobs
                      /\ <<node'[u], job'[u]>> \in inflight'
                      /\ status'[job'[u]] # "absent"
                      /\ up'[node'[u]] # "down"
    <3>1. CASE u = t
      BY <3>1, <1>3, <1>4
    <3>2. CASE u # t
      BY <3>2, <1>0, <1>3, <1>4 DEF ThreadInv
    <3> QED
      BY <3>1, <3>2
  <2>2. ASSUME NEW u \in Threads, NEW v \in Threads,
               pc'[u] # "free", pc'[v] # "free", node'[u] = node'[v], job'[u] = job'[v]
        PROVE  u = v
    BY <2>2, <1>0, <1>3 DEF ThreadInv
  <2>3. \A m \in Nodes : \A i \in listed'[m] : status'[i] # "absent"
    BY <1>0, <1>2, <1>4 DEF ThreadInv, TypeOK
  <2>4. \A m \in Nodes : up'[m] = "down" => listed'[m] = {}
    BY <1>0 DEF ThreadInv
  <2> QED
    BY <2>1, <2>2, <2>3, <2>4 DEF ThreadInv
<1>6. \A u \in Threads : pc'[u] \in Claimed =>
        /\ u # t /\ pc[u] \in Claimed /\ pc'[u] = pc[u]
        /\ node'[u] = node[u] /\ job'[u] = job[u] /\ job[u] \in Jobs
        /\ Fence(node[u], job[u])' = Fence(node[u], job[u])
  <2> SUFFICES ASSUME NEW u \in Threads, pc'[u] \in Claimed
               PROVE  /\ u # t /\ pc[u] \in Claimed /\ pc'[u] = pc[u]
                      /\ node'[u] = node[u] /\ job'[u] = job[u] /\ job[u] \in Jobs
                      /\ Fence(node[u], job[u])' = Fence(node[u], job[u])
    OBVIOUS
  <2>1. u # t
    BY <1>3 DEF Claimed
  <2>2. /\ pc[u] \in Claimed /\ pc'[u] = pc[u]
        /\ node'[u] = node[u] /\ job'[u] = job[u]
    BY <1>3, <2>1
  <2>3. job[u] \in Jobs /\ status[job[u]] # "absent"
    BY <1>0, <2>2 DEF ThreadInv, Claimed
  <2>4. status'[job[u]] = status[job[u]]
    BY <1>4, <2>3
  <2> QED
    BY <2>1, <2>2, <2>3, <2>4 DEF Fence
<1>7. ClaimInv' /\ CursorInv'
  BY <1>0, <1>1, <1>6 DEF ClaimInv, CursorInv
<1>8. PoisonJobIsBounded'
  BY <1>0 DEF PoisonJobIsBounded
<1>9. RowInv'
  <2>1. ASSUME NEW i \in Jobs, NEW k \in Jobs, i < k, status'[k] # "absent"
        PROVE  status'[i] # "absent"
    <3>1. CASE k = j
      BY <3>1, <2>1, <1>4
    <3>2. CASE k # j
      BY <3>2, <2>1, <1>0, <1>4 DEF RowInv
    <3> QED
      BY <3>1, <3>2
  <2>2. ASSUME NEW i \in Jobs, status'[i] \notin {"absent", "pending"}
        PROVE  attempts'[i] >= 1
    <3>1. status'[i] = status[i]
      BY <2>2
    <3> QED
      BY <3>1, <2>2, <1>0 DEF RowInv
  <2> QED
    BY <2>1, <2>2 DEF RowInv
<1>10. \A u \in Threads : Claiming(u)' => u # t /\ Claiming(u)
  BY <1>0, <1>1, <1>6 DEF Claiming, OrderInv
<1>11. OrderInv'
  <2>1. \A u \in snapshot' : pc'[u] = "update"
    BY <1>0, <1>1, <1>3 DEF OrderInv, TypeOK
  <2> QED
    BY <2>1, <1>0, <1>3, <1>10 DEF OrderInv, SameKey
<1>12. ExclusionInv'
  <2> SUFFICES ASSUME ClusterMode, Punctual
               PROVE  ExclusionInv'
    BY DEF ExclusionInv
  <2>1. \A u \in Threads, v \in snapshot' : pc'[u] \in Claimed => job'[u] # job'[v]
    <3> SUFFICES ASSUME NEW u \in Threads, NEW v \in snapshot', pc'[u] \in Claimed
                 PROVE  job'[u] # job'[v]
      OBVIOUS
    <3>1. v \in Threads /\ Claiming(v)'
      BY <1>2 DEF TypeOK, Claiming
    <3> QED
      BY <3>1, <1>0, <1>3, <1>6, <1>10 DEF ExclusionInv
  <2>2. ASSUME NEW u \in Threads, NEW v \in Threads, pc'[u] \in Claimed, Claiming(v)',
               SameKey(job'[u], job'[v]), job'[u] < job'[v]
        PROVE  attempt'[u] >= 2
    BY <2>2, <1>0, <1>1, <1>3, <1>6, <1>10 DEF ExclusionInv
  <2> QED
    BY <1>0, <1>6, <2>1, <2>2 DEF ExclusionInv, SameKey
<1> QED
  BY <1>2, <1>5, <1>7, <1>8, <1>9, <1>11, <1>12 DEF JobInv

\* A new row, and its goroutine.
LEMMA EnqueueStep ==
  ASSUME JobInv, NEW n \in Nodes, NEW j \in Jobs, Enqueue(n, j)
  PROVE  JobInv'
<1>0. TypeOK /\ ThreadInv
  BY DEF JobInv
<1>1. \A u \in Threads : pc[u] # "free" /\ node[u] = n => job[u] # j
  BY <1>0 DEF Enqueue, ThreadInv
<1>2. listed' \in [Nodes -> SUBSET Jobs] /\ \A m \in Nodes : listed'[m] \subseteq listed[m]
  BY <1>0 DEF Enqueue, nodeVars, TypeOK
<1>3. /\ up[n] # "down" /\ Spawn(n, j, "waitSlot") /\ inflight' = inflight \cup {<<n, j>>}
      /\ UNCHANGED <<owner, attempts, age, cursor, snapshot>>
      /\ UNCHANGED <<up, window, dispatching, stops, started>>
      /\ \A i \in Jobs : i < j => status[i] # "absent"
  BY DEF Enqueue, nodeVars
<1>4. /\ status' \in [Jobs -> {"absent", "pending", "running"} \cup Terminal]
      /\ status'[j] = "pending"
      /\ \A i \in Jobs : status[i] # "absent" => status'[i] = status[i]
      /\ \A i \in Jobs : i # j => status'[i] = status[i]
  BY <1>0 DEF Enqueue, TypeOK
<1> QED
  BY <1>1, <1>2, <1>3, <1>4, SpawnInv

\* A step of a runner that touches neither rows nor goroutines.
LEMMA NodeInv ==
  ASSUME JobInv,
         UNCHANGED <<rowVars, threadVars, inflight, started>>,
         up' \in [Nodes -> {"up", "stopping", "down"}],
         window' \in [Nodes -> {0, StaleAfter}],
         dispatching' \subseteq Nodes, listed' \in [Nodes -> SUBSET Jobs], stops' \in Nat,
         \A n \in Nodes : \A j \in listed'[n] : status[j] # "absent",
         \A n \in Nodes : up'[n] = "down" => listed'[n] = {},
         \A t \in Threads : pc[t] # "free" => up'[node[t]] # "down",
         ClusterMode => \A n \in Nodes : \/ window'[n] = StaleAfter
                                         \/ window'[n] = window[n] /\ up[n] # "down"
                                         \/ up'[n] = "down"
  PROVE  JobInv'
<1> USE DEF rowVars, threadVars
<1>0. /\ TypeOK /\ ThreadInv /\ ClaimInv /\ CursorInv /\ PoisonJobIsBounded /\ ExclusionInv
      /\ RowInv /\ OrderInv
  BY DEF JobInv
<1>1. TypeOK'
  BY <1>0 DEF TypeOK
<1>2. ThreadInv'
  BY <1>0 DEF ThreadInv
<1>3. ClaimInv' /\ CursorInv' /\ PoisonJobIsBounded'
  BY <1>0 DEF ClaimInv, CursorInv, PoisonJobIsBounded, Fence
<1>4. RowInv' /\ OrderInv'
  BY <1>0 DEF RowInv, OrderInv, Claiming, SameKey
<1>5. ExclusionInv'
  BY <1>0 DEF ExclusionInv, Claiming, Fence, SameKey
<1> QED
  BY <1>1, <1>2, <1>3, <1>4, <1>5 DEF JobInv

\* The dispatcher's list and the goroutines it starts.
LEMMA DispatchSteps ==
  ASSUME JobInv, NEW n \in Nodes, Dispatch(n)
  PROVE  JobInv'
<1>0. TypeOK /\ ThreadInv /\ ExclusionInv /\ RowInv
  BY DEF JobInv
<1>1. CASE DispatchList(n)
  <2>1. /\ listed' = [listed EXCEPT ![n] = {j \in Jobs : Claimable(n, j)}]
        /\ up[n] = "up"
        /\ UNCHANGED <<rowVars, threadVars, up, window, dispatching, stops, inflight, started>>
    BY <1>1 DEF DispatchList
  <2>2. \A j \in Jobs : Claimable(n, j) => status[j] # "absent"
    BY DEF Claimable, Stale
  <2>3. listed' \in [Nodes -> SUBSET Jobs]
    BY <1>0, <2>1 DEF TypeOK
  <2>4. \A m \in Nodes : \A j \in listed'[m] : status[j] # "absent"
    BY <1>0, <2>1, <2>2 DEF TypeOK, ThreadInv
  <2>5. \A m \in Nodes : up'[m] = "down" => listed'[m] = {}
    BY <1>0, <2>1 DEF TypeOK, ThreadInv
  <2>6. \A t \in Threads : pc[t] # "free" => up'[node[t]] # "down"
    BY <1>0, <2>1 DEF ThreadInv
  <2> QED
    BY <1>0, <2>1, <2>3, <2>4, <2>5, <2>6, NodeInv DEF TypeOK
<1>2. CASE DispatchNext(n)
  <2>1. PICK j \in listed[n] :
          /\ \/ /\ j \notin Handled[n] \/ Inflight(n, j)
                /\ listed' = [listed EXCEPT ![n] = @ \ {j}]
                /\ UNCHANGED <<threadVars, inflight>>
             \/ /\ ~Inflight(n, j)
                /\ inflight' = inflight \cup {<<n, j>>}
                /\ Spawn(n, j, "claim")
                /\ listed' = [listed EXCEPT ![n] = @ \ {j}]
             \/ /\ listed' = [listed EXCEPT ![n] = {}]
                /\ UNCHANGED <<threadVars, inflight>>
          /\ UNCHANGED <<rowVars, up, window, dispatching, stops, started>>
    BY <1>2 DEF DispatchNext
  <2>2. j \in Jobs /\ status[j] # "absent" /\ up[n] # "down"
    BY <1>0 DEF TypeOK, ThreadInv
  <2>3. listed' \in [Nodes -> SUBSET Jobs] /\ \A m \in Nodes : listed'[m] \subseteq listed[m]
    BY <1>0, <2>1 DEF TypeOK
  <2>4. CASE UNCHANGED <<threadVars, inflight>>
    <3>1. \A m \in Nodes : \A i \in listed'[m] : status[i] # "absent"
      BY <1>0, <2>3 DEF ThreadInv
    <3>2. \A m \in Nodes : up'[m] = "down" => listed'[m] = {}
      BY <1>0, <2>1, <2>3 DEF ThreadInv
    <3>3. \A t \in Threads : pc[t] # "free" => up'[node[t]] # "down"
      BY <1>0, <2>1 DEF ThreadInv
    <3> QED
      BY <1>0, <2>1, <2>3, <2>4, <3>1, <3>2, <3>3, NodeInv DEF TypeOK
  <2>5. CASE ~Inflight(n, j) /\ inflight' = inflight \cup {<<n, j>>} /\ Spawn(n, j, "claim")
    <3>1. \A u \in Threads : pc[u] # "free" /\ node[u] = n => job[u] # j
      BY <1>0, <2>5 DEF ThreadInv, Inflight
    <3>2. /\ status' \in [Jobs -> {"absent", "pending", "running"} \cup Terminal]
          /\ status'[j] # "absent"
          /\ \A i \in Jobs : status'[i] = status[i]
          /\ \A i \in Jobs : i < j => status[i] # "absent"
      BY <1>0, <2>1, <2>2 DEF TypeOK, RowInv, rowVars
    <3> QED
      BY <2>1, <2>2, <2>3, <2>5, <3>1, <3>2, SpawnInv DEF rowVars
  <2> QED
    BY <2>1, <2>4, <2>5
<1> QED
  BY <1>1, <1>2 DEF Dispatch

\* Starting a runner and its dispatcher, and shutting it down.
LEMMA BootSteps ==
  ASSUME JobInv, NEW n \in Nodes, Boot(n) \/ Shutdown(n)
  PROVE  JobInv'
<1>0. TypeOK /\ ThreadInv /\ ExclusionInv
  BY DEF JobInv
<1>1. UNCHANGED <<rowVars, threadVars, inflight, started, listed>>
  BY DEF Boot, Start, StartDispatcher, ShutdownDone, Shutdown
<1>2. /\ up' \in [Nodes -> {"up", "stopping", "down"}]
      /\ window' \in [Nodes -> {0, StaleAfter}]
      /\ dispatching' \subseteq Nodes /\ listed' \in [Nodes -> SUBSET Jobs] /\ stops' \in Nat
  BY <1>0, <1>1 DEF TypeOK, Boot, Start, StartDispatcher, ShutdownDone, Shutdown
<1>3. \A m \in Nodes : \A j \in listed'[m] : status[j] # "absent"
  BY <1>0, <1>1 DEF ThreadInv
<1>4. \A m \in Nodes : up'[m] = "down" => listed'[m] = {}
  BY <1>0, <1>1 DEF ThreadInv, TypeOK, Boot, Start, StartDispatcher, ShutdownDone, Shutdown
<1>5. \A t \in Threads : pc[t] # "free" => up'[node[t]] # "down"
  BY <1>0 DEF ThreadInv, TypeOK, Boot, Start, StartDispatcher, ShutdownDone, Shutdown
<1>6. ClusterMode => \A m \in Nodes : \/ window'[m] = StaleAfter
                                      \/ window'[m] = window[m] /\ up[m] # "down"
                                      \/ up'[m] = "down"
  BY <1>0 DEF TypeOK, Boot, Start, StartDispatcher, ShutdownDone, Shutdown
<1> QED
  BY <1>1, <1>2, <1>3, <1>4, <1>5, <1>6, NodeInv

\* A crash takes all the goroutines of its node and leaves the others as they were.
LEMMA CrashStep ==
  ASSUME JobInv, NEW n \in Nodes, Crash(n)
  PROVE  JobInv'
<1> DEFINE dead == {t \in Threads : node[t] = n}
<1>0. /\ TypeOK /\ ThreadInv /\ ClaimInv /\ CursorInv /\ PoisonJobIsBounded /\ ExclusionInv
      /\ RowInv /\ OrderInv
  BY DEF JobInv
<1>1. /\ stops' = stops + 1
      /\ up' = [up EXCEPT ![n] = "down"]
      /\ dispatching' = dispatching \ {n}
      /\ listed' = [listed EXCEPT ![n] = {}]
      /\ inflight' = {x \in inflight : x[1] # n}
      /\ pc' = [t \in Threads |-> IF t \in dead THEN "free" ELSE pc[t]]
      /\ node' = [t \in Threads |-> IF t \in dead THEN NoNode ELSE node[t]]
      /\ job' = [t \in Threads |-> IF t \in dead THEN 0 ELSE job[t]]
      /\ attempt' = [t \in Threads |-> IF t \in dead THEN 0 ELSE attempt[t]]
      /\ seen' = [t \in Threads |-> IF t \in dead THEN 0 ELSE seen[t]]
      /\ cancelled' = cancelled \ dead
      /\ snapshot' = snapshot \ dead
      /\ UNCHANGED <<status, owner, attempts, age, cursor, window, started>>
  BY DEF Crash
<1>2. TypeOK'
  BY <1>0, <1>1, SMTT(30) DEF TypeOK
<1>3. \A t \in Threads :
        /\ t \in dead => pc'[t] = "free" /\ node'[t] = NoNode
        /\ t \notin dead => /\ pc'[t] = pc[t] /\ node'[t] = node[t] /\ job'[t] = job[t]
                            /\ attempt'[t] = attempt[t] /\ seen'[t] = seen[t]
                            /\ node[t] # n
  BY <1>1
<1>4. \A m \in Nodes : /\ m # n => up'[m] = up[m] /\ listed'[m] = listed[m]
                       /\ m = n => up'[m] = "down" /\ listed'[m] = {}
  BY <1>0, <1>1 DEF TypeOK
<1>5. \A m \in Nodes, j \in Jobs : m # n /\ <<m, j>> \in inflight => <<m, j>> \in inflight'
  BY <1>1
<1> HIDE DEF dead
<1>6. ThreadInv'
  BY <1>0, <1>1, <1>3, <1>4, <1>5, SMTT(30) DEF ThreadInv
<1>7. \A t \in Threads : pc'[t] \in Claimed =>
        /\ t \notin dead /\ pc[t] \in Claimed
        /\ Fence(node[t], job[t])' = Fence(node[t], job[t])
  BY <1>1, <1>3 DEF Fence, Claimed
<1>8. ClaimInv' /\ CursorInv'
  BY <1>0, <1>1, <1>3, <1>7 DEF ClaimInv, CursorInv
<1>9. PoisonJobIsBounded'
  BY <1>0, <1>1 DEF PoisonJobIsBounded
<1>10. \A t \in Threads : Claiming(t)' => t \notin dead /\ Claiming(t)
  BY <1>1, <1>7 DEF Claiming
<1>11. RowInv' /\ OrderInv'
  <2>1. \A t \in snapshot' : pc'[t] = "update"
    BY <1>0, <1>1, <1>3 DEF OrderInv, TypeOK
  <2> QED
    BY <2>1, <1>0, <1>1, <1>3, <1>10 DEF RowInv, OrderInv, SameKey
<1>12. ExclusionInv'
  <2> SUFFICES ASSUME ClusterMode, Punctual
               PROVE  ExclusionInv'
    BY DEF ExclusionInv
  <2>1. \A t \in Threads, u \in snapshot' : pc'[t] \in Claimed => job'[t] # job'[u]
    BY <1>0, <1>1, <1>3, <1>7 DEF ExclusionInv, TypeOK
  <2>2. ASSUME NEW t \in Threads, NEW u \in Threads, pc'[t] \in Claimed, Claiming(u)',
               SameKey(job'[t], job'[u]), job'[t] < job'[u]
        PROVE  attempt'[t] >= 2
    BY <2>2, <1>0, <1>3, <1>7, <1>10 DEF ExclusionInv
  <2>3. \A m \in Nodes : up'[m] # "down" => window'[m] = StaleAfter
    BY <1>0, <1>1, <1>4 DEF ExclusionInv
  <2>4. \A t \in Threads : pc'[t] \in Claimed =>
          Fence(node[t], job[t])' /\ age'[job'[t]] <= StaleAfter
    BY <1>0, <1>1, <1>3, <1>7 DEF ExclusionInv
  <2> QED
    BY <2>1, <2>2, <2>3, <2>4 DEF ExclusionInv, SameKey
<1> QED
  BY <1>2, <1>6, <1>8, <1>9, <1>11, <1>12 DEF JobInv

-----------------------------------------------------------------------------
(* The theorems.                                                            *)

\* Every step keeps the invariant.
LEMMA NextJobInv == JobInv /\ [Next]_vars => JobInv'
<1> SUFFICES ASSUME JobInv, [Next]_vars PROVE JobInv'
  OBVIOUS
<1>1. ASSUME NEW t \in Threads, ThreadStep(t) \/ Heartbeat(t) PROVE JobInv'
  BY <1>1, WaitingSteps, ClaimReadSteps, ClaimWriteSteps, FetchSteps, ProgressSteps,
     FinishSteps, HeartbeatStep DEF ThreadStep
<1>2. ASSUME NEW n \in Nodes, NEW j \in Jobs, Enqueue(n, j) PROVE JobInv'
  BY <1>2, EnqueueStep
<1>3. ASSUME NEW n \in Nodes, Dispatch(n) \/ Boot(n) \/ Shutdown(n) \/ Crash(n) PROVE JobInv'
  BY <1>3, DispatchSteps, BootSteps, CrashStep
<1>4. CASE Tick
  BY <1>4, TickStep
<1>5. CASE UNCHANGED vars
  BY <1>5 DEF vars, rowVars, threadVars, nodeVars, JobInv, TypeOK, ThreadInv, ClaimInv,
     CursorInv, PoisonJobIsBounded, RowInv, OrderInv, ExclusionInv, Claiming, Fence, SameKey
<1> QED
  BY <1>1, <1>2, <1>3, <1>4, <1>5 DEF Next

\* The inductive invariant of the runners and the job table (sidekiq.go) holds.
THEOREM JobInvariance == Spec => []JobInv
  BY InitJobInv, NextJobInv, PTL DEF Spec

\* Rows, goroutines and runners have their types.
THEOREM SidekiqTypes == Spec => []TypeOK
<1>1. JobInv => TypeOK
  BY DEF JobInv
<1> QED
  BY <1>1, JobInvariance, PTL

\* The fence on runner_id, which holds no claim number, still admits only the
\* goroutine of the latest claim.
THEOREM FencingIsSound == Spec => []FenceAdmitsLatestClaim
<1>1. JobInv => FenceAdmitsLatestClaim
  BY DEF JobInv, ClaimInv, FenceAdmitsLatestClaim
<1> QED
  BY <1>1, JobInvariance, PTL

\* However often nodes crash, a job's handler is called for less than MaxAttempts
\* claims.
THEOREM AttemptsAreBounded == Spec => []PoisonJobIsBounded
<1>1. JobInv => PoisonJobIsBounded
  BY DEF JobInv
<1> QED
  BY <1>1, JobInvariance, PTL

\* No step moves a job's checkpoint back.
THEOREM CheckpointMonotonicity == Spec => CheckpointsNeverRegress
<1>1. JobInv /\ [Next]_vars => [\A j \in Jobs : cursor'[j] >= cursor[j]]_vars
  <2> SUFFICES ASSUME JobInv, Next PROVE \A j \in Jobs : cursor'[j] >= cursor[j]
    OBVIOUS
  <2>0. TypeOK
    BY DEF JobInv
  <2>1. CASE UNCHANGED cursor
    BY <2>0, <2>1 DEF TypeOK
  <2>2. ASSUME NEW t \in Threads, Progress(t) \/ Finish(t)
        PROVE  \A j \in Jobs : cursor'[j] >= cursor[j]
    BY <2>2, ProgressSteps, FinishSteps
  <2>3. ASSUME NEW t \in Threads, ThreadStep(t) \/ Heartbeat(t), ~Progress(t), ~Finish(t)
        PROVE  UNCHANGED cursor
    BY <2>3 DEF ThreadStep, Heartbeat, AcquireSlot, LeaveQueue, ClaimRead, ClaimWrite,
       ClaimRow, Fetch, HandlerReturn, rowVars
  <2>4. ASSUME NEW n \in Nodes, NEW j \in Jobs, Enqueue(n, j)
        PROVE  UNCHANGED cursor
    BY <2>4 DEF Enqueue
  <2>5. ASSUME NEW n \in Nodes, Dispatch(n) \/ Boot(n) \/ Shutdown(n) \/ Crash(n)
        PROVE  UNCHANGED cursor
    BY <2>5 DEF Dispatch, DispatchList, DispatchNext, Boot, Start, StartDispatcher,
       ShutdownDone, Shutdown, Crash, rowVars
  <2>6. Tick => UNCHANGED cursor
    BY DEF Tick
  <2> QED
    BY <2>1, <2>2, <2>3, <2>4, <2>5, <2>6 DEF Next
<1> QED
  BY <1>1, JobInvariance, PTL DEF Spec, CheckpointsNeverRegress

\* With node ids and heartbeats in time, a job has one running handler in the cluster.
THEOREM JobExclusion ==
  ASSUME ClusterMode, Punctual
  PROVE  Spec => []OneHandlerPerJob
<1>1. JobInv => OneHandlerPerJob
  BY DEF JobInv, ExclusionInv, ThreadInv, OneHandlerPerJob, Claimed, Fence
<1> QED
  BY <1>1, JobInvariance, PTL

\* With node ids and heartbeats in time, handlers of one partitioning key overlap only
\* where the older job's was started again.
THEOREM OverlapNeedsResume ==
  ASSUME ClusterMode, Punctual
  PROVE  Spec => []OverlapOnlyOnResume
<1>1. JobInv => OverlapOnlyOnResume
  BY DEF JobInv, ExclusionInv, OverlapOnlyOnResume, Claiming, Claimed
<1> QED
  BY <1>1, JobInvariance, PTL
=============================================================================
