------------------------ MODULE ProjectionOutboxProofs ------------------------
(***************************************************************************)
(* Proofs about ProjectionOutbox for any rows, workers, batch size, budget *)
(* and number of failures: the invariants of the outbox, the fence around  *)
(* settled rows, and that the pipeline implements ProjectionDelivery.      *)
(*                                                                         *)
(* The inductive invariant is IInv.  DeliveredIsIndexed alone is not       *)
(* inductive: a worker marks a row delivered because of a result it        *)
(* remembers, so the proof needs that a remembered "ok" is about the head  *)
(* of its batch.  RetryBudgetKept is not inductive either: a worker        *)
(* decides with the attempts it read at lease time, so the proof needs     *)
(* that this copy is current for as long as the row carries its token.     *)
(***************************************************************************)
EXTENDS ProjectionOutbox, TLAPS

\* An empty outbox satisfies the inductive invariant.
LEMMA InitIInv == Init => IInv
  BY OutboxAssumption, SMTT(30)
  DEF Init, IInv, TypeOK, Status, Outcome, DeliveredIsIndexed,
      DeadIffOpenDeadLetter, RetryBudgetKept, CopyIsCurrent, HoldsLease,
      OutcomeIsOfHead, OnlyCommittedHandled

-------------------------------------------------------------------------------
(* The row being settled.                                                  *)

\* What a worker's bookkeeping does to the row it holds, and that it does nothing
\* to the others.
LEMMA BookkeepEffect ==
  ASSUME IInv, NEW w \in Workers, NEW row \in batch[w], IsHead(w, row),
         HoldsLease(w, row), outcome[w] # "none", Bookkeep(w, row)
  PROVE  /\ status' \in [Rows -> Status]
         /\ holder' \in [Rows -> Workers \union {NoWorker}]
         /\ locked' \in [Rows -> BOOLEAN]
         /\ available' \in [Rows -> BOOLEAN]
         /\ windowOpen' = windowOpen
         /\ attempts' \in [Rows -> 0..MaxAttempts]
         /\ dlq' \in [Rows -> {"none", "open", "replayed"}]
         /\ \A r \in Rows \ {row} :
               /\ status'[r] = status[r] /\ holder'[r] = holder[r]
               /\ attempts'[r] = attempts[r] /\ dlq'[r] = dlq[r]
         /\ status'[row] \in {"delivered", "pending", "dead"}
         /\ status'[row] = "delivered" => index[AggregateOf[row]] >= VersionOf[row]
         /\ status'[row] = "dead" <=> dlq'[row] = "open"
         /\ status'[row] = "pending" => attempts'[row] < MaxAttempts
<1>1. row \in Rows /\ status[row] = "processing" /\ dlq[row] # "open"
  BY DEF IInv, TypeOK, HoldsLease, DeadIffOpenDeadLetter
<1>2. attempts[row] \in 0..(MaxAttempts - 1) /\ copied[w][row] = attempts[row]
  BY <1>1, OutboxAssumption DEF IInv, TypeOK, RetryBudgetKept, CopyIsCurrent
<1>3. CASE outcome[w] = "ok"
  <2>1. MarkDelivered(row)
    BY <1>3 DEF Bookkeep
  <2>2. index[AggregateOf[row]] >= VersionOf[row]
    BY <1>3 DEF IInv, OutcomeIsOfHead
  <2> QED
    BY <1>1, <2>1, <2>2, OutboxAssumption DEF MarkDelivered, Release, IInv, TypeOK, Status
<1>4. CASE outcome[w] # "ok" /\ MoveToDLQ(row)
  BY <1>1, <1>2, <1>4, OutboxAssumption DEF MoveToDLQ, Release, IInv, TypeOK, Status
<1>5. CASE outcome[w] # "ok" /\ ~MoveToDLQ(row)
  <2>1. MarkRetry(row) /\ copied[w][row] + 1 < MaxAttempts
    BY <1>2, <1>5, OutboxAssumption DEF Bookkeep
  <2> QED
    BY <1>1, <1>2, <2>1, OutboxAssumption DEF MarkRetry, Release, IInv, TypeOK, Status
<1> QED
  BY <1>3, <1>4, <1>5

\* The index never shows an older version than before, and still shows a version.
LEMMA IndexGrows ==
  ASSUME IInv, NEW row \in Rows, IndexDocumentVersion(row)
  PROVE  /\ index' \in [Aggregates -> Nat]
         /\ \A a \in Aggregates : index'[a] >= index[a]
         /\ index'[AggregateOf[row]] >= VersionOf[row]
  BY OutboxAssumption DEF IndexDocumentVersion, IInv, TypeOK

\* A worker that settles the head of its batch, with or without the lease, and
\* forgets the row and its outcome keeps the invariant.
LEMMA SettledHead ==
  ASSUME IInv, NEW w \in Workers, NEW row \in batch[w], IsHead(w, row),
         outcome[w] # "none",
         (HoldsLease(w, row) /\ Bookkeep(w, row)) \/ UNCHANGED rowVars,
         NEW rest \in SUBSET (batch[w] \ {row}),
         batch' = [batch EXCEPT ![w] = rest],
         outcome' = [outcome EXCEPT ![w] = "none"],
         disruptions' \in 0..MaxDisruptions,
         UNCHANGED <<copied, index, inflight, replays>>
  PROVE  IInv'
<1> USE OutboxAssumption
<1>1. row \in Rows /\ status[row] # "absent"
  BY DEF IInv, TypeOK, OnlyCommittedHandled
<1>2. /\ status' \in [Rows -> Status]
      /\ holder' \in [Rows -> Workers \union {NoWorker}]
      /\ locked' \in [Rows -> BOOLEAN]
      /\ available' \in [Rows -> BOOLEAN]
      /\ windowOpen' \in [Rows -> BOOLEAN]
      /\ attempts' \in [Rows -> 0..MaxAttempts]
      /\ dlq' \in [Rows -> {"none", "open", "replayed"}]
  BY BookkeepEffect DEF IInv, TypeOK, rowVars
<1>3. \A r \in Rows :
         \/ /\ status'[r] = status[r] /\ holder'[r] = holder[r]
            /\ attempts'[r] = attempts[r] /\ dlq'[r] = dlq[r]
         \/ /\ r = row
            /\ status'[r] \in {"delivered", "pending", "dead"}
            /\ status'[r] = "delivered" => index[AggregateOf[r]] >= VersionOf[r]
            /\ status'[r] = "dead" <=> dlq'[r] = "open"
            /\ status'[r] = "pending" => attempts'[r] < MaxAttempts
  BY <1>1, BookkeepEffect DEF rowVars
<1>4. /\ batch' \in [Workers -> SUBSET Rows]
      /\ outcome' \in [Workers -> Outcome]
      /\ \A v \in Workers : batch'[v] \subseteq batch[v]
      /\ \A v \in Workers \ {w} : batch'[v] = batch[v] /\ outcome'[v] = outcome[v]
      /\ outcome'[w] = "none"
  BY DEF IInv, TypeOK, Outcome
<1>5. TypeOK'
  BY <1>2, <1>4 DEF IInv, TypeOK
<1>6. DeliveredIsIndexed'
  BY <1>3 DEF IInv, DeliveredIsIndexed
<1>7. DeadIffOpenDeadLetter'
  BY <1>3 DEF IInv, DeadIffOpenDeadLetter
<1>8. RetryBudgetKept'
  BY <1>3 DEF IInv, RetryBudgetKept
<1>9. CopyIsCurrent'
  BY <1>3, <1>4 DEF IInv, CopyIsCurrent, HoldsLease
<1>10. OutcomeIsOfHead'
  BY <1>4 DEF IInv, OutcomeIsOfHead, IsHead
<1>11. OnlyCommittedHandled'
  BY <1>1, <1>3, <1>4 DEF IInv, OnlyCommittedHandled
<1> QED
  BY <1>5, <1>6, <1>7, <1>8, <1>9, <1>10, <1>11 DEF IInv

-------------------------------------------------------------------------------
(* The inductive invariant.                                                *)

\* Every step of a worker, a producer, an operator, the index or a clock keeps the
\* inductive invariant.
LEMMA NextIInv ==
  ASSUME IInv, [Next]_vars
  PROVE  IInv'
<1> USE OutboxAssumption
<1>1. ASSUME NEW row \in Rows, AppendProjection(row) PROVE IInv'
  <2>1. /\ status' \in [Rows -> Status]
        /\ status'[row] = "pending"
        /\ \A r \in Rows \ {row} : status'[r] = status[r]
    BY <1>1 DEF AppendProjection, IInv, TypeOK, Status
  <2>2. UNCHANGED <<holder, locked, available, windowOpen, attempts, dlq, index,
                    inflight, batch, copied, outcome, disruptions, replays>>
    BY <1>1 DEF AppendProjection, sinkVars, workerVars, budgetVars
  <2>3. status[row] = "absent" /\ dlq[row] # "open" /\ attempts[row] < MaxAttempts
    BY <1>1 DEF AppendProjection, IInv, DeadIffOpenDeadLetter, OnlyCommittedHandled
  <2> QED
    BY <2>1, <2>2, <2>3
    DEF IInv, TypeOK, DeliveredIsIndexed, DeadIffOpenDeadLetter, RetryBudgetKept,
        CopyIsCurrent, HoldsLease, OutcomeIsOfHead, IsHead, OnlyCommittedHandled
<1>2. ASSUME NEW w \in Workers, Lease(w) PROVE IInv'
  BY <1>2, SMTT(30)
  DEF Lease, IsBatch, Leasable, rowVars, sinkVars, workerVars, budgetVars,
      IInv, TypeOK, DeliveredIsIndexed, DeadIffOpenDeadLetter, RetryBudgetKept,
          CopyIsCurrent, HoldsLease, OutcomeIsOfHead, IsHead, OnlyCommittedHandled, Status, Outcome
<1>3. ASSUME NEW w \in Workers, Project(w) PROVE IInv'
  <2>1. PICK row \in batch[w] :
          /\ IsHead(w, row)
          /\ \/ IndexDocumentVersion(row) /\ outcome' = [outcome EXCEPT ![w] = "ok"]
                /\ UNCHANGED inflight
             \/ IndexDocumentVersion(row) /\ outcome' = [outcome EXCEPT ![w] = "transient"]
                /\ UNCHANGED inflight
             \/ UNCHANGED index /\ outcome' = [outcome EXCEPT ![w] = "transient"]
                /\ inflight' \in {inflight, inflight \union {row}}
             \/ UNCHANGED <<index, inflight>> /\ outcome' = [outcome EXCEPT ![w] = "permanent"]
    BY <1>3 DEF Project, sinkVars
  <2>2. row \in Rows /\ status[row] # "absent"
    BY DEF IInv, TypeOK, OnlyCommittedHandled
  <2>3. UNCHANGED <<rowVars, batch, copied, budgetVars>>
    BY <1>3 DEF Project
  <2>4. /\ index' \in [Aggregates -> Nat]
        /\ \A a \in Aggregates : index'[a] >= index[a]
        /\ outcome'[w] = "ok" => index'[AggregateOf[row]] >= VersionOf[row]
    <3>1. CASE IndexDocumentVersion(row)
      BY <2>2, <3>1, IndexGrows
    <3>2. CASE UNCHANGED index /\ outcome'[w] # "ok"
      BY <3>2 DEF IInv, TypeOK
    <3> QED
      BY <2>1, <3>1, <3>2 DEF IInv, TypeOK
  <2>5. /\ outcome' \in [Workers -> Outcome]
        /\ \A v \in Workers \ {w} : outcome'[v] = outcome[v]
        /\ inflight' \in SUBSET Rows
        /\ \A r \in Rows : status[r] = "absent" => r \notin inflight'
    BY <2>1, <2>2 DEF IInv, TypeOK, Outcome, OnlyCommittedHandled
  <2>6. TypeOK'
    BY <2>3, <2>4, <2>5 DEF IInv, TypeOK, rowVars, budgetVars
  <2>7. DeliveredIsIndexed'
    <3> SUFFICES ASSUME NEW r \in Rows, status[r] = "delivered"
                 PROVE  index'[AggregateOf[r]] >= VersionOf[r]
      BY <2>3 DEF DeliveredIsIndexed, rowVars
    <3>1. /\ AggregateOf[r] \in Aggregates
          /\ VersionOf[r] \in Nat
          /\ index[AggregateOf[r]] \in Nat /\ index'[AggregateOf[r]] \in Nat
      BY <2>4 DEF IInv, TypeOK
    <3>2. index[AggregateOf[r]] >= VersionOf[r]
      BY DEF IInv, DeliveredIsIndexed
    <3>3. index'[AggregateOf[r]] >= index[AggregateOf[r]]
      BY <2>4, <3>1
    <3> QED
      BY <3>1, <3>2, <3>3
  <2>8. OutcomeIsOfHead'
    <3> SUFFICES ASSUME NEW v \in Workers
                 PROVE  /\ batch[v] = {} => outcome'[v] = "none"
                        /\ outcome'[v] = "ok" =>
                              \A r \in batch[v] : IsHead(v, r)
                                => index'[AggregateOf[r]] >= VersionOf[r]
      BY <2>3 DEF OutcomeIsOfHead, IsHead
    <3>1. CASE v = w
      <4>1. ASSUME NEW r \in batch[w], IsHead(w, r) PROVE r = row
        BY <2>1, <2>2, <4>1 DEF IsHead, IInv, TypeOK
      <4> QED
        BY <2>4, <3>1, <4>1
    <3>2. CASE v # w
      <4>1. \A r \in batch[v] : AggregateOf[r] \in Aggregates /\ VersionOf[r] \in Nat
        BY DEF IInv, TypeOK
      <4> QED
        BY <2>4, <2>5, <3>2, <4>1 DEF IInv, TypeOK, OutcomeIsOfHead
    <3> QED
      BY <3>1, <3>2
  <2> QED
    BY <2>3, <2>5, <2>6, <2>7, <2>8
    DEF IInv, DeadIffOpenDeadLetter, RetryBudgetKept, CopyIsCurrent, HoldsLease,
        OnlyCommittedHandled, rowVars
<1>4. ASSUME NEW w \in Workers, Settle(w) PROVE IInv'
  <2>1. PICK row \in batch[w] :
          /\ IsHead(w, row)
          /\ (HoldsLease(w, row) /\ Bookkeep(w, row)) \/ UNCHANGED rowVars
          /\ batch' = [batch EXCEPT ![w] = @ \ {row}]
    BY <1>4 DEF Settle
  <2> QED
    BY <1>4, <2>1, SettledHead DEF Settle, sinkVars, budgetVars, IInv, TypeOK
<1>5. ASSUME NEW w \in Workers, SettleFails(w) PROVE IInv'
  <2>1. PICK row \in batch[w] :
          /\ IsHead(w, row)
          /\ (HoldsLease(w, row) /\ Bookkeep(w, row)) \/ UNCHANGED rowVars
    BY <1>5 DEF SettleFails
  <2>2. {} \in SUBSET (batch[w] \ {row}) /\ disruptions' \in 0..MaxDisruptions
    BY <1>5 DEF SettleFails, IInv, TypeOK
  <2> QED
    BY <1>5, <2>1, <2>2, SettledHead DEF SettleFails, sinkVars
<1>6. ASSUME NEW w \in Workers, Crash(w) PROVE IInv'
  BY <1>6, SMTT(30)
  DEF Crash, rowVars, sinkVars, workerVars, budgetVars,
      IInv, TypeOK, DeliveredIsIndexed, DeadIffOpenDeadLetter, RetryBudgetKept,
          CopyIsCurrent, HoldsLease, OutcomeIsOfHead, IsHead, OnlyCommittedHandled, Status, Outcome
<1>7. ASSUME NEW row \in Rows, ReplayProjectionDLQ(row) PROVE IInv'
  BY <1>7, SMTT(30)
  DEF ReplayProjectionDLQ, Release, rowVars, sinkVars, workerVars, budgetVars,
      IInv, TypeOK, DeliveredIsIndexed, DeadIffOpenDeadLetter, RetryBudgetKept,
          CopyIsCurrent, HoldsLease, OutcomeIsOfHead, IsHead, OnlyCommittedHandled, Status, Outcome
<1>8. ASSUME NEW row \in Rows, LateWrite(row) PROVE IInv'
  BY <1>8, IndexGrows, SMTT(30)
  DEF LateWrite, rowVars, sinkVars, workerVars, budgetVars,
      IInv, TypeOK, DeliveredIsIndexed, DeadIffOpenDeadLetter, RetryBudgetKept,
          CopyIsCurrent, HoldsLease, OutcomeIsOfHead, IsHead, OnlyCommittedHandled, Status, Outcome
<1>9. ASSUME NEW row \in Rows, LockExpires(row) PROVE IInv'
  BY <1>9, SMTT(30)
  DEF LockExpires, rowVars, sinkVars, workerVars, budgetVars,
      IInv, TypeOK, DeliveredIsIndexed, DeadIffOpenDeadLetter, RetryBudgetKept,
          CopyIsCurrent, HoldsLease, OutcomeIsOfHead, IsHead, OnlyCommittedHandled, Status, Outcome
<1>10. ASSUME NEW row \in Rows, LockLost(row) PROVE IInv'
  BY <1>10, SMTT(30)
  DEF LockLost, rowVars, sinkVars, workerVars, budgetVars,
      IInv, TypeOK, DeliveredIsIndexed, DeadIffOpenDeadLetter, RetryBudgetKept,
          CopyIsCurrent, HoldsLease, OutcomeIsOfHead, IsHead, OnlyCommittedHandled, Status, Outcome
<1>11. ASSUME NEW row \in Rows, RetryDelayPasses(row) PROVE IInv'
  BY <1>11, SMTT(30)
  DEF RetryDelayPasses, rowVars, sinkVars, workerVars, budgetVars,
      IInv, TypeOK, DeliveredIsIndexed, DeadIffOpenDeadLetter, RetryBudgetKept,
          CopyIsCurrent, HoldsLease, OutcomeIsOfHead, IsHead, OnlyCommittedHandled, Status, Outcome
<1>12. ASSUME NEW row \in Rows, RetryWindowCloses(row) PROVE IInv'
  BY <1>12, SMTT(30)
  DEF RetryWindowCloses, rowVars, sinkVars, workerVars, budgetVars,
      IInv, TypeOK, DeliveredIsIndexed, DeadIffOpenDeadLetter, RetryBudgetKept,
          CopyIsCurrent, HoldsLease, OutcomeIsOfHead, IsHead, OnlyCommittedHandled, Status, Outcome
<1>13. ASSUME UNCHANGED vars PROVE IInv'
  BY <1>13, SMTT(30)
  DEF vars, rowVars, sinkVars, workerVars, budgetVars,
      IInv, TypeOK, DeliveredIsIndexed, DeadIffOpenDeadLetter, RetryBudgetKept,
          CopyIsCurrent, HoldsLease, OutcomeIsOfHead, IsHead, OnlyCommittedHandled, Status, Outcome
<1> QED
  BY <1>1, <1>2, <1>3, <1>4, <1>5, <1>6, <1>7, <1>8, <1>9, <1>10, <1>11, <1>12, <1>13 DEF Next, WorkerStep, RowStep

\* IInv holds in every reachable state.
LEMMA Invariance == Spec => []IInv
<1>1. IInv /\ [Next]_vars => IInv'
  BY NextIInv
<1> QED
  BY InitIInv, <1>1, PTL DEF Spec

-------------------------------------------------------------------------------
(* Theorems.                                                               *)

\* Every column, document and worker's memory keeps its type: in particular the
\* attempts of a row never exceed the budget (worker.go RunOnce).
THEOREM TypeCorrect == Spec => []TypeOK
<1>1. IInv => TypeOK
  BY DEF IInv
<1> QED
  BY Invariance, <1>1, PTL

\* A row counts as delivered only when the index shows its version or a newer one,
\* however many workers, retries, lost leases, lost and late requests there are.
THEOREM DeliveredRowsAreIndexed == Spec => []DeliveredIsIndexed
<1>1. IInv => DeliveredIsIndexed
  BY DEF IInv
<1> QED
  BY Invariance, <1>1, PTL

\* A dead row and an unreplayed dead letter always come together, however often the
\* row dies and is replayed (outbox.go MoveToDLQ, ReplayProjectionDLQ).
THEOREM DeadRowsHaveDeadLetters == Spec => []DeadIffOpenDeadLetter
<1>1. IInv => DeadIffOpenDeadLetter
  BY DEF IInv
<1> QED
  BY Invariance, <1>1, PTL

\* An unsettled row has attempts left: no worker overspends the budget by deciding
\* with the attempts it read when it leased the row.
THEOREM BudgetIsKept == Spec => []RetryBudgetKept
<1>1. IInv => RetryBudgetKept
  BY DEF IInv
<1> QED
  BY Invariance, <1>1, PTL

\* No step of a worker whose lease was lost changes a settled row, and only the
\* replay of its dead letter moves a dead one (outbox.go requireOutboxLease).
THEOREM SettledRowsStaySettled == Spec => SettledRowsAreFenced
<1> DEFINE Fenced ==
      \A row \in Rows :
          /\ status[row] = "delivered" => status'[row] = "delivered"
          /\ status[row] = "dead" /\ status'[row] # "dead"
               => dlq[row] = "open" /\ dlq'[row] = "replayed"
<1>1. ASSUME IInv, [Next]_vars PROVE Fenced
  <2> USE <1>1, OutboxAssumption
  <2>1. ASSUME NEW w \in Workers, Lease(w) PROVE Fenced
    BY <2>1 DEF Lease, IsBatch, Leasable, IInv, TypeOK
  <2>2. ASSUME NEW w \in Workers, NEW row \in batch[w],
               HoldsLease(w, row) /\ Bookkeep(w, row)
        PROVE  Fenced
    BY <2>2 DEF HoldsLease, Bookkeep, MarkDelivered, MarkRetry, MoveToDLQ, IInv, TypeOK
  <2>3. ASSUME NEW w \in Workers, Settle(w) \/ SettleFails(w) PROVE Fenced
    <3>1. PICK row \in batch[w] :
            (HoldsLease(w, row) /\ Bookkeep(w, row)) \/ UNCHANGED rowVars
      BY <2>3 DEF Settle, SettleFails
    <3> QED
      BY <2>2, <3>1 DEF rowVars
  <2>4. ASSUME NEW w \in Workers, Project(w) \/ Crash(w) PROVE Fenced
    BY <2>4 DEF Project, Crash, rowVars
  <2>5. ASSUME NEW row \in Rows, AppendProjection(row) PROVE Fenced
    BY <2>5 DEF AppendProjection, IInv, TypeOK
  <2>6. ASSUME NEW row \in Rows, ReplayProjectionDLQ(row) PROVE Fenced
    BY <2>6 DEF ReplayProjectionDLQ, IInv, TypeOK
  <2>7. ASSUME NEW row \in Rows,
               \/ LateWrite(row) \/ LockExpires(row) \/ LockLost(row)
               \/ RetryDelayPasses(row) \/ RetryWindowCloses(row)
        PROVE  Fenced
    BY <2>7 DEF LateWrite, LockExpires, LockLost, RetryDelayPasses,
                RetryWindowCloses, rowVars
  <2>8. CASE UNCHANGED vars
    BY <2>8 DEF vars, rowVars
  <2> QED
    BY <2>1, <2>3, <2>4, <2>5, <2>6, <2>7, <2>8 DEF Next, WorkerStep, RowStep
<1>2. IInv /\ [Next]_vars => [Fenced]_vars
  BY <1>1
<1> QED
  BY Invariance, <1>2, PTL DEF Spec, SettledRowsAreFenced

-------------------------------------------------------------------------------
(* Refinement.                                                             *)

\* A worker that settles the head of its batch delivers it, buries it or leaves it
\* due, as far as a reader of the index or of the dead letter queue can tell.
LEMMA SettlingRefines ==
  ASSUME IInv, NEW w \in Workers, NEW row \in batch[w], IsHead(w, row),
         outcome[w] # "none", UNCHANGED index,
         (HoldsLease(w, row) /\ Bookkeep(w, row)) \/ UNCHANGED rowVars
  PROVE  [Delivery!Next]_Delivery!vars
<1>1. row \in Rows
  BY DEF IInv, TypeOK
<1>2. CASE UNCHANGED rowVars
  BY <1>2 DEF rowVars, Delivery!vars, phase
<1>3. CASE HoldsLease(w, row) /\ Bookkeep(w, row)
  <2>1. phase \in [Rows -> {"absent", "due", "delivered", "dead"}] /\ phase[row] = "due"
    BY <1>1, <1>3 DEF phase, HoldsLease, IInv, TypeOK, Status
  <2>2. /\ \A r \in Rows \ {row} : status'[r] = status[r]
        /\ status'[row] \in {"delivered", "pending", "dead"}
        /\ status'[row] = "delivered" => index[AggregateOf[row]] >= VersionOf[row]
    BY <1>3, BookkeepEffect
  <2>3. phase' = [phase EXCEPT ![row] =
                    IF status'[row] = "pending" THEN "due" ELSE status'[row]]
    BY <1>1, <2>1, <2>2 DEF phase
  <2>4. CASE status'[row] = "delivered"
    BY <1>1, <2>1, <2>2, <2>3, <2>4 DEF Delivery!Next, Delivery!Deliver
  <2>5. CASE status'[row] = "dead"
    BY <1>1, <2>1, <2>2, <2>3, <2>5 DEF Delivery!Next, Delivery!Bury
  <2>6. CASE status'[row] = "pending"
    BY <2>1, <2>3, <2>6 DEF Delivery!vars
  <2> QED
    BY <2>2, <2>4, <2>5, <2>6
<1> QED
  BY <1>2, <1>3

\* An index request of a committed row shows its version, or changes nothing.
LEMMA WritingRefines ==
  ASSUME IInv, NEW row \in Rows, status[row] # "absent",
         IndexDocumentVersion(row) \/ UNCHANGED index, UNCHANGED status
  PROVE  [Delivery!Next]_Delivery!vars
<1>1. phase' = phase /\ phase[row] # "absent"
  BY DEF phase
<1>2. CASE IndexDocumentVersion(row) /\ VersionOf[row] > index[AggregateOf[row]]
  <2>1. index' = [index EXCEPT ![AggregateOf[row]] = VersionOf[row]]
    BY <1>2, OutboxAssumption DEF IndexDocumentVersion, IInv, TypeOK
  <2>2. /\ index' \in [Aggregates -> Nat] /\ index'[AggregateOf[row]] = VersionOf[row]
        /\ \A a \in Aggregates \ {AggregateOf[row]} : index'[a] = index[a]
    BY <2>1, OutboxAssumption DEF IInv, TypeOK
  <2>3. Delivery!Known(AggregateOf[row], VersionOf[row])
    BY <1>1 DEF Delivery!Known
  <2> QED
    BY <1>1, <1>2, <2>2, <2>3 DEF Delivery!Next, Delivery!Apply
<1>3. CASE IndexDocumentVersion(row) /\ ~(VersionOf[row] > index[AggregateOf[row]])
  BY <1>1, <1>3, OutboxAssumption DEF IndexDocumentVersion, IInv, TypeOK, Delivery!vars
<1> QED
  BY <1>1, <1>2, <1>3 DEF Delivery!vars

\* The outbox, its workers and the index implement the promise ProjectionDelivery
\* makes to readers: every step is one of its steps or invisible to them.
THEOREM PipelineDelivers == Spec => DeliveryPromise
<1>1. Init => Delivery!Init
  <2> SUFFICES ASSUME Init PROVE Delivery!Init
    OBVIOUS
  <2>1. phase = [row \in Rows |-> "absent"] /\ index = [a \in Aggregates |-> 0]
    BY DEF Init, phase
  <2> QED
    BY <2>1 DEF Delivery!Init, Delivery!Known
<1>2. ASSUME IInv, [Next]_vars PROVE [Delivery!Next]_Delivery!vars
  <2> USE <1>2, OutboxAssumption
  <2>1. ASSUME NEW w \in Workers, Lease(w) PROVE UNCHANGED Delivery!vars
    BY <2>1 DEF Lease, IsBatch, Leasable, sinkVars, phase, Delivery!vars, IInv, TypeOK
  <2>2. ASSUME NEW w \in Workers, Project(w) PROVE [Delivery!Next]_Delivery!vars
    <3>1. PICK row \in batch[w] : IndexDocumentVersion(row) \/ UNCHANGED index
      BY <2>2 DEF Project, sinkVars
    <3>2. row \in Rows /\ status[row] # "absent"
      BY DEF IInv, TypeOK, OnlyCommittedHandled
    <3> QED
      BY <2>2, <3>1, <3>2, WritingRefines DEF Project, rowVars
  <2>3. ASSUME NEW w \in Workers, Settle(w) \/ SettleFails(w)
        PROVE  [Delivery!Next]_Delivery!vars
    <3>1. PICK row \in batch[w] :
            /\ IsHead(w, row)
            /\ (HoldsLease(w, row) /\ Bookkeep(w, row)) \/ UNCHANGED rowVars
      BY <2>3 DEF Settle, SettleFails
    <3> QED
      BY <2>3, <3>1, SettlingRefines DEF Settle, SettleFails, sinkVars
  <2>4. ASSUME NEW w \in Workers, Crash(w) PROVE UNCHANGED Delivery!vars
    BY <2>4 DEF Crash, rowVars, sinkVars, phase, Delivery!vars
  <2>5. ASSUME NEW row \in Rows, AppendProjection(row) PROVE Delivery!Next
    <3>1. phase[row] = "absent" /\ phase' = [phase EXCEPT ![row] = "due"]
      BY <2>5 DEF AppendProjection, phase, IInv, TypeOK, Status
    <3> QED
      BY <2>5, <3>1 DEF AppendProjection, sinkVars, Delivery!Next, Delivery!Commit
  <2>6. ASSUME NEW row \in Rows, ReplayProjectionDLQ(row) PROVE Delivery!Next
    <3>1. phase[row] = "dead" /\ phase' = [phase EXCEPT ![row] = "due"]
      BY <2>6 DEF ReplayProjectionDLQ, phase, IInv, TypeOK, Status
    <3> QED
      BY <2>6, <3>1 DEF ReplayProjectionDLQ, sinkVars, Delivery!Next, Delivery!Replay
  <2>7. ASSUME NEW row \in Rows, LateWrite(row) PROVE [Delivery!Next]_Delivery!vars
    BY <2>7, WritingRefines DEF LateWrite, rowVars, IInv, OnlyCommittedHandled
  <2>8. ASSUME NEW row \in Rows,
               \/ LockExpires(row) \/ LockLost(row)
               \/ RetryDelayPasses(row) \/ RetryWindowCloses(row)
        PROVE  UNCHANGED Delivery!vars
    BY <2>8 DEF LockExpires, LockLost, RetryDelayPasses, RetryWindowCloses,
                sinkVars, phase, Delivery!vars
  <2>9. CASE UNCHANGED vars
    BY <2>9 DEF vars, rowVars, sinkVars, phase, Delivery!vars
  <2> QED
    BY <2>1, <2>2, <2>3, <2>4, <2>5, <2>6, <2>7, <2>8, <2>9 DEF Next, WorkerStep, RowStep
<1>3. IInv /\ [Next]_vars => [Delivery!Next]_Delivery!vars
  BY <1>2
<1> QED
  BY Invariance, <1>1, <1>3, PTL DEF Spec, DeliveryPromise, Delivery!Spec
===============================================================================
