--------------------------- MODULE ProjectionOutbox ---------------------------
(***************************************************************************)
(* The transactional outbox of the trace core and the workers that drain   *)
(* it into the OpenSearch projection (projectorsvc/worker.go, the          *)
(* sessionstore's outbox.go and the opensearchprojection sink).            *)
(*                                                                         *)
(* Several replicas run one worker each.  A worker leases a batch, then    *)
(* projects and settles its rows one by one in outbox_id order.  A lease   *)
(* is a random token in the row: a worker keeps the token it was given and *)
(* every settling statement is conditional on it.  A worker never holds    *)
(* two tokens of one row, so the model names the token by its holder.      *)
(*                                                                         *)
(* Time is abstracted to three events the code compares clocks for: a lock *)
(* runs out (locked_until), a retry delay passes (available_at) and the    *)
(* retry window closes (created_at + MaxRetryAge).                         *)
(***************************************************************************)
EXTENDS Integers, FiniteSets

CONSTANTS
    Rows,           \* outbox ids
    Aggregates,     \* projected documents
    AggregateOf,    \* the document a row projects
    VersionOf,      \* aggregate_version of a row
    Workers,        \* one projection worker per replica
    BatchSize,      \* rows leased by one RunOnce
    MaxAttempts,    \* WorkerOptions.MaxAttempts
    MaxDisruptions, \* bound: crashes, lost locks and store errors of a behaviour
    MaxReplays,     \* bound: dead letter replays of a behaviour
    NoWorker        \* lease_token IS NULL

ASSUME OutboxAssumption ==
    /\ Rows \subseteq Nat
    /\ AggregateOf \in [Rows -> Aggregates]
    /\ VersionOf \in [Rows -> Nat \ {0}]
    /\ NoWorker \notin Workers
    /\ BatchSize \in Nat \ {0}
    /\ MaxAttempts \in Nat \ {0}
    /\ MaxDisruptions \in Nat
    /\ MaxReplays \in Nat

VARIABLES
    status,         \* "absent" until committed, then the status column
    holder,         \* whose token the row holds
    locked,         \* locked_until is in the future
    available,      \* available_at has passed
    windowOpen,     \* created_at + MaxRetryAge is in the future
    attempts,       \* the attempts column
    dlq,            \* dead letter of the row: "none", "open" or "replayed"
    index,          \* version of each document in OpenSearch, 0 when absent
    inflight,       \* rows whose timed-out index request may still be applied
    batch,          \* rows a worker leased and has not settled
    copied,         \* Item.Attempts, as read when the row was leased
    outcome,        \* result of projecting the first row of the batch
    disruptions,
    replays

rowVars == <<status, holder, locked, available, windowOpen, attempts, dlq>>
sinkVars == <<index, inflight>>
workerVars == <<batch, copied, outcome>>
budgetVars == <<disruptions, replays>>
vars == <<rowVars, sinkVars, workerVars, budgetVars>>

Status == {"absent", "pending", "processing", "delivered", "dead"}
Outcome == {"none", "ok", "transient", "permanent"}

Init ==
    /\ status = [row \in Rows |-> "absent"]
    /\ holder = [row \in Rows |-> NoWorker]
    /\ locked = [row \in Rows |-> FALSE]
    /\ available = [row \in Rows |-> TRUE]
    /\ windowOpen = [row \in Rows |-> TRUE]
    /\ attempts = [row \in Rows |-> 0]
    /\ dlq = [row \in Rows |-> "none"]
    /\ index = [a \in Aggregates |-> 0]
    /\ inflight = {}
    /\ batch = [w \in Workers |-> {}]
    /\ copied = [w \in Workers |-> [row \in Rows |-> 0]]
    /\ outcome = [w \in Workers |-> "none"]
    /\ disruptions = 0
    /\ replays = 0

-------------------------------------------------------------------------------
(* The store.                                                              *)

\* The row is written in the transaction of the change it describes.  That
\* transaction holds the aggregate's row lock, so the versions of one aggregate
\* commit in order; rows of different aggregates commit in any order.
AppendProjection(row) ==
    /\ status[row] = "absent"
    /\ \A r \in Rows :
          AggregateOf[r] = AggregateOf[row] /\ VersionOf[r] < VersionOf[row]
            => status[r] # "absent"
    /\ status' = [status EXCEPT ![row] = "pending"]
    /\ UNCHANGED <<holder, locked, available, windowOpen, attempts, dlq>>
    /\ UNCHANGED <<sinkVars, workerVars, budgetVars>>

\* Fault: a row that was leased once is never leased again.
LeasableOnce == {row \in Rows : status[row] = "pending" /\ available[row] /\ ~locked[row]}

Leasable == {row \in Rows : status[row] \in {"pending", "processing"}
                              /\ available[row] /\ ~locked[row]}

\* LIMIT BatchSize FOR UPDATE SKIP LOCKED: rows that another transaction is just
\* touching are passed over, so any leasable rows may make up the batch.
IsBatch(rows) ==
    /\ rows # {}
    /\ rows \subseteq Leasable
    /\ Cardinality(rows) <= BatchSize

Lease(w) ==
    /\ batch[w] = {}
    /\ \E rows \in SUBSET Rows :
          /\ IsBatch(rows)
          /\ batch' = [batch EXCEPT ![w] = rows]
          /\ status' = [row \in Rows |->
                IF row \in rows THEN "processing" ELSE status[row]]
          /\ holder' = [row \in Rows |-> IF row \in rows THEN w ELSE holder[row]]
          /\ locked' = [row \in Rows |-> row \in rows \/ locked[row]]
    /\ copied' = [copied EXCEPT ![w] = attempts]
    /\ UNCHANGED <<available, windowOpen, attempts, dlq, outcome>>
    /\ UNCHANGED <<sinkVars, budgetVars>>

\* Fault: the statement finds the row by its id alone.
HoldsRow(w, row) == TRUE

\* requireOutboxLease: the conditional UPDATE touched the row.
HoldsLease(w, row) == status[row] = "processing" /\ holder[row] = w

Release(row) ==
    /\ holder' = [holder EXCEPT ![row] = NoWorker]
    /\ locked' = [locked EXCEPT ![row] = FALSE]

MarkDelivered(row) ==
    /\ status' = [status EXCEPT ![row] = "delivered"]
    /\ Release(row)
    /\ UNCHANGED <<available, windowOpen, attempts, dlq>>

MarkRetry(row) ==
    /\ status' = [status EXCEPT ![row] = "pending"]
    /\ attempts' = [attempts EXCEPT ![row] = @ + 1]
    /\ available' = [available EXCEPT ![row] = FALSE]
    /\ Release(row)
    /\ UNCHANGED <<windowOpen, dlq>>

\* Fault: a dead letter that exists already is left as it is.
MoveToDLQOnce(row) ==
    /\ status' = [status EXCEPT ![row] = "dead"]
    /\ attempts' = [attempts EXCEPT ![row] = @ + 1]
    /\ dlq' = [dlq EXCEPT ![row] = IF @ = "none" THEN "open" ELSE @]
    /\ Release(row)
    /\ UNCHANGED <<available, windowOpen>>

\* One transaction: the row dies and its dead letter is inserted, or reopened when
\* an earlier replay of the same event left one behind.
MoveToDLQ(row) ==
    /\ status' = [status EXCEPT ![row] = "dead"]
    /\ attempts' = [attempts EXCEPT ![row] = @ + 1]
    /\ dlq' = [dlq EXCEPT ![row] = "open"]
    /\ Release(row)
    /\ UNCHANGED <<available, windowOpen>>

\* Fault: the replayed row keeps its spent attempts.
ReplayWithSpentAttempts(row) ==
    /\ replays < MaxReplays
    /\ dlq[row] = "open"
    /\ status[row] = "dead"
    /\ status' = [status EXCEPT ![row] = "pending"]
    /\ available' = [available EXCEPT ![row] = TRUE]
    /\ dlq' = [dlq EXCEPT ![row] = "replayed"]
    /\ Release(row)
    /\ replays' = replays + 1
    /\ UNCHANGED <<attempts, windowOpen, sinkVars, workerVars, disruptions>>

\* An operator replays a dead letter.  created_at stays, so the retry window does
\* not reopen.
ReplayProjectionDLQ(row) ==
    /\ replays < MaxReplays
    /\ dlq[row] = "open"
    /\ status[row] = "dead"
    /\ status' = [status EXCEPT ![row] = "pending"]
    /\ attempts' = [attempts EXCEPT ![row] = 0]
    /\ available' = [available EXCEPT ![row] = TRUE]
    /\ dlq' = [dlq EXCEPT ![row] = "replayed"]
    /\ Release(row)
    /\ replays' = replays + 1
    /\ UNCHANGED <<windowOpen, sinkVars, workerVars, disruptions>>

-------------------------------------------------------------------------------
(* The sink: OpenSearch with external versioning.  An index request with a  *)
(* version the document already has, or an older one, is refused; the sink *)
(* reports that refusal as success.                                        *)

\* Fault: the request carries no version.
IndexDocument(row) == index' = [index EXCEPT ![AggregateOf[row]] = VersionOf[row]]

IndexDocumentVersion(row) ==
    index' = [index EXCEPT ![AggregateOf[row]] =
                 IF VersionOf[row] > @ THEN VersionOf[row] ELSE @]

\* A request the client gave up on reaches the index after all.
LateWrite(row) ==
    /\ row \in inflight
    /\ IndexDocumentVersion(row)
    /\ inflight' = inflight \ {row}
    /\ UNCHANGED <<rowVars, workerVars, budgetVars>>

-------------------------------------------------------------------------------
(* The worker.                                                             *)

\* Rows of a batch are handled in the order they were read.
IsHead(w, row) == row \in batch[w] /\ \A r \in batch[w] : row <= r

\* Worker.project: the request is applied, is refused for good, or fails, and a
\* failed request may have been applied, may still be applied later, or is lost.
Project(w) ==
    /\ outcome[w] = "none"
    /\ \E row \in batch[w] :
          /\ IsHead(w, row)
          /\ \/ /\ IndexDocumentVersion(row)
                /\ outcome' = [outcome EXCEPT ![w] = "ok"]
                /\ UNCHANGED inflight
             \/ /\ IndexDocumentVersion(row)
                /\ outcome' = [outcome EXCEPT ![w] = "transient"]
                /\ UNCHANGED inflight
             \/ /\ inflight' \in {inflight, inflight \union {row}}
                /\ outcome' = [outcome EXCEPT ![w] = "transient"]
                /\ UNCHANGED index
             \/ /\ outcome' = [outcome EXCEPT ![w] = "permanent"]
                /\ UNCHANGED sinkVars
    /\ UNCHANGED <<rowVars, batch, copied, budgetVars>>

\* Fault: the budget is compared before the failed attempt is counted.
BookkeepOneMore(w, row) ==
    IF outcome[w] = "ok" THEN MarkDelivered(row)
    ELSE IF outcome[w] = "permanent" \/ copied[w][row] >= MaxAttempts \/ ~windowOpen[row]
         THEN MoveToDLQ(row)
         ELSE MarkRetry(row)

\* The bookkeeping RunOnce chooses for a projected row.
Bookkeep(w, row) ==
    IF outcome[w] = "ok" THEN MarkDelivered(row)
    ELSE IF outcome[w] = "permanent"
              \/ copied[w][row] + 1 >= MaxAttempts
              \/ ~windowOpen[row]
         THEN MoveToDLQ(row)
         ELSE MarkRetry(row)

\* Fault: the result of one row is taken for the next row of the batch too.
SettleKeepsOutcome(w) ==
    /\ outcome[w] # "none"
    /\ \E row \in batch[w] :
          /\ IsHead(w, row)
          /\ IF HoldsLease(w, row) THEN Bookkeep(w, row) ELSE UNCHANGED rowVars
          /\ batch' = [batch EXCEPT ![w] = @ \ {row}]
    /\ UNCHANGED <<outcome, copied, sinkVars, budgetVars>>

\* RunOnce settles the head of its batch and goes on; ErrLeaseLost is skipped.
Settle(w) ==
    /\ outcome[w] # "none"
    /\ \E row \in batch[w] :
          /\ IsHead(w, row)
          /\ IF HoldsLease(w, row) THEN Bookkeep(w, row) ELSE UNCHANGED rowVars
          /\ batch' = [batch EXCEPT ![w] = @ \ {row}]
    /\ outcome' = [outcome EXCEPT ![w] = "none"]
    /\ UNCHANGED <<copied, sinkVars, budgetVars>>

\* The settling statement fails, before or after it took effect: RunOnce returns
\* and forgets the rest of its batch.
SettleFails(w) ==
    /\ disruptions < MaxDisruptions
    /\ outcome[w] # "none"
    /\ \E row \in batch[w] :
          /\ IsHead(w, row)
          /\ \/ HoldsLease(w, row) /\ Bookkeep(w, row)
             \/ UNCHANGED rowVars
    /\ batch' = [batch EXCEPT ![w] = {}]
    /\ outcome' = [outcome EXCEPT ![w] = "none"]
    /\ disruptions' = disruptions + 1
    /\ UNCHANGED <<copied, sinkVars, replays>>

\* The process dies between any two steps and restarts with an empty memory.
Crash(w) ==
    /\ disruptions < MaxDisruptions
    /\ batch[w] # {}
    /\ batch' = [batch EXCEPT ![w] = {}]
    /\ outcome' = [outcome EXCEPT ![w] = "none"]
    /\ disruptions' = disruptions + 1
    /\ UNCHANGED <<copied, rowVars, sinkVars, replays>>

-------------------------------------------------------------------------------
(* Time.                                                                   *)

Orphaned(row) == \A w \in Workers : holder[row] = w => row \notin batch[w]

\* A lock outlives its holder's interest in it and runs out.
LockExpires(row) ==
    /\ locked[row]
    /\ Orphaned(row)
    /\ locked' = [locked EXCEPT ![row] = FALSE]
    /\ UNCHANGED <<status, holder, available, windowOpen, attempts, dlq>>
    /\ UNCHANGED <<sinkVars, workerVars, budgetVars>>

\* A lock runs out under a holder that is still busy with its batch.
LockLost(row) ==
    /\ disruptions < MaxDisruptions
    /\ locked[row]
    /\ ~Orphaned(row)
    /\ locked' = [locked EXCEPT ![row] = FALSE]
    /\ disruptions' = disruptions + 1
    /\ UNCHANGED <<status, holder, available, windowOpen, attempts, dlq>>
    /\ UNCHANGED <<sinkVars, workerVars, replays>>

RetryDelayPasses(row) ==
    /\ ~available[row]
    /\ available' = [available EXCEPT ![row] = TRUE]
    /\ UNCHANGED <<status, holder, locked, windowOpen, attempts, dlq>>
    /\ UNCHANGED <<sinkVars, workerVars, budgetVars>>

RetryWindowCloses(row) ==
    /\ status[row] # "absent"
    /\ windowOpen[row]
    /\ windowOpen' = [windowOpen EXCEPT ![row] = FALSE]
    /\ UNCHANGED <<status, holder, locked, available, attempts, dlq>>
    /\ UNCHANGED <<sinkVars, workerVars, budgetVars>>

-------------------------------------------------------------------------------
WorkerStep(w) ==
    Lease(w) \/ Project(w) \/ Settle(w) \/ SettleFails(w) \/ Crash(w)

RowStep(row) ==
    \/ AppendProjection(row)
    \/ ReplayProjectionDLQ(row)
    \/ LateWrite(row)
    \/ LockExpires(row)
    \/ LockLost(row)
    \/ RetryDelayPasses(row)
    \/ RetryWindowCloses(row)

Next ==
    \/ \E w \in Workers : WorkerStep(w)
    \/ \E row \in Rows : RowStep(row)

Spec == Init /\ [][Next]_vars

\* The projection loop ticks for ever on every replica and a clock never stops:
\* a worker takes its next step and a lock or delay in the past is seen as past.
\* Nothing obliges a producer, an operator, a failure or a lost request.
Fairness ==
    /\ \A w \in Workers :
          WF_vars(Lease(w)) /\ WF_vars(Project(w)) /\ WF_vars(Settle(w))
    /\ \A row \in Rows :
          WF_vars(LockExpires(row)) /\ WF_vars(RetryDelayPasses(row))

FairSpec == Spec /\ Fairness

-------------------------------------------------------------------------------
(* Properties.                                                             *)

\* Types of the outbox, the sink and the workers' memory.
TypeOK ==
    /\ status \in [Rows -> Status]
    /\ holder \in [Rows -> Workers \union {NoWorker}]
    /\ locked \in [Rows -> BOOLEAN]
    /\ available \in [Rows -> BOOLEAN]
    /\ windowOpen \in [Rows -> BOOLEAN]
    /\ attempts \in [Rows -> 0..MaxAttempts]
    /\ dlq \in [Rows -> {"none", "open", "replayed"}]
    /\ index \in [Aggregates -> Nat]
    /\ inflight \in SUBSET Rows
    /\ batch \in [Workers -> SUBSET Rows]
    /\ copied \in [Workers -> [Rows -> 0..MaxAttempts]]
    /\ outcome \in [Workers -> Outcome]
    /\ disruptions \in 0..MaxDisruptions
    /\ replays \in 0..MaxReplays

\* A row counts as delivered only when readers can see its version or a newer one,
\* whoever projected it and however late, retried or duplicated the request was
\* (worker.go RunOnce marks what its own request achieved; sink.go turns a version
\* conflict into success).
DeliveredIsIndexed ==
    \A row \in Rows :
        status[row] = "delivered" => index[AggregateOf[row]] >= VersionOf[row]

\* A row is dead exactly while an unreplayed dead letter stands for it, also after
\* it died, was replayed and died again: no row is lost to the operator and none is
\* replayed twice (outbox.go MoveToDLQ and ReplayProjectionDLQ).
DeadIffOpenDeadLetter ==
    \A row \in Rows : status[row] = "dead" <=> dlq[row] = "open"

\* A row that is still to be projected has attempts left: a worker that decides
\* with the attempts it read at lease time never overspends the budget.
RetryBudgetKept ==
    \A row \in Rows :
        status[row] \in {"pending", "processing"} => attempts[row] < MaxAttempts

\* A settled row is out of every worker's reach: delivered is final, and a dead row
\* moves only when its dead letter is replayed, however stale the worker that still
\* carries the row in its batch (requireOutboxLease).
SettledRowsAreFenced ==
    [][\A row \in Rows :
          /\ status[row] = "delivered" => status'[row] = "delivered"
          /\ status[row] = "dead" /\ status'[row] # "dead"
               => dlq[row] = "open" /\ dlq'[row] = "replayed"]_vars

\* Every committed row is eventually delivered or dead, through retries, crashes
\* and lost locks.
EventuallySettled ==
    \A row \in Rows :
        status[row] \in {"pending", "processing"} ~> status[row] \in {"delivered", "dead"}

\* The strengthening the proofs need (ProjectionOutboxProofs).  A worker's copy of
\* attempts is current while it holds the row's lease; a result "ok" speaks of the
\* head of the batch; nothing is handled before it was committed.
CopyIsCurrent ==
    \A w \in Workers, row \in Rows :
        row \in batch[w] /\ HoldsLease(w, row) => copied[w][row] = attempts[row]

OutcomeIsOfHead ==
    \A w \in Workers :
        /\ batch[w] = {} => outcome[w] = "none"
        /\ outcome[w] = "ok" =>
              \A row \in batch[w] :
                  IsHead(w, row) => index[AggregateOf[row]] >= VersionOf[row]

OnlyCommittedHandled ==
    \A row \in Rows : status[row] = "absent" =>
        /\ attempts[row] = 0
        /\ row \notin inflight
        /\ \A w \in Workers : row \notin batch[w]

IInv ==
    /\ TypeOK
    /\ DeliveredIsIndexed
    /\ DeadIffOpenDeadLetter
    /\ RetryBudgetKept
    /\ CopyIsCurrent
    /\ OutcomeIsOfHead
    /\ OnlyCommittedHandled

\* The pipeline implements its promise (see ProjectionDelivery).
phase == [row \in Rows |->
             IF status[row] \in {"pending", "processing"} THEN "due" ELSE status[row]]

Delivery == INSTANCE ProjectionDelivery WITH document <- index

DeliveryPromise == Delivery!Spec
===============================================================================
