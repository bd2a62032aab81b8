--------------------------- MODULE EvidenceStream ---------------------------
(***************************************************************************)
(* Evidence on its way from a producer (bkn-backend, ontology-query) into  *)
(* the evidence ledger of BKN Trace.  A producer writes each event into an *)
(* outbox table, with the next place of its stream.  The delivery workers  *)
(* of the producer's replicas lease the oldest unfinished event of the     *)
(* stream, post it to Core and record Core's answer.  Core appends the     *)
(* event to the ledger unless it is a replay, is invalid, or comes behind  *)
(* an event of its stream.                                                 *)
(*                                                                         *)
(* Left out: optimistic versions and idempotency keys of operator actions  *)
(* (an action with a stale version or a used key changes nothing), the     *)
(* attempt counter (it only sets the length of a delay), events of         *)
(* interactions Core does not know, and the projection row a ledger entry  *)
(* brings along (ProjectionOutbox).  One event has one row and one         *)
(* payload, so Core's payload conflict cannot happen.                      *)
(***************************************************************************)
EXTENDS Integers, Sequences

CONSTANTS
  Events,         \* evidence events, by event ID
  Streams,        \* producer streams
  Workers,        \* delivery workers, one per replica
  StreamOf,       \* the stream of each event and of each worker
  InteractionOf,  \* the interaction each event belongs to
  CausesOf,       \* the events each event names as its causes
  Malformed,      \* events validateEvent refuses
  None,           \* no event, no worker
  MaxRestarts,    \* bound: replicas that restart and take an epoch
  MaxDisruptions  \* bound: timeouts, lost answers, crashes, lost leases

ASSUME EvidenceAssumption ==
  /\ StreamOf \in [Events \union Workers -> Streams]
  /\ CausesOf \in [Events -> SUBSET Events]
  /\ Malformed \subseteq Events
  /\ None \notin Events
  /\ MaxRestarts \in Nat /\ MaxDisruptions \in Nat

VARIABLES
  epoch, next,    \* producer stream state: current_epoch, next_sequence
  status, place,  \* outbox row: status, <<producer_epoch, producer_sequence>>
  holder, leased, \* outbox row: worker of lease_token, locked_until ahead
  due,            \* outbox row: available_at has passed
  claim, answer,  \* worker: the record it delivers, the status to complete
  inflight,       \* events in requests the worker stopped waiting for
  ledger,         \* Core: ingested events in ingest_sequence order
  restarts, disruptions

streamVars == <<epoch, next>>
rowVars == <<status, place, holder, leased, due>>
workerVars == <<claim, answer>>
coreVars == <<inflight, ledger>>
vars == <<streamVars, rowVars, workerVars, coreVars, restarts, disruptions>>

NoPlace == <<0, 0>>
Unfinished == {"pending", "processing", "retry", "dlq", "conflict"}
Settled == {"delivered", "abandoned", "removed"}
Parked == {"dlq", "conflict"}
Status == Unfinished \union {"absent", "delivered", "abandoned", "removed"}

Init ==
  /\ epoch = [s \in Streams |-> 1] /\ next = [s \in Streams |-> 1]
  /\ status = [e \in Events |-> "absent"]
  /\ place = [e \in Events |-> NoPlace]
  /\ holder = [e \in Events |-> None]
  /\ leased = [e \in Events |-> FALSE] /\ due = [e \in Events |-> FALSE]
  /\ claim = [w \in Workers |-> None] /\ answer = [w \in Workers |-> "none"]
  /\ inflight = {} /\ ledger = <<>>
  /\ restarts = 0 /\ disruptions = 0

Disrupt ==
  /\ disruptions < MaxDisruptions
  /\ disruptions' = disruptions + 1

Before(p, q) == p[1] < q[1] \/ (p[1] = q[1] /\ p[2] < q[2])

-----------------------------------------------------------------------------
(* The producer: outbox rows and epochs.                                   *)

\* The row lock on the stream is held until commit, so places are taken in
\* commit order.
Enqueue(e) == LET s == StreamOf[e] IN
  /\ status[e] = "absent"
  /\ status' = [status EXCEPT ![e] = "pending"]
  /\ place' = [place EXCEPT ![e] = <<epoch[s], next[s]>>]
  /\ next' = [next EXCEPT ![s] = @ + 1]
  /\ due' = [due EXCEPT ![e] = TRUE]
  /\ UNCHANGED <<epoch, holder, leased, workerVars, coreVars, restarts, disruptions>>

\* What a replica forgets when its process ends; Core may still apply the
\* request it was waiting for.
Forget(w) ==
  /\ claim' = [claim EXCEPT ![w] = None]
  /\ answer' = [answer EXCEPT ![w] = "none"]
  /\ inflight' \in IF claim[w] # None /\ answer[w] = "none"
                   THEN {inflight, inflight \union {claim[w]}} ELSE {inflight}

\* Mutant of AcquireEpoch: numbering starts again in the same epoch.
RestartSequence(s) ==
  /\ next' = [next EXCEPT ![s] = 1]
  /\ UNCHANGED epoch

AcquireEpoch(s) ==
  /\ epoch' = [epoch EXCEPT ![s] = @ + 1]
  /\ next' = [next EXCEPT ![s] = 1]

\* A replica stops at any point and starts again with a new epoch.
Restart(w) ==
  /\ restarts < MaxRestarts
  /\ restarts' = restarts + 1
  /\ Forget(w)
  /\ AcquireEpoch(StreamOf[w])
  /\ UNCHANGED <<rowVars, ledger, disruptions>>

-----------------------------------------------------------------------------
(* The delivery worker.                                                    *)

\* Mutant of HeadOfLine: records that need an operator are passed over.
HeadOfReady(e) ==
  /\ status[e] \in Unfinished \ Parked
  /\ \A f \in Events :
       StreamOf[f] = StreamOf[e] /\ status[f] \in Unfinished \ Parked
         => ~Before(place[f], place[e])

\* The oldest unfinished event of the stream, whatever its state.
HeadOfLine(e) ==
  /\ status[e] \in Unfinished
  /\ \A f \in Events :
       StreamOf[f] = StreamOf[e] /\ status[f] \in Unfinished
         => ~Before(place[f], place[e])

\* Mutant of Claimable: a lapsed lease is not taken over.
ClaimableOnce(e) == status[e] \in {"pending", "retry"} /\ due[e]

Claimable(e) ==
  \/ status[e] \in {"pending", "retry"} /\ due[e]
  \/ status[e] = "processing" /\ ~leased[e]

ClaimHeadOfLine(w, e) ==
  /\ claim[w] = None
  /\ StreamOf[e] = StreamOf[w]
  /\ HeadOfLine(e) /\ Claimable(e)
  /\ status' = [status EXCEPT ![e] = "processing"]
  /\ holder' = [holder EXCEPT ![e] = w]
  /\ leased' = [leased EXCEPT ![e] = TRUE]
  /\ claim' = [claim EXCEPT ![w] = e]
  /\ UNCHANGED <<streamVars, place, due, answer, coreVars, restarts, disruptions>>

HoldsLease(w, e) == status[e] = "processing" /\ holder[e] = w

-----------------------------------------------------------------------------
(* Core: the ledger.                                                       *)

Ingested == {ledger[i] : i \in DOMAIN ledger}

\* Every member has a cause in the set: some of them cause themselves.
HasCausationCycle(events) ==
  \E S \in SUBSET events : S # {} /\ \A e \in S : CausesOf[e] \intersect S # {}

\* A cause the ledger does not hold yet is not held against the event.
CrossesScope(e) ==
  \E c \in CausesOf[e] \intersect Ingested : InteractionOf[c] # InteractionOf[e]

\* Mutant of ClosesCycle: only the events of the producer's own stream are looked at.
ClosesCycleInStream(e) ==
  HasCausationCycle({e} \union {f \in Ingested : /\ InteractionOf[f] = InteractionOf[e]
                                                 /\ StreamOf[f] = StreamOf[e]})

ClosesCycle(e) ==
  HasCausationCycle({e} \union {f \in Ingested : InteractionOf[f] = InteractionOf[e]})

\* A place of the stream at or after the event's own is taken.
Behind(e) ==
  \E f \in Ingested : StreamOf[f] = StreamOf[e] /\ ~Before(place[f], place[e])

\* Mutant of Answer: places are compared before a replay is recognised.
AnswerByPlaceFirst(e) ==
  IF e \in Malformed THEN "400"
  ELSE IF CrossesScope(e) THEN "500"
  ELSE IF ClosesCycle(e) THEN "400"
  ELSE IF Behind(e) THEN "409"
  ELSE "202"

\* Core's answer.  Refusals of the request itself come before the ledger is
\* opened; a replay is recognised before anything else is looked at.  A cause in
\* another interaction is a plain error of the store, hence "500".
Answer(e) ==
  IF e \in Malformed THEN "400"
  ELSE IF e \in Ingested THEN "202"
  ELSE IF CrossesScope(e) THEN "500"
  ELSE IF ClosesCycle(e) THEN "400"
  ELSE IF Behind(e) THEN "409"
  ELSE "202"

Ingest(e) ==
  ledger' = IF Answer(e) = "202" /\ e \notin Ingested
            THEN Append(ledger, e) ELSE ledger

\* A request is applied after its worker gave up on it.
LateIngest(e) ==
  /\ e \in inflight
  /\ inflight' = inflight \ {e}
  /\ Ingest(e)
  /\ UNCHANGED <<streamVars, rowVars, workerVars, restarts, disruptions>>

-----------------------------------------------------------------------------
(* The delivery worker, from Core's answer on.                             *)

\* Mutant of CoreDeliveryOutcome: whatever Core has dealt with is done.
AnsweredIsDelivered(code) == IF code = "500" THEN "retry" ELSE "delivered"

CoreDeliveryOutcome(code) ==
  CASE code = "202" -> "delivered" [] code = "409" -> "conflict"
    [] code = "400" -> "dlq" [] code = "500" -> "retry"

Unanswered(e) ==
  \/ Ingest(e) /\ UNCHANGED inflight
  \/ inflight' \in {inflight, inflight \union {e}} /\ UNCHANGED ledger

\* One request.  A timeout, a lost answer and one without a durable
\* acknowledgement are all retried.
Deliver(w) == LET e == claim[w] IN
  /\ e # None /\ answer[w] = "none"
  /\ \/ /\ Ingest(e)
        /\ answer' = [answer EXCEPT ![w] = CoreDeliveryOutcome(Answer(e))]
        /\ UNCHANGED <<inflight, disruptions>>
     \/ /\ Disrupt
        /\ Unanswered(e)
        /\ answer' = [answer EXCEPT ![w] = "retry"]
  /\ UNCHANGED <<streamVars, rowVars, claim, restarts>>

\* Mutant of EndDelivery: the outcome stays for the next record.
EndDeliveryKeepsAnswer(w) ==
  /\ claim' = [claim EXCEPT ![w] = None]
  /\ UNCHANGED answer

EndDelivery(w) ==
  /\ claim' = [claim EXCEPT ![w] = None]
  /\ answer' = [answer EXCEPT ![w] = "none"]

Settle(e, to) ==
  /\ status' = [status EXCEPT ![e] = to]
  /\ holder' = [holder EXCEPT ![e] = None]
  /\ leased' = [leased EXCEPT ![e] = FALSE]
  /\ due' = [due EXCEPT ![e] = to # "retry"]

\* The update is conditional on the lease token; a worker that lost its lease
\* changes nothing.
CompleteRecord(w, e) ==
  IF HoldsLease(w, e) THEN Settle(e, answer[w])
  ELSE UNCHANGED <<status, holder, leased, due>>

Complete(w) ==
  /\ answer[w] # "none"
  /\ CompleteRecord(w, claim[w])
  /\ EndDelivery(w)
  /\ UNCHANGED <<streamVars, place, coreVars, restarts, disruptions>>

\* The worker ignores a failed update; the row stays leased.
CompleteFails(w) ==
  /\ answer[w] # "none"
  /\ Disrupt
  /\ EndDelivery(w)
  /\ UNCHANGED <<streamVars, rowVars, coreVars, restarts>>

-----------------------------------------------------------------------------
(* Time.                                                                   *)

\* A lease outlives the request timeout, so it lapses after its worker is gone ...
Orphaned(e) == holder[e] = None \/ claim[holder[e]] # e

LeaseExpires(e) ==
  /\ status[e] = "processing" /\ leased[e] /\ Orphaned(e)
  /\ leased' = [leased EXCEPT ![e] = FALSE]
  /\ UNCHANGED <<streamVars, status, place, holder, due, workerVars, coreVars,
                 restarts, disruptions>>

\* ... except when the worker is stalled or clocks differ.
LeaseLost(e) ==
  /\ status[e] = "processing" /\ leased[e] /\ ~Orphaned(e)
  /\ Disrupt
  /\ leased' = [leased EXCEPT ![e] = FALSE]
  /\ UNCHANGED <<streamVars, status, place, holder, due, workerVars, coreVars, restarts>>

RetryDelayPasses(e) ==
  /\ status[e] = "retry" /\ ~due[e]
  /\ due' = [due EXCEPT ![e] = TRUE]
  /\ UNCHANGED <<streamVars, status, place, holder, leased, workerVars, coreVars,
                 restarts, disruptions>>

-----------------------------------------------------------------------------
(* The operator and the retention job.                                     *)

Retry(e) ==
  /\ status[e] = "dlq"
  /\ status' = [status EXCEPT ![e] = "retry"]
  /\ due' = [due EXCEPT ![e] = TRUE]
  /\ UNCHANGED <<streamVars, place, holder, leased, workerVars, coreVars,
                 restarts, disruptions>>

Abandon(e) ==
  /\ status[e] \in Parked
  /\ status' = [status EXCEPT ![e] = "abandoned"]
  /\ UNCHANGED <<streamVars, place, holder, leased, due, workerVars, coreVars,
                 restarts, disruptions>>

Cleanup(e) ==
  /\ status[e] \in {"delivered", "abandoned"}
  /\ status' = [status EXCEPT ![e] = "removed"]
  /\ UNCHANGED <<streamVars, place, holder, leased, due, workerVars, coreVars,
                 restarts, disruptions>>

-----------------------------------------------------------------------------
Next ==
  \/ \E e \in Events : \/ Enqueue(e) \/ LateIngest(e)
                       \/ LeaseExpires(e) \/ LeaseLost(e) \/ RetryDelayPasses(e)
                       \/ Retry(e) \/ Abandon(e) \/ Cleanup(e)
  \/ \E w \in Workers, e \in Events : ClaimHeadOfLine(w, e)
  \/ \E w \in Workers : Restart(w) \/ Deliver(w) \/ Complete(w) \/ CompleteFails(w)

\* A worker polls every 250 ms and each of its calls ends; time passes.
\* Operators, the retention job and late requests owe nothing.
Fairness ==
  /\ \A w \in Workers : /\ WF_vars(\E e \in Events : ClaimHeadOfLine(w, e))
                        /\ WF_vars(Deliver(w))
                        /\ WF_vars(Complete(w))
  /\ \A e \in Events : WF_vars(LeaseExpires(e)) /\ WF_vars(RetryDelayPasses(e))

Spec == Init /\ [][Next]_vars
FairSpec == Spec /\ Fairness

-----------------------------------------------------------------------------
(* Properties.                                                             *)

\* Every variable has its type; a worker with an answer has a record.
TypeOK ==
  /\ epoch \in [Streams -> Nat \ {0}] /\ next \in [Streams -> Nat \ {0}]
  /\ status \in [Events -> Status]
  /\ place \in [Events -> Nat \X Nat]
  /\ holder \in [Events -> Workers \union {None}]
  /\ leased \in [Events -> BOOLEAN] /\ due \in [Events -> BOOLEAN]
  /\ claim \in [Workers -> Events \union {None}]
  /\ answer \in [Workers -> {"none", "delivered", "retry"} \union Parked]
  /\ inflight \subseteq Events
  /\ ledger \in Seq(Events)
  /\ restarts \in 0..MaxRestarts /\ disruptions \in 0..MaxDisruptions
  /\ \A w \in Workers : answer[w] # "none" => claim[w] # None

\* What the outbox reports of an event, and those of its stream that were given
\* their places before it.  A conflict is none of the reports EvidenceDelivery knows.
fate == [e \in Events |->
  CASE status[e] \in {"pending", "processing", "retry"} -> "open"
    [] status[e] = "dlq" -> "parked"
    [] OTHER -> status[e]]

earlier == [e \in Events |->
  {f \in Events : /\ status[e] # "absent" /\ status[f] # "absent"
                  /\ StreamOf[f] = StreamOf[e] /\ Before(place[f], place[e])}]

Delivery == INSTANCE EvidenceDelivery

\* Outbox, workers and Core implement in-order, exactly-once delivery with truthful
\* reports (see EvidenceDelivery), whatever requests are lost, late or repeated and
\* whichever replica restarts.
DeliveryPromise == Delivery!Spec

\* An event that waits for an operator, or that an operator gave up, never
\* entered the ledger, whichever of its requests were applied late.
ParkedIsNotIngested ==
  \A e \in Events : status[e] \in Parked \union {"abandoned"} => e \notin Ingested

\* The ledger has no holes: by the time it holds an event it holds every earlier
\* event of the stream, before it, except those an operator abandoned.
LedgerExtendsStream ==
  \A i \in DOMAIN ledger, e \in Events :
    /\ status[e] # "absent" /\ StreamOf[e] = StreamOf[ledger[i]]
    /\ Before(place[e], place[ledger[i]])
    => \/ \E j \in 1..(i - 1) : ledger[j] = e
       \/ e \notin Ingested /\ status[e] \in {"abandoned", "removed"}

\* Epochs and head-of-line delivery keep the producer's places in order, so Core
\* never sees one out of sequence: restarts, races of two replicas and late
\* requests do not block a stream with a conflict.
ConflictFree == \A e \in Events : status[e] # "conflict"

\* The events of one interaction that the ledger holds have no causal cycle, in
\* whatever order the streams deliver them.
InteractionAcyclic ==
  \A e \in Ingested :
    ~HasCausationCycle({f \in Ingested : InteractionOf[f] = InteractionOf[e]})

\* A settled record is never taken up again, by a worker that lost its lease or
\* by an operator.
SettledIsFinal ==
  [][\A e \in Events :
       status[e] \in Settled
         => status'[e] \in {status[e], "removed"}]_vars

\* Every event is settled or waits behind a record that needs an operator.
SettledOrParked ==
  \A e \in Events :
    status[e] # "absent" ~>
      \/ status[e] \in Settled
      \/ \E f \in Events : /\ StreamOf[f] = StreamOf[e] /\ status[f] \in Parked
                           /\ ~Before(place[e], place[f])

-----------------------------------------------------------------------------
(* The inductive invariant.                                                *)

\* Core refuses the event, now and for ever: the ledger only grows.
Refused(e) == e \notin Ingested /\ (e \in Malformed \/ ClosesCycle(e))

\* A worker has had the event in hand.
Handled(e) ==
  \/ status[e] \notin {"absent", "pending"}
  \/ e \in inflight \union Ingested
  \/ \E w \in Workers : claim[w] = e

\* Only enqueued events are handled, and an absent event has never been.
OnlyEnqueuedHandled == \A e \in Events : Handled(e) => status[e] # "absent"

\* Places are given in order: below the stream's next one, and each once.
PlacesGivenInOrder ==
  \A e \in Events : status[e] # "absent" =>
    LET s == StreamOf[e] IN
      /\ Before(place[e], <<epoch[s], next[s]>>)
      /\ \A f \in Events : status[f] # "absent" /\ StreamOf[f] = s /\ place[f] = place[e]
                           => f = e

\* Everything before a handled event is settled: claims go to the head of line,
\* new events line up behind, and settled records stay settled.
OneAtATime ==
  \A e, f \in Events :
    /\ Handled(e) /\ status[f] # "absent" /\ StreamOf[f] = StreamOf[e]
    /\ Before(place[f], place[e])
    => status[f] \in Settled

\* What a worker remembers of Core's answer is still true of the ledger.
AnswersHold ==
  \A w \in Workers :
    /\ answer[w] = "delivered" => claim[w] \in Ingested
    /\ answer[w] = "dlq" => Refused(claim[w])
    /\ answer[w] # "conflict"

\* So is what the outbox remembers of it.
RecordsHold ==
  \A e \in Events :
    /\ status[e] = "delivered" => e \in Ingested
    /\ status[e] \in {"dlq", "abandoned"} => Refused(e)
    /\ status[e] = "removed" => e \in Ingested \/ Refused(e)
    /\ status[e] # "conflict"

\* The ledger holds the events of a stream in the order of their places, and no
\* malformed one.
LedgerInOrder ==
  /\ Ingested \intersect Malformed = {}
  /\ \A i, j \in DOMAIN ledger :
       i < j /\ StreamOf[ledger[i]] = StreamOf[ledger[j]]
         => Before(place[ledger[i]], place[ledger[j]])

IInv ==
  /\ TypeOK /\ OnlyEnqueuedHandled /\ PlacesGivenInOrder /\ OneAtATime
  /\ AnswersHold /\ RecordsHold /\ LedgerInOrder
=============================================================================
