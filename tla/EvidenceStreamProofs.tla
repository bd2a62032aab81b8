------------------------- MODULE EvidenceStreamProofs -------------------------
(***************************************************************************)
(* Proofs about EvidenceStream for any events, streams, replicas, causes   *)
(* and number of restarts and failures: outbox and ledger agree, the       *)
(* ledger follows each stream, and together they implement the promise of  *)
(* EvidenceDelivery.                                                       *)
(*                                                                         *)
(* The inductive invariant is IInv.  Its heart is OneAtATime: whatever a   *)
(* worker has ever had in hand has only settled events before it.  With    *)
(* RecordsHold it shows that Core is never sent an event out of sequence.  *)
(***************************************************************************)
EXTENDS EvidenceStream, TLAPS

-------------------------------------------------------------------------------
(* Places and the ledger.                                                  *)

\* Places are totally ordered.
LEMMA BeforeIsTotal ==
  ASSUME NEW p \in Nat \X Nat, NEW q \in Nat \X Nat
  PROVE  /\ p # q => Before(p, q) \/ Before(q, p)
         /\ ~(Before(p, q) /\ Before(q, p))
         /\ ~Before(p, p)
  BY DEF Before

\* Taking a place moves the next one up.
LEMMA BeforeNext ==
  ASSUME NEW p \in Nat \X Nat, NEW n \in Nat, NEW m \in Nat,
         Before(p, <<n, m>>)
  PROVE  Before(p, <<n, m + 1>>) /\ Before(p, <<n + 1, 1>>)
  BY DEF Before

\* Every ingested event is an event.
LEMMA IngestedIsEvents ==
  ASSUME TypeOK PROVE Ingested \subseteq Events
  BY DEF TypeOK, Ingested

\* Adding to a set of events never removes a cycle.
LEMMA CyclesStay ==
  ASSUME NEW A, NEW B, A \subseteq B, HasCausationCycle(A)
  PROVE  HasCausationCycle(B)
  BY DEF HasCausationCycle

\* Handling a request adds at most its event, at the end of the ledger.
LEMMA IngestEffect ==
  ASSUME TypeOK, NEW e \in Events, Ingest(e)
  PROVE  /\ ledger' \in Seq(Events)
         /\ IF Answer(e) = "202" /\ e \notin Ingested
            THEN /\ Len(ledger') = Len(ledger) + 1 /\ ledger'[Len(ledger')] = e
                 /\ Ingested' = Ingested \union {e}
            ELSE Len(ledger') = Len(ledger) /\ Ingested' = Ingested
         /\ \A i \in 1..Len(ledger) : ledger'[i] = ledger[i]
<1>1. CASE Answer(e) = "202" /\ e \notin Ingested
  <2>1. ledger' = Append(ledger, e) /\ ledger \in Seq(Events)
    BY <1>1 DEF Ingest, TypeOK
  <2>2. /\ ledger' \in Seq(Events) /\ Len(ledger') = Len(ledger) + 1
        /\ ledger'[Len(ledger')] = e
        /\ \A i \in 1..Len(ledger) : ledger'[i] = ledger[i]
    BY <2>1
  <2>3. DOMAIN ledger = 1..Len(ledger) /\ DOMAIN ledger' = 1..(Len(ledger) + 1)
        /\ Len(ledger) \in Nat
    BY <2>1, <2>2
  <2>4. Ingested' = Ingested \union {e}
    BY <2>2, <2>3 DEF Ingested
  <2> QED
    BY <1>1, <2>2, <2>4
<1>2. CASE ~(Answer(e) = "202" /\ e \notin Ingested)
  BY <1>2 DEF Ingest, TypeOK, Ingested
<1> QED
  BY <1>1, <1>2

\* A refusal stands: the event is not taken by this request or a later one.
LEMMA RefusalStands ==
  ASSUME TypeOK, NEW e \in Events, Ingest(e), NEW f \in Events, Refused(f)
  PROVE  Refused(f)'
<1>1. Answer(f) # "202"
  BY DEF Refused, Answer
<1>2. Ingested \subseteq Ingested' /\ f \notin Ingested'
  BY <1>1, IngestEffect DEF Refused
<1>3. ClosesCycle(f) => ClosesCycle(f)'
  <2> DEFINE Near(S) == {f} \union {g \in S : InteractionOf[g] = InteractionOf[f]}
  <2>1. Near(Ingested) \subseteq Near(Ingested')
    BY <1>2
  <2>2. HasCausationCycle(Near(Ingested)) => HasCausationCycle(Near(Ingested'))
    BY <2>1, CyclesStay
  <2> QED
    BY <2>2 DEF ClosesCycle, HasCausationCycle
<1> QED
  BY <1>2, <1>3 DEF Refused

\* Core never finds a handled event out of sequence: the events that would be in
\* its way were taken only after everything before them was settled.
LEMMA NeverBehind ==
  ASSUME IInv, NEW e \in Events, Handled(e), e \notin Ingested, ~Refused(e)
  PROVE  ~Behind(e)
<1> SUFFICES ASSUME NEW f \in Ingested, StreamOf[f] = StreamOf[e],
                    ~Before(place[f], place[e])
             PROVE  FALSE
  BY DEF Behind
<1>1. f \in Events /\ f # e /\ Handled(f)
  BY IngestedIsEvents DEF IInv, Handled
<1>2. status[e] # "absent" /\ status[f] # "absent"
  BY <1>1 DEF IInv, OnlyEnqueuedHandled
<1>3. place[f] # place[e]
  BY <1>1, <1>2 DEF IInv, PlacesGivenInOrder
<1>4. Before(place[e], place[f])
  BY <1>1, <1>3, BeforeIsTotal DEF IInv, TypeOK
<1>5. status[e] \in Settled
  BY <1>1, <1>2, <1>4 DEF IInv, OneAtATime
<1> QED
  BY <1>5 DEF Settled, IInv, RecordsHold

\* What Core's answer to a handled event says of the ledger it leaves behind.
LEMMA AnswerIsTrue ==
  ASSUME IInv, NEW e \in Events, Handled(e), Ingest(e)
  PROVE  /\ Answer(e) \in {"202", "400", "500"}
         /\ Answer(e) = "202" => e \in Ingested'
         /\ Answer(e) = "400" => Refused(e)'
<1>1. Answer(e) \in {"202", "400", "500"}
  BY NeverBehind DEF Answer, Refused
<1>2. Answer(e) = "202" => e \in Ingested'
  BY IngestEffect DEF IInv
<1>3. Answer(e) = "400" => Refused(e)
  BY DEF Answer, Refused, IInv, LedgerInOrder
<1> QED
  BY <1>1, <1>2, <1>3, RefusalStands DEF IInv

\* A request leaves the ledger in order and everything known of it true.
LEMMA IngestKeeps ==
  ASSUME IInv, NEW e \in Events, Handled(e), Ingest(e), UNCHANGED <<status, place>>
  PROVE  /\ LedgerInOrder' /\ RecordsHold'
         /\ Ingested \subseteq Ingested' /\ Ingested' \subseteq Ingested \union {e}
         /\ \A f \in Events : Refused(f) => Refused(f)'
<1>1. TypeOK
  BY DEF IInv
<1>2. Ingested \subseteq Ingested' /\ Ingested' \subseteq Ingested \union {e}
  BY <1>1, IngestEffect
<1>3. \A f \in Events : Refused(f) => Refused(f)'
  BY <1>1, RefusalStands
<1>4. RecordsHold'
  BY <1>2, <1>3 DEF IInv, RecordsHold
<1>5. LedgerInOrder'
  <2>1. CASE Answer(e) = "202" /\ e \notin Ingested
    <3>1. e \notin Malformed /\ ~Behind(e)
      BY <2>1 DEF Answer
    <3>2. ledger \in Seq(Events) /\ Len(ledger) \in Nat /\ DOMAIN ledger = 1..Len(ledger)
      BY <1>1 DEF TypeOK
    <3>3. /\ DOMAIN ledger' = 1..(Len(ledger) + 1) /\ ledger'[Len(ledger) + 1] = e
          /\ \A i \in 1..Len(ledger) : ledger'[i] = ledger[i]
          /\ Ingested' = Ingested \union {e}
      BY <1>1, <2>1, <3>2, IngestEffect
    <3>4. \A i \in 1..Len(ledger) :
             StreamOf[ledger[i]] = StreamOf[e] => Before(place[ledger[i]], place[e])
      BY <3>1, <3>2 DEF Behind, Ingested
    <3> QED
      BY <3>1, <3>2, <3>3, <3>4 DEF IInv, LedgerInOrder
  <2>2. CASE ~(Answer(e) = "202" /\ e \notin Ingested)
    BY <2>2 DEF Ingest, IInv, LedgerInOrder, Ingested
  <2> QED
    BY <2>1, <2>2
<1> QED
  BY <1>2, <1>3, <1>4, <1>5

-------------------------------------------------------------------------------
(* The invariant.                                                          *)

\* Empty tables satisfy it.
LEMMA InitIInv == Init => IInv
  BY EvidenceAssumption
  DEF Init, IInv, TypeOK, Status, Unfinished, Settled, Parked, NoPlace, OnlyEnqueuedHandled, Handled,
      Ingested, PlacesGivenInOrder, OneAtATime, AnswersHold, RecordsHold, LedgerInOrder

\* A new event lines up behind the others of its stream.
LEMMA EnqueueIInv ==
  ASSUME IInv, NEW e \in Events, Enqueue(e)
  PROVE  IInv'
<1> DEFINE s == StreamOf[e]
<1>1. s \in Streams /\ epoch[s] \in Nat /\ next[s] \in Nat /\ next'[s] = next[s] + 1
  BY EvidenceAssumption DEF IInv, TypeOK, Enqueue
<1>2. /\ status[e] = "absent" /\ ~Handled(e)
      /\ status' = [status EXCEPT ![e] = "pending"]
      /\ place' = [place EXCEPT ![e] = <<epoch[s], next[s]>>]
      /\ next' = [next EXCEPT ![s] = @ + 1]
      /\ UNCHANGED <<epoch, workerVars, coreVars>>
  BY DEF Enqueue, IInv, OnlyEnqueuedHandled
<1>3. Ingested' = Ingested /\ \A f \in Events : (Refused(f) <=> Refused(f)')
  BY <1>2 DEF coreVars, Ingested, Refused, ClosesCycle
<1>4. TypeOK'
  <2>1. status' \in [Events -> Status]
    BY <1>2 DEF IInv, TypeOK, Status, Unfinished
  <2>2. place' \in [Events -> Nat \X Nat]
    BY <1>1, <1>2 DEF IInv, TypeOK
  <2>3. epoch' \in [Streams -> Nat \ {0}] /\ next' \in [Streams -> Nat \ {0}]
    BY <1>1, <1>2 DEF IInv, TypeOK
  <2>4. due' \in [Events -> BOOLEAN] /\ UNCHANGED <<holder, leased, restarts, disruptions>>
    BY DEF IInv, TypeOK, Enqueue
  <2> QED
    BY <1>2, <2>1, <2>2, <2>3, <2>4 DEF IInv, TypeOK, workerVars, coreVars
<1>5. \A f \in Events : Handled(f)' <=> Handled(f)
  BY <1>2, <1>3 DEF Handled, workerVars, coreVars, IInv, TypeOK
<1>6. OnlyEnqueuedHandled'
  BY <1>2, <1>5 DEF IInv, TypeOK, OnlyEnqueuedHandled
<1>11. \A f \in Events \ {e} : status'[f] = status[f] /\ place'[f] = place[f]
  BY <1>2 DEF IInv, TypeOK
<1>12. status'[e] = "pending" /\ place'[e] = <<epoch[s], next[s]>>
  BY <1>2 DEF IInv, TypeOK
<1>13. \A f \in Events : status[f] # "absent" /\ StreamOf[f] = s
                          => Before(place[f], place'[e]) /\ place[f] # place'[e]
  BY <1>1, <1>12 DEF IInv, PlacesGivenInOrder, Before
<1>7. PlacesGivenInOrder'
  <2>1. ASSUME NEW f \in Events, status'[f] # "absent"
        PROVE  Before(place'[f], <<epoch'[StreamOf[f]], next'[StreamOf[f]]>>)
    <3>1. CASE f = e
      BY <1>1, <1>2, <1>12, <3>1 DEF Before
    <3>2. CASE f # e /\ StreamOf[f] = s
      <4>1. place'[f] = place[f] /\ Before(place[f], <<epoch[s], next[s]>>)
        BY <1>11, <2>1, <3>2 DEF IInv, PlacesGivenInOrder
      <4>2. place[f] \in Nat \X Nat
        BY DEF IInv, TypeOK
      <4>3. Before(place[f], <<epoch[s], next[s] + 1>>)
        BY <1>1, <4>1, <4>2, BeforeNext
      <4>4. epoch'[StreamOf[f]] = epoch[s] /\ next'[StreamOf[f]] = next[s] + 1
        BY <1>1, <1>2, <3>2
      <4> QED
        BY <4>1, <4>3, <4>4
    <3>3. CASE f # e /\ StreamOf[f] # s
      BY <1>2, <1>11, <2>1, <3>3, EvidenceAssumption DEF IInv, TypeOK, PlacesGivenInOrder
    <3> QED
      BY <3>1, <3>2, <3>3
  <2>2. ASSUME NEW f \in Events, NEW g \in Events, status'[f] # "absent",
               status'[g] # "absent", StreamOf[f] = StreamOf[g], place'[g] = place'[f]
        PROVE  g = f
    <3>1. CASE f = e /\ g # e
      BY <1>11, <1>13, <2>2, <3>1
    <3>2. CASE f # e /\ g = e
      BY <1>11, <1>13, <2>2, <3>2
    <3>3. CASE f # e /\ g # e
      <4>1. /\ status[f] # "absent" /\ status[g] # "absent"
            /\ place[g] = place[f] /\ StreamOf[g] = StreamOf[f]
        BY <1>11, <2>2, <3>3
      <4> QED
        BY <4>1 DEF IInv, PlacesGivenInOrder
    <3> QED
      BY <3>1, <3>2, <3>3
  <2> QED
    BY <2>1, <2>2 DEF PlacesGivenInOrder
<1>8. OneAtATime'
  <2> SUFFICES ASSUME NEW g \in Events, NEW f \in Events, Handled(g)', status'[f] # "absent",
                      StreamOf[f] = StreamOf[g], Before(place'[f], place'[g])
               PROVE  status'[f] \in Settled
    BY DEF OneAtATime
  <2>1. Handled(g) /\ g # e /\ status[g] # "absent" /\ place'[g] = place[g]
    BY <1>2, <1>5, <1>11 DEF IInv, OnlyEnqueuedHandled
  <2>2. f # e
    <3> SUFFICES ASSUME f = e PROVE FALSE
      OBVIOUS
    <3>1. Before(place[g], place'[e]) /\ Before(place'[e], place[g])
      BY <1>13, <2>1
    <3>2. place[g] \in Nat \X Nat /\ place'[e] \in Nat \X Nat
      BY <1>4, <2>1 DEF IInv, TypeOK
    <3> QED
      BY <3>1, <3>2, BeforeIsTotal
  <2> QED
    BY <1>11, <2>1, <2>2 DEF IInv, OneAtATime
<1>9. AnswersHold' /\ RecordsHold'
  BY <1>2, <1>3 DEF IInv, TypeOK, AnswersHold, RecordsHold, workerVars
<1>10. LedgerInOrder'
  <2>1. \A i \in DOMAIN ledger : ledger[i] \in Events /\ Handled(ledger[i])
    BY IngestedIsEvents DEF IInv, Handled, Ingested
  <2>2. ledger' = ledger
    BY <1>2 DEF coreVars
  <2>3. \A i \in DOMAIN ledger : place'[ledger[i]] = place[ledger[i]]
    BY <1>2, <1>11, <2>1
  <2>4. ASSUME NEW i \in DOMAIN ledger', NEW j \in DOMAIN ledger', i < j,
               StreamOf[ledger'[i]] = StreamOf[ledger'[j]]
        PROVE  Before(place'[ledger'[i]], place'[ledger'[j]])
    <3>1. Before(place[ledger[i]], place[ledger[j]])
      BY <2>2, <2>4 DEF IInv, LedgerInOrder
    <3> QED
      BY <2>2, <2>3, <3>1
  <2> QED
    BY <1>3, <2>4 DEF IInv, LedgerInOrder
<1> QED
  BY <1>4, <1>6, <1>7, <1>8, <1>9, <1>10 DEF IInv

\* Everything before the event is settled.
ClearBefore(e) ==
  /\ status[e] # "absent"
  /\ \A f \in Events : /\ status[f] # "absent" /\ StreamOf[f] = StreamOf[e]
                       /\ Before(place[f], place[e])
                       => status[f] \in Settled

\* A handled event is clear.
LEMMA HandledIsClear ==
  ASSUME IInv, NEW e \in Events, Handled(e) PROVE ClearBefore(e)
  BY DEF IInv, OnlyEnqueuedHandled, OneAtATime, ClearBefore

\* What keeps the outbox in order: a step that adds no event and gives no place
\* leaves settled records settled, and puts only clear events in hand.
LEMMA OutboxKeeps ==
  ASSUME IInv, place' = place,
         \A s \in Streams, p \in Nat \X Nat :
           Before(p, <<epoch[s], next[s]>>) => Before(p, <<epoch'[s], next'[s]>>),
         \A f \in Events : /\ status'[f] = "absent" <=> status[f] = "absent"
                           /\ status[f] \in Settled => status'[f] \in Settled
                           /\ Handled(f)' => ClearBefore(f)
  PROVE  OnlyEnqueuedHandled' /\ PlacesGivenInOrder' /\ OneAtATime'
<1>1. OnlyEnqueuedHandled'
  BY DEF OnlyEnqueuedHandled, ClearBefore
<1>2. PlacesGivenInOrder'
  <2> SUFFICES ASSUME NEW e \in Events, status'[e] # "absent"
               PROVE  /\ Before(place'[e], <<epoch'[StreamOf[e]], next'[StreamOf[e]]>>)
                      /\ \A f \in Events :
                           /\ status'[f] # "absent" /\ StreamOf[f] = StreamOf[e]
                           /\ place'[f] = place'[e]
                           => f = e
    BY DEF PlacesGivenInOrder
  <2>1. StreamOf[e] \in Streams /\ place[e] \in Nat \X Nat /\ status[e] # "absent"
    BY EvidenceAssumption DEF IInv, TypeOK
  <2>2. Before(place[e], <<epoch[StreamOf[e]], next[StreamOf[e]]>>)
    BY <2>1 DEF IInv, PlacesGivenInOrder
  <2>3. Before(place'[e], <<epoch'[StreamOf[e]], next'[StreamOf[e]]>>)
    BY <2>1, <2>2
  <2>4. ASSUME NEW f \in Events, status'[f] # "absent", StreamOf[f] = StreamOf[e],
               place'[f] = place'[e]
        PROVE  f = e
    BY <2>1, <2>4 DEF IInv, PlacesGivenInOrder
  <2> QED
    BY <2>3, <2>4
<1>3. OneAtATime'
  BY DEF OneAtATime, ClearBefore
<1> QED
  BY <1>1, <1>2, <1>3

\* A step that leaves the ledger alone leaves everything known of it true.
LEMMA LedgerStands ==
  ASSUME IInv, UNCHANGED <<place, ledger>>
  PROVE  /\ Ingested' = Ingested /\ LedgerInOrder'
         /\ \A f \in Events : Refused(f)' <=> Refused(f)
<1>1. Ingested' = Ingested
  BY DEF Ingested
<1> QED
  BY <1>1 DEF Refused, ClosesCycle, IInv, LedgerInOrder

\* A late request is one of a handled event.
LEMMA LateIngestIInv ==
  ASSUME IInv, NEW e \in Events, LateIngest(e)
  PROVE  IInv'
<1>1. /\ Ingest(e) /\ inflight' = inflight \ {e}
      /\ UNCHANGED <<epoch, next, status, place, holder, leased, due, claim, answer,
                     restarts, disruptions>>
  BY DEF LateIngest, streamVars, rowVars, workerVars
<1>2. Handled(e)
  BY DEF LateIngest, Handled
<1>3. TypeOK'
  BY <1>1, IngestEffect DEF IInv, TypeOK
<1>4. /\ LedgerInOrder' /\ RecordsHold'
      /\ Ingested \subseteq Ingested' /\ Ingested' \subseteq Ingested \union {e}
      /\ \A f \in Events : Refused(f) => Refused(f)'
  BY <1>1, <1>2, IngestKeeps
<1>5. \A f \in Events : Handled(f)' => Handled(f)
  BY <1>1, <1>2, <1>4 DEF Handled
<1>6. OnlyEnqueuedHandled' /\ PlacesGivenInOrder' /\ OneAtATime'
  BY <1>1, <1>5, HandledIsClear, OutboxKeeps
<1>7. AnswersHold'
  BY <1>1, <1>4 DEF IInv, TypeOK, AnswersHold
<1> QED
  BY <1>3, <1>4, <1>6, <1>7 DEF IInv

\* A replica that starts again takes a new epoch, which is after every place.
LEMMA RestartIInv ==
  ASSUME IInv, NEW w \in Workers, Restart(w)
  PROVE  IInv'
<1> DEFINE s == StreamOf[w]
<1>1. /\ epoch' = [epoch EXCEPT ![s] = @ + 1] /\ next' = [next EXCEPT ![s] = 1]
      /\ claim' = [claim EXCEPT ![w] = None] /\ answer' = [answer EXCEPT ![w] = "none"]
      /\ inflight' = inflight
         \/ (claim[w] # None /\ inflight' = inflight \union {claim[w]})
      /\ restarts < MaxRestarts /\ restarts' = restarts + 1
      /\ UNCHANGED <<status, place, holder, leased, due, ledger, disruptions>>
  BY DEF Restart, Forget, AcquireEpoch, rowVars
<1>2. s \in Streams
  BY EvidenceAssumption
<1>3. /\ Ingested' = Ingested /\ LedgerInOrder'
      /\ \A f \in Events : Refused(f)' <=> Refused(f)
  BY <1>1, LedgerStands
<1>4. TypeOK'
  <2>1. epoch' \in [Streams -> Nat \ {0}] /\ next' \in [Streams -> Nat \ {0}]
    BY <1>1, <1>2 DEF IInv, TypeOK
  <2>2. /\ claim' \in [Workers -> Events \union {None}]
        /\ answer' \in [Workers -> {"none", "delivered", "retry"} \union Parked]
        /\ \A v \in Workers : answer'[v] # "none" => claim'[v] # None
    BY <1>1 DEF IInv, TypeOK
  <2>3. inflight' \subseteq Events /\ ledger' \in Seq(Events)
    BY <1>1 DEF IInv, TypeOK
  <2>4. restarts' \in 0..MaxRestarts /\ disruptions' \in 0..MaxDisruptions
    BY <1>1, EvidenceAssumption DEF IInv, TypeOK
  <2> QED
    BY <1>1, <2>1, <2>2, <2>3, <2>4 DEF IInv, TypeOK
<1>5. \A f \in Events : Handled(f)' => Handled(f)
  <2>1. None \notin Events /\ \A v \in Workers : claim'[v] \in {None, claim[v]}
    BY <1>1, EvidenceAssumption DEF IInv, TypeOK
  <2> QED
    BY <1>1, <1>3, <2>1 DEF Handled
<1>6. ASSUME NEW r \in Streams, NEW p \in Nat \X Nat, Before(p, <<epoch[r], next[r]>>)
      PROVE  Before(p, <<epoch'[r], next'[r]>>)
  <2>1. epoch[r] \in Nat /\ next[r] \in Nat
    BY DEF IInv, TypeOK
  <2>2. Before(p, <<epoch[r] + 1, 1>>)
    BY <2>1, <1>6, BeforeNext
  <2>3. IF r = s THEN epoch'[r] = epoch[r] + 1 /\ next'[r] = 1
                 ELSE epoch'[r] = epoch[r] /\ next'[r] = next[r]
    BY <1>1 DEF IInv, TypeOK
  <2> QED
    BY <1>6, <2>2, <2>3
<1>7. OnlyEnqueuedHandled' /\ PlacesGivenInOrder' /\ OneAtATime'
  BY <1>1, <1>5, <1>6, HandledIsClear, OutboxKeeps
<1>8. AnswersHold' /\ RecordsHold'
  BY <1>1, <1>3 DEF IInv, TypeOK, AnswersHold, RecordsHold
<1> QED
  BY <1>3, <1>4, <1>7, <1>8 DEF IInv

\* A worker takes the head of the line, which is clear.
LEMMA ClaimIInv ==
  ASSUME IInv, NEW w \in Workers, NEW e \in Events, ClaimHeadOfLine(w, e)
  PROVE  IInv'
<1>1. /\ status' = [status EXCEPT ![e] = "processing"]
      /\ holder' = [holder EXCEPT ![e] = w] /\ leased' = [leased EXCEPT ![e] = TRUE]
      /\ claim[w] = None /\ claim' = [claim EXCEPT ![w] = e]
      /\ UNCHANGED <<epoch, next, place, due, answer, inflight, ledger,
                     restarts, disruptions>>
      /\ HeadOfLine(e) /\ status[e] \in {"pending", "retry", "processing"}
  BY DEF ClaimHeadOfLine, Claimable, streamVars, coreVars
<1>2. answer[w] = "none"
  BY <1>1 DEF IInv, TypeOK
<1>3. /\ Ingested' = Ingested /\ LedgerInOrder'
      /\ \A f \in Events : Refused(f)' <=> Refused(f)
  BY <1>1, LedgerStands
<1>4. \A f \in Events : status'[f] = IF f = e THEN "processing" ELSE status[f]
  BY <1>1 DEF IInv, TypeOK
<1>5. TypeOK'
  BY <1>1, <1>2, EvidenceAssumption DEF IInv, TypeOK, Status, Unfinished
<1>6. ClearBefore(e)
  BY <1>1 DEF ClearBefore, HeadOfLine, IInv, TypeOK, Status, Unfinished, Settled
<1>7. \A f \in Events : Handled(f)' => Handled(f) \/ f = e
  BY <1>1, <1>3, <1>4 DEF Handled, IInv, TypeOK
<1>8. OnlyEnqueuedHandled' /\ PlacesGivenInOrder' /\ OneAtATime'
  <2>1. \A f \in Events : /\ status'[f] = "absent" <=> status[f] = "absent"
                          /\ status[f] \in Settled => status'[f] \in Settled
                          /\ Handled(f)' => ClearBefore(f)
    BY <1>1, <1>4, <1>6, <1>7, HandledIsClear DEF Settled
  <2> QED
    BY <1>1, <2>1, OutboxKeeps
<1>9. AnswersHold' /\ RecordsHold'
  BY <1>1, <1>2, <1>3, <1>4 DEF IInv, TypeOK, AnswersHold, RecordsHold
<1> QED
  BY <1>3, <1>5, <1>8, <1>9 DEF IInv

\* Core answers for an event the worker has in hand, or may have taken it when
\* the worker learns nothing.
LEMMA DeliverIInv ==
  ASSUME IInv, NEW w \in Workers, Deliver(w)
  PROVE  IInv'
<1>1. PICK e \in Events : e = claim[w] /\ e # None /\ Handled(e)
  BY DEF Deliver, Handled, IInv, TypeOK
<1>2. UNCHANGED <<epoch, next, status, place, holder, leased, due, claim, restarts>>
  BY DEF Deliver, streamVars, rowVars
<1>3. /\ Ingest(e) \/ UNCHANGED ledger
      /\ inflight' = inflight \/ inflight' = inflight \union {e}
      /\ \/ Ingest(e) /\ answer' = [answer EXCEPT ![w] = CoreDeliveryOutcome(Answer(e))]
         \/ answer' = [answer EXCEPT ![w] = "retry"]
      /\ disruptions' = disruptions
         \/ (disruptions < MaxDisruptions /\ disruptions' = disruptions + 1)
  BY <1>1 DEF Deliver, Disrupt, Unanswered
<1>4. /\ LedgerInOrder' /\ RecordsHold'
      /\ Ingested \subseteq Ingested' /\ Ingested' \subseteq Ingested \union {e}
      /\ \A f \in Events : Refused(f) => Refused(f)'
  <2>1. CASE Ingest(e)
    BY <1>1, <1>2, <2>1, IngestKeeps
  <2>2. CASE UNCHANGED ledger
    BY <1>2, <2>2, LedgerStands DEF IInv, RecordsHold
  <2> QED
    BY <1>3, <2>1, <2>2
<1>5. \/ answer'[w] = "retry"
      \/ answer'[w] = "delivered" /\ e \in Ingested'
      \/ answer'[w] = "dlq" /\ Refused(e)'
  <2>1. CASE answer' = [answer EXCEPT ![w] = "retry"]
    BY <2>1 DEF IInv, TypeOK
  <2>2. CASE Ingest(e) /\ answer' = [answer EXCEPT ![w] = CoreDeliveryOutcome(Answer(e))]
    <3>1. answer'[w] = CoreDeliveryOutcome(Answer(e))
      BY <2>2 DEF IInv, TypeOK
    <3>2. /\ Answer(e) \in {"202", "400", "500"}
          /\ Answer(e) = "202" => e \in Ingested'
          /\ Answer(e) = "400" => Refused(e)'
      BY <1>1, <2>2, AnswerIsTrue
    <3> QED
      BY <3>1, <3>2 DEF CoreDeliveryOutcome
  <2> QED
    BY <1>3, <2>1, <2>2
<1>6. /\ answer' \in [Workers -> {"none", "delivered", "retry"} \union Parked]
      /\ \A v \in Workers \ {w} : answer'[v] = answer[v]
  BY <1>3, <1>5 DEF IInv, TypeOK, Parked
<1>7. TypeOK'
  <2>1. ledger' \in Seq(Events)
    BY <1>1, <1>3, IngestEffect DEF IInv, TypeOK
  <2>2. disruptions' \in 0..MaxDisruptions
    BY <1>3, EvidenceAssumption DEF IInv, TypeOK
  <2>3. inflight' \subseteq Events
    BY <1>1, <1>3 DEF IInv, TypeOK
  <2>4. \A v \in Workers : answer'[v] # "none" => claim'[v] # None
    BY <1>1, <1>2, <1>6 DEF IInv, TypeOK
  <2> QED
    BY <1>2, <1>6, <2>1, <2>2, <2>3, <2>4 DEF IInv, TypeOK
<1>8. \A f \in Events : Handled(f)' => Handled(f)
  BY <1>1, <1>2, <1>3, <1>4 DEF Handled
<1>9. OnlyEnqueuedHandled' /\ PlacesGivenInOrder' /\ OneAtATime'
  BY <1>2, <1>8, HandledIsClear, OutboxKeeps
<1>10. AnswersHold'
  <2> SUFFICES ASSUME NEW v \in Workers
               PROVE  /\ answer'[v] = "delivered" => claim'[v] \in Ingested'
                      /\ answer'[v] = "dlq" => Refused(claim[v])'
                      /\ answer'[v] # "conflict"
    BY DEF AnswersHold
  <2>1. CASE v = w
    <3>1. claim'[v] = e
      BY <1>1, <1>2, <2>1
    <3>2. Refused(e)' => Refused(claim[v])'
      BY <3>1
    <3> QED
      BY <1>5, <2>1, <3>1, <3>2
  <2>2. CASE v # w
    <3>1. CASE answer[v] = "none"
      BY <1>6, <2>2, <3>1
    <3>2. CASE answer[v] # "none"
      <4>1. PICK f \in Events : f = claim[v] /\ f = claim'[v]
        BY <1>2, <3>2 DEF IInv, TypeOK
      <4>2. Refused(f) <=> Refused(claim[v])
        BY <4>1
      <4>3. Refused(f)' <=> Refused(claim[v])'
        BY <4>1
      <4> QED
        BY <1>4, <1>6, <2>2, <4>1, <4>2, <4>3 DEF IInv, AnswersHold
    <3> QED
      BY <3>1, <3>2
  <2> QED
    BY <2>1, <2>2
<1> QED
  BY <1>4, <1>7, <1>9, <1>10 DEF IInv

\* A step that leaves the ledger, the requests and the workers' records alone,
\* and changes of an outbox row only a handled one's, to what is true of it.
LEMMA RowStepIInv ==
  ASSUME IInv, TypeOK', UNCHANGED <<epoch, next, place, ledger, inflight>>,
         \A w \in Workers : \/ claim'[w] = claim[w] /\ answer'[w] = answer[w]
                            \/ claim'[w] = None /\ answer'[w] = "none",
         \A f \in Events :
           \/ status'[f] = status[f]
           \/ /\ status[f] # "absent" /\ Handled(f)
              /\ status[f] \in Settled => status'[f] \in Settled
              /\ \/ status'[f] \in {"processing", "retry"}
                 \/ status'[f] = "delivered" /\ f \in Ingested
                 \/ status'[f] \in {"dlq", "abandoned"} /\ Refused(f)
                 \/ status'[f] = "removed" /\ (f \in Ingested \/ Refused(f))
  PROVE  IInv'
<1>1. /\ Ingested' = Ingested /\ LedgerInOrder'
      /\ \A f \in Events : Refused(f)' <=> Refused(f)
  BY LedgerStands
<1>2. \A f \in Events : /\ status'[f] = "absent" <=> status[f] = "absent"
                        /\ status[f] \in Settled => status'[f] \in Settled
  OBVIOUS
<1>3. \A f \in Events : Handled(f)' => Handled(f)
  BY <1>1, EvidenceAssumption DEF Handled
<1>4. OnlyEnqueuedHandled' /\ PlacesGivenInOrder' /\ OneAtATime'
  BY <1>2, <1>3, HandledIsClear, OutboxKeeps
<1>5. RecordsHold'
  BY <1>1 DEF IInv, RecordsHold
<1>6. AnswersHold'
  <2> SUFFICES ASSUME NEW v \in Workers
               PROVE  /\ answer'[v] = "delivered" => claim'[v] \in Ingested'
                      /\ answer'[v] = "dlq" => Refused(claim[v])'
                      /\ answer'[v] # "conflict"
    BY DEF AnswersHold
  <2>1. CASE answer'[v] = "none"
    BY <2>1
  <2>2. CASE answer'[v] # "none"
    <3>1. claim'[v] = claim[v] /\ answer'[v] = answer[v]
      BY <2>2
    <3>2. PICK f \in Events : f = claim[v] /\ f = claim'[v]
      BY <2>2, <3>1 DEF IInv, TypeOK
    <3>3. Refused(f) <=> Refused(claim[v])
      BY <3>2
    <3>4. Refused(f)' <=> Refused(claim[v])'
      BY <3>2
    <3> QED
      BY <1>1, <3>1, <3>2, <3>3, <3>4 DEF IInv, AnswersHold
  <2> QED
    BY <2>1, <2>2
<1> QED
  BY <1>1, <1>4, <1>5, <1>6 DEF IInv

\* A worker records Core's answer while it holds the lease, and what it records
\* is true; one that lost the lease changes nothing.
LEMMA CompleteIInv ==
  ASSUME IInv, NEW w \in Workers, Complete(w)
  PROVE  IInv'
<1>1. /\ answer[w] # "none" /\ CompleteRecord(w, claim[w])
      /\ claim' = [claim EXCEPT ![w] = None] /\ answer' = [answer EXCEPT ![w] = "none"]
      /\ UNCHANGED <<epoch, next, place, inflight, ledger, restarts, disruptions>>
  BY DEF Complete, EndDelivery, streamVars, coreVars
<1>2. PICK e \in Events : e = claim[w] /\ Handled(e)
  BY <1>1 DEF IInv, TypeOK, Handled
<1>3. \A v \in Workers : \/ claim'[v] = claim[v] /\ answer'[v] = answer[v]
                         \/ claim'[v] = None /\ answer'[v] = "none"
  BY <1>1 DEF IInv, TypeOK
<1>4. CASE HoldsLease(w, e)
  <2>1. /\ status' = [status EXCEPT ![e] = answer[w]]
        /\ holder' = [holder EXCEPT ![e] = None]
        /\ leased' = [leased EXCEPT ![e] = FALSE]
        /\ due' = [due EXCEPT ![e] = answer[w] # "retry"]
        /\ status[e] = "processing"
    BY <1>1, <1>2, <1>4 DEF CompleteRecord, Settle, HoldsLease
  <2>2. \/ answer[w] = "retry"
        \/ answer[w] = "delivered" /\ e \in Ingested
        \/ answer[w] = "dlq" /\ Refused(e)
    BY <1>1, <1>2 DEF IInv, TypeOK, Parked, AnswersHold
  <2>3. TypeOK'
    <3>1. /\ status' \in [Events -> Status] /\ holder' \in [Events -> Workers \union {None}]
          /\ leased' \in [Events -> BOOLEAN] /\ due' \in [Events -> BOOLEAN]
      BY <2>1, <2>2 DEF IInv, TypeOK, Status, Unfinished
    <3>2. /\ claim' \in [Workers -> Events \union {None}]
          /\ answer' \in [Workers -> {"none", "delivered", "retry"} \union Parked]
          /\ \A v \in Workers : answer'[v] # "none" => claim'[v] # None
      BY <1>1 DEF IInv, TypeOK
    <3> QED
      BY <1>1, <3>1, <3>2 DEF IInv, TypeOK
  <2>4. \A f \in Events : status'[f] = IF f = e THEN answer[w] ELSE status[f]
    BY <2>1 DEF IInv, TypeOK
  <2>5. ASSUME NEW f \in Events
        PROVE  \/ status'[f] = status[f]
               \/ /\ status[f] # "absent" /\ Handled(f)
                  /\ status[f] \in Settled => status'[f] \in Settled
                  /\ \/ status'[f] \in {"processing", "retry"}
                     \/ status'[f] = "delivered" /\ f \in Ingested
                     \/ status'[f] \in {"dlq", "abandoned"} /\ Refused(f)
                     \/ status'[f] = "removed" /\ (f \in Ingested \/ Refused(f))
    <3>1. CASE f = e
      BY <1>2, <2>1, <2>2, <2>4, <3>1 DEF Settled
    <3>2. CASE f # e
      BY <2>4, <3>2
    <3> QED
      BY <3>1, <3>2
  <2> QED
    BY <1>1, <1>3, <2>3, <2>5, RowStepIInv
<1>5. CASE ~HoldsLease(w, e)
  <2>1. UNCHANGED <<status, holder, leased, due>>
    BY <1>1, <1>2, <1>5 DEF CompleteRecord
  <2>2. TypeOK'
    BY <1>1, <2>1 DEF IInv, TypeOK
  <2> QED
    BY <1>1, <1>3, <2>1, <2>2, RowStepIInv
<1> QED
  BY <1>4, <1>5

\* A failed update only ends the delivery.
LEMMA CompleteFailsIInv ==
  ASSUME IInv, NEW w \in Workers, CompleteFails(w)
  PROVE  IInv'
<1>1. /\ claim' = [claim EXCEPT ![w] = None] /\ answer' = [answer EXCEPT ![w] = "none"]
      /\ disruptions < MaxDisruptions /\ disruptions' = disruptions + 1
      /\ UNCHANGED <<epoch, next, status, place, holder, leased, due, inflight, ledger, restarts>>
  BY DEF CompleteFails, EndDelivery, Disrupt, streamVars, rowVars, coreVars
<1>2. disruptions' \in 0..MaxDisruptions
  BY <1>1, EvidenceAssumption DEF IInv, TypeOK
<1>3. TypeOK'
  BY <1>1, <1>2 DEF IInv, TypeOK
<1> QED
  BY <1>1, <1>3, RowStepIInv DEF IInv, TypeOK

\* Time only ends leases and delays.
LEMMA TimeIInv ==
  ASSUME IInv, NEW e \in Events, LeaseExpires(e) \/ LeaseLost(e) \/ RetryDelayPasses(e)
  PROVE  IInv'
<1>1. /\ leased' = leased \/ leased' = [leased EXCEPT ![e] = FALSE]
      /\ due' = due \/ due' = [due EXCEPT ![e] = TRUE]
      /\ disruptions' = disruptions
         \/ (disruptions < MaxDisruptions /\ disruptions' = disruptions + 1)
      /\ UNCHANGED <<epoch, next, status, place, holder, claim, answer, inflight, ledger, restarts>>
  BY DEF LeaseExpires, LeaseLost, RetryDelayPasses, Disrupt, streamVars, workerVars, coreVars
<1>2. disruptions' \in 0..MaxDisruptions
  BY <1>1, EvidenceAssumption DEF IInv, TypeOK
<1>3. TypeOK'
  BY <1>1, <1>2 DEF IInv, TypeOK
<1> QED
  BY <1>1, <1>3, RowStepIInv

\* Operators act on records that wait for them, the retention job on settled ones.
LEMMA OperatorIInv ==
  ASSUME IInv, NEW e \in Events, Retry(e) \/ Abandon(e) \/ Cleanup(e)
  PROVE  IInv'
<1>1. PICK to \in {"retry", "abandoned", "removed"} :
        /\ status' = [status EXCEPT ![e] = to]
        /\ \/ status[e] = "dlq" /\ to \in {"retry", "abandoned"}
           \/ status[e] \in {"delivered", "abandoned"} /\ to = "removed"
  BY DEF Retry, Abandon, Cleanup, Parked, IInv, RecordsHold
<1>2. /\ due' = due \/ due' = [due EXCEPT ![e] = TRUE]
      /\ UNCHANGED <<epoch, next, place, holder, leased, claim, answer, inflight, ledger,
                     restarts, disruptions>>
  BY DEF Retry, Abandon, Cleanup, streamVars, workerVars, coreVars
<1>3. TypeOK'
  BY <1>1, <1>2 DEF IInv, TypeOK, Status, Unfinished
<1>4. \A f \in Events : status'[f] = IF f = e THEN to ELSE status[f]
  BY <1>1 DEF IInv, TypeOK
<1>5. /\ status[e] = "dlq" => Refused(e)
      /\ status[e] \in {"delivered", "abandoned"} => e \in Ingested \/ Refused(e)
  BY DEF IInv, RecordsHold
<1>6. status[e] # "absent" /\ Handled(e)
  BY <1>1 DEF Handled
<1> QED
  BY <1>1, <1>2, <1>3, <1>4, <1>5, <1>6, RowStepIInv DEF Settled

\* Every step keeps the invariant.
LEMMA NextIInv ==
  IInv /\ [Next]_vars => IInv'
<1> SUFFICES ASSUME IInv, [Next]_vars PROVE IInv'
  OBVIOUS
<1>1. ASSUME NEW e \in Events, Enqueue(e) PROVE IInv'
  BY <1>1, EnqueueIInv
<1>2. ASSUME NEW e \in Events, LateIngest(e) PROVE IInv'
  BY <1>2, LateIngestIInv
<1>3. ASSUME NEW e \in Events, LeaseExpires(e) \/ LeaseLost(e) \/ RetryDelayPasses(e)
      PROVE  IInv'
  BY <1>3, TimeIInv
<1>4. ASSUME NEW e \in Events, Retry(e) \/ Abandon(e) \/ Cleanup(e) PROVE IInv'
  BY <1>4, OperatorIInv
<1>5. ASSUME NEW w \in Workers, NEW e \in Events, ClaimHeadOfLine(w, e) PROVE IInv'
  BY <1>5, ClaimIInv
<1>6. ASSUME NEW w \in Workers, Restart(w) PROVE IInv'
  BY <1>6, RestartIInv
<1>7. ASSUME NEW w \in Workers, Deliver(w) PROVE IInv'
  BY <1>7, DeliverIInv
<1>8. ASSUME NEW w \in Workers, Complete(w) PROVE IInv'
  BY <1>8, CompleteIInv
<1>9. ASSUME NEW w \in Workers, CompleteFails(w) PROVE IInv'
  BY <1>9, CompleteFailsIInv
<1>10. CASE UNCHANGED vars
  <2>1. UNCHANGED <<epoch, next, status, place, holder, leased, due, claim, answer,
                    inflight, ledger, restarts, disruptions>>
    BY <1>10 DEF vars, streamVars, rowVars, workerVars, coreVars
  <2>2. TypeOK'
    BY <2>1 DEF IInv, TypeOK
  <2> QED
    BY <2>1, <2>2, RowStepIInv
<1> QED
  BY <1>1, <1>2, <1>3, <1>4, <1>5, <1>6, <1>7, <1>8, <1>9, <1>10 DEF Next

\* The invariant holds in every reachable state.
LEMMA Invariance == Spec => []IInv
  BY InitIInv, NextIInv, PTL DEF Spec

-------------------------------------------------------------------------------
(* Refinement.                                                             *)

\* The report of an event is a function of its status.
FateOf(st) ==
  CASE st \in {"pending", "processing", "retry"} -> "open"
    [] st = "dlq" -> "parked"
    [] OTHER -> st

\* How reports, order and ledger of the promise read in the outbox and in Core.
LEMMA PromiseReads ==
  /\ fate = [e \in Events |-> FateOf(status[e])]
  /\ Delivery!Taken = Ingested
  /\ Delivery!Settled = Settled
  /\ \A st \in Status \ {"conflict"} :
       /\ FateOf(st) = "absent" <=> st = "absent"
       /\ FateOf(st) = "open" <=> st \in {"pending", "processing", "retry"}
       /\ FateOf(st) = "parked" <=> st = "dlq"
       /\ FateOf(st) \in Settled <=> st \in Settled
       /\ st \in Settled => FateOf(st) = st
<1>1. fate = [e \in Events |-> FateOf(status[e])]
  BY DEF fate, FateOf
<1>2. Delivery!Taken = Ingested /\ Delivery!Settled = Settled
  BY DEF Delivery!Taken, Ingested, Delivery!Settled, Settled
<1>3. ASSUME NEW st \in Status \ {"conflict"}
      PROVE  /\ FateOf(st) = "absent" <=> st = "absent"
             /\ FateOf(st) = "open" <=> st \in {"pending", "processing", "retry"}
             /\ FateOf(st) = "parked" <=> st = "dlq"
             /\ FateOf(st) \in Settled <=> st \in Settled
             /\ st \in Settled => FateOf(st) = st
  BY DEF FateOf, Status, Unfinished, Settled
<1> QED
  BY <1>1, <1>2, <1>3

\* An event that is handled, open and clear has its turn.
LEMMA ClearHasTurn ==
  ASSUME IInv, NEW e \in Events, Handled(e), status[e] \in {"pending", "processing", "retry"}
  PROVE  Delivery!HasTurn(e)
<1>1. ClearBefore(e) /\ \A f \in Events : status[f] \in Status \ {"conflict"}
  BY HandledIsClear DEF IInv, TypeOK, RecordsHold
<1>2. fate[e] = "open"
  BY <1>1, PromiseReads
<1>3. \A f \in earlier[e] : f \in Events /\ status[f] \in Settled
  BY <1>1 DEF earlier, ClearBefore
<1>4. \A f \in earlier[e] : fate[f] \in Delivery!Settled
  BY <1>1, <1>3, PromiseReads
<1> QED
  BY <1>2, <1>4 DEF Delivery!HasTurn

\* A request adds nothing to the ledger, or an event that has its turn.
LEMMA IngestRefines ==
  ASSUME IInv, NEW e \in Events, Handled(e), Ingest(e), UNCHANGED <<status, place>>
  PROVE  [Delivery!Next]_Delivery!vars
<1>1. fate' = fate /\ earlier' = earlier
  BY DEF fate, earlier
<1>2. CASE Answer(e) = "202" /\ e \notin Ingested
  <2>1. status[e] \in {"pending", "processing", "retry"}
    <3>1. ~Refused(e)
      BY <1>2 DEF Answer, Refused
    <3>2. status[e] \in Status /\ status[e] # "absent"
      BY DEF IInv, TypeOK, OnlyEnqueuedHandled
    <3> QED
      BY <1>2, <3>1, <3>2 DEF IInv, RecordsHold, Status, Unfinished
  <2>2. Delivery!HasTurn(e) /\ e \notin Delivery!Taken
    BY <1>2, <2>1, ClearHasTurn, PromiseReads
  <2> QED
    BY <1>1, <1>2, <2>2 DEF Ingest, Delivery!Take, Delivery!Next
<1>3. CASE ~(Answer(e) = "202" /\ e \notin Ingested)
  BY <1>1, <1>3 DEF Ingest, Delivery!vars
<1> QED
  BY <1>2, <1>3

\* A row that changes its status reports what the promise allows.
LEMMA StatusRefines ==
  ASSUME IInv, NEW e \in Events, NEW to \in Status \ {"absent", "conflict"},
         status' = [status EXCEPT ![e] = to], UNCHANGED <<place, ledger>>,
         status[e] # "absent",
         \/ FateOf(to) = FateOf(status[e])
         \/ FateOf(status[e]) = "open" /\ to = "delivered" /\ e \in Ingested
         \/ FateOf(status[e]) = "open" /\ to = "dlq" /\ e \notin Ingested /\ Delivery!HasTurn(e)
         \/ status[e] = "dlq" /\ to \in {"retry", "abandoned"}
         \/ status[e] \in {"delivered", "abandoned"} /\ to = "removed"
  PROVE  [Delivery!Next]_Delivery!vars
<1>1. \A f \in Events : status'[f] = IF f = e THEN to ELSE status[f]
  BY DEF IInv, TypeOK
<1>2. earlier' = earlier
  BY <1>1 DEF earlier
<1>3. fate' = [fate EXCEPT ![e] = FateOf(to)]
  <2>1. fate' = [f \in Events |-> FateOf(status'[f])]
    BY DEF fate, FateOf
  <2> QED
    BY <1>1, <2>1, PromiseReads
<1>4. fate[e] = FateOf(status[e]) /\ fate \in [Events -> {FateOf(status[f]) : f \in Events}]
  BY PromiseReads
<1>5. CASE FateOf(to) = FateOf(status[e])
  BY <1>2, <1>3, <1>4, <1>5 DEF Delivery!vars
<1>6. CASE FateOf(status[e]) = "open" /\ to = "delivered" /\ e \in Ingested
  <2>1. FateOf(to) = "delivered" /\ e \in Delivery!Taken
    BY <1>6, PromiseReads DEF FateOf
  <2> QED
    BY <1>2, <1>3, <1>4, <1>6, <2>1 DEF Delivery!Next, Delivery!Acknowledge, Delivery!Report
<1>7. CASE FateOf(status[e]) = "open" /\ to = "dlq" /\ e \notin Ingested /\ Delivery!HasTurn(e)
  <2>1. FateOf(to) = "parked" /\ e \notin Delivery!Taken
    BY <1>7, PromiseReads DEF FateOf
  <2> QED
    BY <1>2, <1>3, <1>4, <1>7, <2>1 DEF Delivery!Next, Delivery!Park, Delivery!Report
<1>8. CASE status[e] = "dlq" /\ to \in {"retry", "abandoned"}
  <2>1. fate[e] = "parked" /\ FateOf(to) \in {"open", "abandoned"}
    BY <1>4, <1>8 DEF FateOf
  <2> QED
    BY <1>2, <1>3, <1>8, <2>1
    DEF Delivery!Next, Delivery!Reopen, Delivery!GiveUp, Delivery!Report
<1>9. CASE status[e] \in {"delivered", "abandoned"} /\ to = "removed"
  <2>1. fate[e] \in {"delivered", "abandoned"} /\ FateOf(to) = "removed"
    BY <1>4, <1>9 DEF FateOf
  <2> QED
    BY <1>2, <1>3, <1>9, <2>1 DEF Delivery!Next, Delivery!Forget, Delivery!Report
<1> QED
  BY <1>5, <1>6, <1>7, <1>8, <1>9

\* A new event is behind all those its stream has produced.
LEMMA EnqueueRefines ==
  ASSUME IInv, NEW e \in Events, Enqueue(e)
  PROVE  Delivery!Next
<1> DEFINE s == StreamOf[e]
           p == <<epoch[s], next[s]>>
<1>1. /\ status[e] = "absent" /\ status' = [status EXCEPT ![e] = "pending"]
      /\ place' = [place EXCEPT ![e] = p] /\ ledger' = ledger
  BY DEF Enqueue, coreVars
<1>2. \A f \in Events : /\ status'[f] = IF f = e THEN "pending" ELSE status[f]
                        /\ place'[f] = IF f = e THEN p ELSE place[f]
  BY <1>1 DEF IInv, TypeOK
<1>3. p \in Nat \X Nat
  BY EvidenceAssumption DEF IInv, TypeOK
<1>4. \A f \in Events : status[f] # "absent" /\ StreamOf[f] = s
                          => Before(place[f], p) /\ ~Before(p, place[f])
  <2>1. \A f \in Events : place[f] \in Nat \X Nat
    BY DEF IInv, TypeOK
  <2> HIDE DEF p
  <2> QED
    BY <1>3, <2>1, BeforeIsTotal DEF IInv, PlacesGivenInOrder, p
<1>5. earlier' = [earlier EXCEPT ![e] =
                    {f \in Events : StreamOf[f] = StreamOf[e] /\ fate[f] # "absent"}]
  <2> DEFINE before == {f \in Events : StreamOf[f] = StreamOf[e] /\ fate[f] # "absent"}
  <2>1. before = {f \in Events : StreamOf[f] = StreamOf[e] /\ status[f] # "absent"}
    <3>1. \A f \in Events : status[f] \in Status \ {"conflict"}
      BY DEF IInv, TypeOK, RecordsHold
    <3>2. \A f \in Events : fate[f] # "absent" <=> status[f] # "absent"
      BY <3>1, PromiseReads
    <3> QED
      BY <3>2
  <2>2. earlier'[e] = before
    <3>1. earlier'[e] = {f \in Events : /\ status'[e] # "absent" /\ status'[f] # "absent"
                                        /\ StreamOf[f] = StreamOf[e] /\ Before(place'[f], place'[e])}
      BY DEF earlier
    <3>2. ~Before(p, p)
      BY <1>3, BeforeIsTotal
    <3> HIDE DEF p
    <3> QED
      BY <1>1, <1>2, <1>4, <2>1, <3>1, <3>2
  <2>3. ASSUME NEW g \in Events, g # e PROVE earlier'[g] = earlier[g]
    <3>1. earlier'[g] = {f \in Events : /\ status'[g] # "absent" /\ status'[f] # "absent"
                                        /\ StreamOf[f] = StreamOf[g] /\ Before(place'[f], place'[g])}
      BY DEF earlier
    <3>2. earlier[g] = {f \in Events : /\ status[g] # "absent" /\ status[f] # "absent"
                                       /\ StreamOf[f] = StreamOf[g] /\ Before(place[f], place[g])}
      BY DEF earlier
    <3> HIDE DEF p
    <3> QED
      BY <1>1, <1>2, <1>4, <2>3, <3>1, <3>2
  <2> HIDE DEF before
  <2>4. /\ earlier' = [g \in Events |-> earlier'[g]] /\ earlier = [g \in Events |-> earlier[g]]
    BY DEF earlier
  <2>5. earlier' = [earlier EXCEPT ![e] = before]
    BY <2>2, <2>3, <2>4
  <2> QED
    BY <2>5 DEF before
<1>6. fate[e] = "absent" /\ fate' = [fate EXCEPT ![e] = "open"]
  <2>1. fate' = [f \in Events |-> FateOf(status'[f])]
    BY DEF fate, FateOf
  <2>2. FateOf("pending") = "open" /\ FateOf("absent") = "absent"
    BY DEF FateOf
  <2> QED
    BY <1>1, <1>2, <2>1, <2>2, PromiseReads
<1> QED
  BY <1>1, <1>5, <1>6 DEF Delivery!Next, Delivery!Produce

\* A step that changes no status, no place and not the ledger is invisible to
\* the promise.
LEMMA NothingReported ==
  UNCHANGED <<status, place, ledger>> => UNCHANGED Delivery!vars
  BY DEF Delivery!vars, fate, earlier

\* A request is one of a handled event.
LEMMA DeliverRefines ==
  ASSUME IInv, NEW w \in Workers, Deliver(w)
  PROVE  [Delivery!Next]_Delivery!vars
<1>1. /\ claim[w] # None /\ UNCHANGED <<status, place>>
      /\ Ingest(claim[w]) \/ UNCHANGED ledger
  BY DEF Deliver, Unanswered, rowVars
<1>2. claim[w] \in Events /\ Handled(claim[w])
  BY <1>1 DEF IInv, TypeOK, Handled
<1> QED
  BY <1>1, <1>2, IngestRefines, NothingReported

\* What a worker records is a report the promise allows: it is true, and of an event
\* that has its turn.
LEMMA CompleteRefines ==
  ASSUME IInv, NEW w \in Workers, Complete(w)
  PROVE  [Delivery!Next]_Delivery!vars
<1>1. /\ answer[w] # "none" /\ CompleteRecord(w, claim[w]) /\ UNCHANGED <<place, ledger>>
  BY DEF Complete, streamVars, coreVars
<1>2. PICK e \in Events : e = claim[w] /\ Handled(e)
  BY <1>1 DEF IInv, TypeOK, Handled
<1>3. CASE HoldsLease(w, e)
  <2>1. status[e] = "processing" /\ status' = [status EXCEPT ![e] = answer[w]]
    BY <1>1, <1>2, <1>3 DEF CompleteRecord, Settle, HoldsLease
  <2>2. \/ answer[w] = "retry"
        \/ answer[w] = "delivered" /\ e \in Ingested
        \/ answer[w] = "dlq" /\ e \notin Ingested
    BY <1>1, <1>2 DEF IInv, TypeOK, Parked, AnswersHold, Refused
  <2>3. Delivery!HasTurn(e)
    BY <1>2, <2>1, ClearHasTurn
  <2>4. FateOf(status[e]) = "open" /\ FateOf("retry") = "open"
    BY <2>1 DEF FateOf
  <2>5. answer[w] \in Status \ {"absent", "conflict"}
    BY <2>2 DEF Status, Unfinished
  <2> QED
    BY <1>1, <2>1, <2>2, <2>3, <2>4, <2>5, StatusRefines
<1>4. CASE ~HoldsLease(w, e)
  BY <1>1, <1>2, <1>4, NothingReported DEF CompleteRecord
<1> QED
  BY <1>3, <1>4

\* A claim, an operator and the retention job change one status.
LEMMA RowRefines ==
  ASSUME IInv, NEW e \in Events,
         \/ \E w \in Workers : ClaimHeadOfLine(w, e)
         \/ Retry(e) \/ Abandon(e) \/ Cleanup(e)
  PROVE  [Delivery!Next]_Delivery!vars
<1>1. UNCHANGED <<place, ledger>>
  BY DEF ClaimHeadOfLine, Retry, Abandon, Cleanup, coreVars
<1>2. PICK to \in {"processing", "retry", "abandoned", "removed"} :
        /\ status' = [status EXCEPT ![e] = to]
        /\ \/ to = "processing" /\ status[e] \in {"pending", "retry", "processing"}
           \/ to \in {"retry", "abandoned"} /\ status[e] = "dlq"
           \/ to = "removed" /\ status[e] \in {"delivered", "abandoned"}
  BY DEF ClaimHeadOfLine, Claimable, Retry, Abandon, Cleanup, Parked, IInv, RecordsHold
<1>3. to \in Status \ {"absent", "conflict"}
  BY DEF Status, Unfinished
<1>4. to = "processing" => FateOf(to) = FateOf(status[e])
  BY <1>2 DEF FateOf
<1> QED
  BY <1>1, <1>2, <1>3, <1>4, StatusRefines

\* Every step is one of the promise, or nothing it speaks of.
LEMMA NextRefines ==
  IInv /\ [Next]_vars => [Delivery!Next]_Delivery!vars
<1> SUFFICES ASSUME IInv, [Next]_vars PROVE [Delivery!Next]_Delivery!vars
  OBVIOUS
<1>1. ASSUME NEW e \in Events, Enqueue(e) PROVE Delivery!Next
  BY <1>1, EnqueueRefines
<1>2. ASSUME NEW e \in Events, LateIngest(e) PROVE [Delivery!Next]_Delivery!vars
  BY <1>2, IngestRefines DEF LateIngest, rowVars, Handled
<1>3. ASSUME NEW w \in Workers, Deliver(w) PROVE [Delivery!Next]_Delivery!vars
  BY <1>3, DeliverRefines
<1>4. ASSUME NEW w \in Workers, Complete(w) PROVE [Delivery!Next]_Delivery!vars
  BY <1>4, CompleteRefines
<1>5. ASSUME NEW e \in Events,
             \/ \E w \in Workers : ClaimHeadOfLine(w, e)
             \/ Retry(e) \/ Abandon(e) \/ Cleanup(e)
      PROVE  [Delivery!Next]_Delivery!vars
  BY <1>5, RowRefines
<1>6. ASSUME UNCHANGED <<status, place, ledger>> PROVE UNCHANGED Delivery!vars
  BY <1>6, NothingReported
<1>7. ASSUME NEW e \in Events, LeaseExpires(e) \/ LeaseLost(e) \/ RetryDelayPasses(e)
      PROVE  UNCHANGED Delivery!vars
  BY <1>6, <1>7 DEF LeaseExpires, LeaseLost, RetryDelayPasses, coreVars
<1>8. ASSUME NEW w \in Workers, Restart(w) \/ CompleteFails(w) PROVE UNCHANGED Delivery!vars
  BY <1>6, <1>8 DEF Restart, CompleteFails, rowVars, coreVars
<1>9. CASE UNCHANGED vars
  BY <1>6, <1>9 DEF vars, rowVars, coreVars
<1> QED
  BY <1>1, <1>2, <1>3, <1>4, <1>5, <1>7, <1>8, <1>9 DEF Next

-------------------------------------------------------------------------------
(* Theorems.                                                               *)

\* Every variable keeps its type.
THEOREM TypeCorrect == Spec => []TypeOK
<1>1. IInv => TypeOK
  BY DEF IInv
<1> QED
  BY <1>1, Invariance, PTL

\* What the producer reports as undelivered the ledger does not have, and a late
\* request does not bring it in.
THEOREM ParkedNotIngested == Spec => []ParkedIsNotIngested
<1>1. IInv => ParkedIsNotIngested
  BY DEF IInv, RecordsHold, ParkedIsNotIngested, Parked, Refused
<1> QED
  BY <1>1, Invariance, PTL

\* No record ends in a sequence conflict: no number of replicas, restarts and
\* repeated requests makes Core see a stream out of order.
THEOREM NoConflicts == Spec => []ConflictFree
<1>1. IInv => ConflictFree
  BY DEF IInv, RecordsHold, ConflictFree
<1> QED
  BY <1>1, Invariance, PTL

\* The ledger takes each stream in order and leaves out only what was abandoned.
THEOREM LedgerFollowsStream == Spec => []LedgerExtendsStream
<1>1. ASSUME IInv PROVE LedgerExtendsStream
  <2> SUFFICES ASSUME NEW i \in DOMAIN ledger, NEW e \in Events, status[e] # "absent",
                      StreamOf[e] = StreamOf[ledger[i]], Before(place[e], place[ledger[i]])
               PROVE  \/ \E j \in 1..(i - 1) : ledger[j] = e
                      \/ e \notin Ingested /\ status[e] \in {"abandoned", "removed"}
    BY DEF LedgerExtendsStream
  <2>1. ledger[i] \in Events /\ Handled(ledger[i])
    BY <1>1, IngestedIsEvents DEF IInv, Handled, Ingested
  <2>2. status[e] \in Settled
    BY <1>1, <2>1 DEF IInv, OneAtATime
  <2>3. CASE e \in Ingested
    <3>1. ledger \in Seq(Events) /\ DOMAIN ledger = 1..Len(ledger) /\ Len(ledger) \in Nat
      BY <1>1 DEF IInv, TypeOK
    <3>2. PICK j \in DOMAIN ledger : ledger[j] = e
      BY <2>3 DEF Ingested
    <3>3. place[e] \in Nat \X Nat /\ place[ledger[i]] \in Nat \X Nat
      BY <1>1, <2>1 DEF IInv, TypeOK
    <3>4. ~Before(place[ledger[i]], place[e]) /\ place[e] # place[ledger[i]]
      BY <3>3, BeforeIsTotal
    <3>5. j # i /\ ~(i < j)
      BY <1>1, <3>2, <3>4 DEF IInv, LedgerInOrder
    <3> QED
      BY <3>1, <3>2, <3>5
  <2>4. CASE e \notin Ingested
    BY <1>1, <2>2, <2>4 DEF IInv, RecordsHold, Settled
  <2> QED
    BY <2>3, <2>4
<1> QED
  BY <1>1, Invariance, PTL

\* A settled record stays settled: no lapsed worker, operator or retry reopens it.
THEOREM SettledStays == Spec => SettledIsFinal
<1>1. ASSUME IInv, [Next]_vars, NEW e \in Events, status[e] \in Settled
      PROVE  status'[e] \in {status[e], "removed"}
  <2> USE <1>1 DEF Settled, IInv, TypeOK
  <2>1. ASSUME NEW f \in Events, Enqueue(f) PROVE status'[e] = status[e]
    BY <2>1 DEF Enqueue
  <2>2. ASSUME NEW f \in Events,
               LateIngest(f) \/ LeaseExpires(f) \/ LeaseLost(f) \/ RetryDelayPasses(f)
        PROVE  status'[e] = status[e]
    BY <2>2 DEF LateIngest, LeaseExpires, LeaseLost, RetryDelayPasses, rowVars
  <2>3. ASSUME NEW f \in Events, Retry(f) \/ Abandon(f) \/ Cleanup(f)
        PROVE  status'[e] \in {status[e], "removed"}
    BY <2>3 DEF Retry, Abandon, Cleanup, Parked
  <2>4. ASSUME NEW w \in Workers, NEW f \in Events, ClaimHeadOfLine(w, f)
        PROVE  status'[e] = status[e]
    BY <2>4 DEF ClaimHeadOfLine, Claimable
  <2>5. ASSUME NEW w \in Workers, Restart(w) \/ Deliver(w) \/ CompleteFails(w)
        PROVE  status'[e] = status[e]
    BY <2>5 DEF Restart, Deliver, CompleteFails, rowVars
  <2>6. ASSUME NEW w \in Workers, Complete(w) PROVE status'[e] = status[e]
    BY <2>6 DEF Complete, CompleteRecord, Settle, HoldsLease
  <2>7. CASE UNCHANGED vars
    BY <2>7 DEF vars, rowVars
  <2> QED
    BY <2>1, <2>2, <2>3, <2>4, <2>5, <2>6, <2>7 DEF Next
<1>2. IInv /\ [Next]_vars
      => [\A e \in Events : status[e] \in Settled => status'[e] \in {status[e], "removed"}]_vars
  BY <1>1
<1> QED
  BY <1>2, Invariance, PTL DEF Spec, SettledIsFinal

\* No interaction gets a causal cycle: the cycle check sees the event together
\* with all the ledger holds of its interaction.
THEOREM InteractionsAcyclic == Spec => []InteractionAcyclic
<1> DEFINE Near(S, e) == {f \in S : InteractionOf[f] = InteractionOf[e]}
           CycleFree(S) == \A e \in S : ~HasCausationCycle(Near(S, e))
<1>1. Init => InteractionAcyclic
  <2>1. Init => Ingested = {}
    BY DEF Init, Ingested
  <2> QED
    BY <2>1 DEF InteractionAcyclic
<1>2. ASSUME IInv, InteractionAcyclic, [Next]_vars
      PROVE  InteractionAcyclic'
  <2>1. CycleFree(Ingested)
    BY <1>2 DEF InteractionAcyclic
  <2>2. CycleFree(Ingested') => InteractionAcyclic'
    BY DEF InteractionAcyclic, HasCausationCycle
  <2>3. ASSUME NEW e \in Events, Ingest(e) PROVE CycleFree(Ingested')
    <3>1. CASE Answer(e) = "202" /\ e \notin Ingested
      <4>1. Ingested' = Ingested \union {e} /\ ~HasCausationCycle({e} \union Near(Ingested, e))
        BY <1>2, <2>3, <3>1, IngestEffect DEF IInv, Answer, ClosesCycle
      <4> SUFFICES ASSUME NEW f \in Ingested'
                   PROVE  ~HasCausationCycle(Near(Ingested', f))
        OBVIOUS
      <4>2. CASE InteractionOf[f] = InteractionOf[e]
        <5>1. Near(Ingested', f) = {e} \union Near(Ingested, e)
          BY <4>1, <4>2
        <5> QED
          BY <4>1, <5>1
      <4>3. CASE InteractionOf[f] # InteractionOf[e]
        <5>1. f \in Ingested /\ Near(Ingested', f) = Near(Ingested, f)
          BY <4>1, <4>3
        <5> QED
          BY <2>1, <5>1
      <4> QED
        BY <4>2, <4>3
    <3>2. CASE ~(Answer(e) = "202" /\ e \notin Ingested)
      <4>1. Ingested' = Ingested
        BY <1>2, <2>3, <3>2, IngestEffect DEF IInv
      <4> QED
        BY <2>1, <4>1
    <3> QED
      BY <3>1, <3>2
  <2>4. CASE UNCHANGED ledger
    <3>1. Ingested' = Ingested
      BY <2>4 DEF Ingested
    <3> QED
      BY <2>1, <2>2, <3>1
  <2>5. UNCHANGED ledger \/ \E e \in Events : Ingest(e)
    BY <1>2 DEF Next, vars, coreVars, IInv, TypeOK, Enqueue, LateIngest, Restart, ClaimHeadOfLine,
                Deliver, Unanswered, Complete, CompleteFails, LeaseExpires, LeaseLost,
                RetryDelayPasses, Retry, Abandon, Cleanup
  <2> QED
    BY <2>2, <2>3, <2>4, <2>5
<1> QED
  BY <1>1, <1>2, Invariance, PTL DEF Spec

\* Outbox, workers and Core take each event once and in the order of its stream, and
\* report the truth about it: every step is one of EvidenceDelivery or invisible to it.
THEOREM StreamKeepsPromise == Spec => DeliveryPromise
<1>1. Init => Delivery!Init
  <2> SUFFICES ASSUME Init PROVE Delivery!Init
    OBVIOUS
  <2>1. status = [e \in Events |-> "absent"] /\ ledger = <<>>
    BY DEF Init
  <2>2. fate = [e \in Events |-> "absent"] /\ earlier = [e \in Events |-> {}]
    BY <2>1 DEF fate, earlier
  <2> QED
    BY <2>1, <2>2 DEF Delivery!Init
<1> QED
  BY <1>1, Invariance, NextRefines, PTL DEF Spec, DeliveryPromise, Delivery!Spec
===============================================================================
