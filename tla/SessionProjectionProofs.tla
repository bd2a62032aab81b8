----------------------- MODULE SessionProjectionProofs -----------------------
(* What the outbox of SessionLifecycle says of the rows: every step that changes what *)
(* readers see of a row projects it in the same transaction. A step may change several *)
(* rows, so the proof follows the outbox through one row at a time.                *)
EXTENDS SessionLifecycleProofs

(* An interaction's projection may be behind by lease renewals, a receipt's by the   *)
(* artifact it was given.                                                          *)
InteractionAgrees(doc, row) ==
    /\ doc.status = row.status /\ doc.evidence = row.evidence
    /\ doc.rowVersion \in 0..row.rowVersion
ReceiptAgrees(doc, row) == doc.status = row.status /\ doc.durability = row.durability

ConversationsShown(docs, convs) ==
    docs = [c \in ConversationIds |-> ConversationDoc(convs[c])]
InteractionsShown(docs, ints) ==
    /\ docs = [i \in InteractionIds |-> docs[i]]
    /\ \A i \in InteractionIds : InteractionAgrees(docs[i], ints[i])
OperationsShown(docs, ops) == docs = [o \in OperationIds |-> OperationDoc(ops[o])]
ReceiptsShown(docs, rcpts) ==
    /\ docs = [r \in ReceiptIds |-> docs[r]]
    /\ \A r \in ReceiptIds : ReceiptAgrees(docs[r], rcpts[r])

Views(view) == view = [conversation |-> view.conversation, interaction |-> view.interaction,
                       operation |-> view.operation, receipt |-> view.receipt]

Shown(view, convs, ints, ops, rcpts) ==
    /\ Views(view)
    /\ ConversationsShown(view.conversation, convs)
    /\ InteractionsShown(view.interaction, ints)
    /\ OperationsShown(view.operation, ops)
    /\ ReceiptsShown(view.receipt, rcpts)

AllShown == Shown(outbox, conversation, interaction, operation, receipt)

LEMMA Rows ==
    ASSUME IInv
    PROVE  /\ conversation \in [ConversationIds -> ConversationRows]
           /\ interaction \in [InteractionIds -> InteractionRows]
           /\ operation \in [OperationIds -> OperationRows]
           /\ receipt \in [ReceiptIds -> ReceiptRows]
BY DEF IInv, TypeOK

LEMMA ShowConversation ==
    ASSUME NEW view, NEW convs, NEW ints, NEW ops, NEW rcpts,
           Shown(view, convs, ints, ops, rcpts),
           NEW c \in ConversationIds, NEW row, DOMAIN convs = ConversationIds
    PROVE  Shown([view EXCEPT !.conversation[c] = ConversationDoc(row)],
                 [convs EXCEPT ![c] = row], ints, ops, rcpts)
<1> DEFINE docs == [view.conversation EXCEPT ![c] = ConversationDoc(row)]
           shown == [view EXCEPT !.conversation = docs]
<1>1. ConversationsShown(docs, [convs EXCEPT ![c] = row])
  BY DEF Shown, ConversationsShown
<1> HIDE DEF docs
<1>2. /\ Views(shown) /\ shown.conversation = docs /\ shown.interaction = view.interaction
      /\ shown.operation = view.operation /\ shown.receipt = view.receipt
  BY DEF Shown, Views
<1>3. shown = [view EXCEPT !.conversation[c] = ConversationDoc(row)]
  BY DEF docs
<1> HIDE DEF shown
<1> QED
  BY <1>1, <1>2, <1>3 DEF Shown

LEMMA ShowInteraction ==
    ASSUME NEW view, NEW convs, NEW ints, NEW ops, NEW rcpts,
           Shown(view, convs, ints, ops, rcpts),
           NEW i \in InteractionIds, NEW row, DOMAIN ints = InteractionIds,
           row.rowVersion \in Nat
    PROVE  Shown([view EXCEPT !.interaction[i] = InteractionDoc(row)],
                 convs, [ints EXCEPT ![i] = row], ops, rcpts)
<1> DEFINE doc == InteractionDoc(row)
           docs == [view.interaction EXCEPT ![i] = doc]
           shown == [view EXCEPT !.interaction = docs]
<1>1. InteractionAgrees(doc, row)
  BY DEF InteractionAgrees, InteractionDoc
<1> HIDE DEF doc
<1>2. InteractionsShown(docs, [ints EXCEPT ![i] = row])
  BY <1>1 DEF Shown, InteractionsShown
<1> HIDE DEF docs
<1>3. /\ Views(shown) /\ shown.interaction = docs /\ shown.conversation = view.conversation
      /\ shown.operation = view.operation /\ shown.receipt = view.receipt
  BY DEF Shown, Views
<1>4. shown = [view EXCEPT !.interaction[i] = InteractionDoc(row)]
  BY DEF docs, doc
<1> HIDE DEF shown
<1> QED
  BY <1>2, <1>3, <1>4 DEF Shown

LEMMA ShowOperation ==
    ASSUME NEW view, NEW convs, NEW ints, NEW ops, NEW rcpts,
           Shown(view, convs, ints, ops, rcpts),
           NEW o \in OperationIds, NEW row, DOMAIN ops = OperationIds
    PROVE  Shown([view EXCEPT !.operation[o] = OperationDoc(row)],
                 convs, ints, [ops EXCEPT ![o] = row], rcpts)
<1> DEFINE docs == [view.operation EXCEPT ![o] = OperationDoc(row)]
           shown == [view EXCEPT !.operation = docs]
<1>1. OperationsShown(docs, [ops EXCEPT ![o] = row])
  BY DEF Shown, OperationsShown
<1> HIDE DEF docs
<1>2. /\ Views(shown) /\ shown.operation = docs /\ shown.interaction = view.interaction
      /\ shown.conversation = view.conversation /\ shown.receipt = view.receipt
  BY DEF Shown, Views
<1>3. shown = [view EXCEPT !.operation[o] = OperationDoc(row)]
  BY DEF docs
<1> HIDE DEF shown
<1> QED
  BY <1>1, <1>2, <1>3 DEF Shown

LEMMA ShowReceipt ==
    ASSUME NEW view, NEW convs, NEW ints, NEW ops, NEW rcpts,
           Shown(view, convs, ints, ops, rcpts),
           NEW r \in ReceiptIds, NEW row, DOMAIN rcpts = ReceiptIds
    PROVE  Shown([view EXCEPT !.receipt[r] = ReceiptDoc(row)],
                 convs, ints, ops, [rcpts EXCEPT ![r] = row])
<1> DEFINE doc == ReceiptDoc(row)
           docs == [view.receipt EXCEPT ![r] = doc]
           shown == [view EXCEPT !.receipt = docs]
<1>1. ReceiptAgrees(doc, row)
  BY DEF ReceiptAgrees, ReceiptDoc
<1> HIDE DEF doc
<1>2. ReceiptsShown(docs, [rcpts EXCEPT ![r] = row])
  BY <1>1 DEF Shown, ReceiptsShown
<1> HIDE DEF docs
<1>3. /\ Views(shown) /\ shown.receipt = docs /\ shown.interaction = view.interaction
      /\ shown.conversation = view.conversation /\ shown.operation = view.operation
  BY DEF Shown, Views
<1>4. shown = [view EXCEPT !.receipt[r] = ReceiptDoc(row)]
  BY DEF docs, doc
<1> HIDE DEF shown
<1> QED
  BY <1>2, <1>3, <1>4 DEF Shown

(* A row that changes in nothing its readers see needs no projection.                *)
LEMMA KeepInteraction ==
    ASSUME NEW view, NEW convs, NEW ints, NEW ops, NEW rcpts,
           Shown(view, convs, ints, ops, rcpts),
           NEW i \in InteractionIds, NEW row, DOMAIN ints = InteractionIds,
           \A doc : InteractionAgrees(doc, ints[i]) => InteractionAgrees(doc, row)
    PROVE  Shown(view, convs, [ints EXCEPT ![i] = row], ops, rcpts)
BY DEF Shown, InteractionsShown

LEMMA KeepReceipt ==
    ASSUME NEW view, NEW convs, NEW ints, NEW ops, NEW rcpts,
           Shown(view, convs, ints, ops, rcpts),
           NEW r \in ReceiptIds, NEW row, DOMAIN rcpts = ReceiptIds,
           row.status = rcpts[r].status, row.durability = rcpts[r].durability
    PROVE  Shown(view, convs, ints, ops, [rcpts EXCEPT ![r] = row])
BY DEF Shown, ReceiptsShown, ReceiptAgrees

LEMMA InitShown == Init => AllShown
<1> SUFFICES ASSUME Init PROVE AllShown
  OBVIOUS
<1>1. /\ ConversationsShown(outbox.conversation, conversation)
      /\ OperationsShown(outbox.operation, operation)
  BY DEF Init, ConversationsShown, OperationsShown
<1>2. InteractionsShown(outbox.interaction, interaction)
  <2>1. InteractionAgrees(InteractionDoc(NoInteraction), NoInteraction)
    BY DEF InteractionAgrees, InteractionDoc, NoInteraction
  <2> QED
    BY <2>1 DEF Init, InteractionsShown
<1>3. ReceiptsShown(outbox.receipt, receipt)
  <2>1. ReceiptAgrees(ReceiptDoc(NoReceipt), NoReceipt)
    BY DEF ReceiptAgrees, ReceiptDoc
  <2> QED
    BY <2>1 DEF Init, ReceiptsShown
<1>4. Views(outbox)
  BY DEF Init, Views
<1> QED
  BY <1>1, <1>2, <1>3, <1>4 DEF AllShown, Shown

LEMMA EnsureShown ==
    ASSUME IInv, AllShown, NEW k \in Keys, NEW oneShot \in BOOLEAN, NEW now \in Nows,
           EnsureCurrentConversation(k, oneShot, now)
    PROVE  AllShown'
<1> DEFINE row == NewConversation(oneShot, now)
<1>1. PICK g \in 1..MaxGenerations :
         /\ conversation' = [conversation EXCEPT ![<<k, g>>] = row]
         /\ outbox' = [outbox EXCEPT !.conversation[<<k, g>>] = ConversationDoc(row)]
  BY DEF EnsureCurrentConversation
<1>2. UNCHANGED <<interaction, operation, receipt>>
  BY DEF EnsureCurrentConversation
<1>3. <<k, g>> \in ConversationIds /\ DOMAIN conversation = ConversationIds
  BY Ids, Rows
<1> HIDE DEF row
<1> QED
  BY <1>1, <1>2, <1>3, ShowConversation DEF AllShown

LEMMA CreateNewGenerationShown ==
    ASSUME IInv, AllShown, NEW k \in Keys, NEW q \in RequestKeys, NEW oneShot \in BOOLEAN,
           NEW now \in Nows, CreateNewGeneration(k, q, oneShot, now)
    PROVE  AllShown'
<1> DEFINE row == NewConversation(oneShot, now)
           last(g) == <<k, g - 1>>
           closed(g) == Ended(conversation[last(g)], "closed", now)
           opened(g) == [conversation EXCEPT ![<<k, g>>] = row]
           shown(g) == [outbox EXCEPT !.conversation[<<k, g>>] = ConversationDoc(row)]
<1>1. PICK g \in 1..MaxGenerations :
         /\ conversation' = IF MustClose(k, g) THEN [opened(g) EXCEPT ![last(g)] = closed(g)]
                                               ELSE opened(g)
         /\ outbox' = IF MustClose(k, g)
                      THEN [shown(g) EXCEPT !.conversation[last(g)] = ConversationDoc(closed(g))]
                      ELSE shown(g)
  BY DEF CreateNewGeneration
<1>2. UNCHANGED <<interaction, operation, receipt>>
  BY DEF CreateNewGeneration
<1>3. <<k, g>> \in ConversationIds /\ DOMAIN conversation = ConversationIds
  BY Ids, Rows
<1>4. MustClose(k, g) => last(g) \in ConversationIds
  BY Ids, Bounds DEF MustClose
<1> HIDE DEF row, closed, last
<1>5. Shown(shown(g), opened(g), interaction, operation, receipt)
  BY <1>3, ShowConversation DEF AllShown
<1>6. DOMAIN opened(g) = ConversationIds
  BY <1>3
<1> HIDE DEF shown, opened
<1>7. MustClose(k, g) =>
         Shown([shown(g) EXCEPT !.conversation[last(g)] = ConversationDoc(closed(g))],
               [opened(g) EXCEPT ![last(g)] = closed(g)], interaction, operation, receipt)
  BY <1>4, <1>5, <1>6, ShowConversation
<1> QED
  BY <1>1, <1>2, <1>5, <1>7 DEF AllShown

LEMMA CloseShown ==
    ASSUME IInv, AllShown, NEW c \in ConversationIds, NEW now \in Nows,
           CloseConversation(c, now)
    PROVE  AllShown'
<1> DEFINE row == Ended(conversation[c], "closed", now)
<1>1. /\ conversation' = [conversation EXCEPT ![c] = row]
      /\ outbox' = [outbox EXCEPT !.conversation[c] = ConversationDoc(row)]
      /\ UNCHANGED <<interaction, operation, receipt>>
  BY DEF CloseConversation
<1>2. DOMAIN conversation = ConversationIds
  BY Rows
<1> HIDE DEF row
<1> QED
  BY <1>1, <1>2, ShowConversation DEF AllShown

LEMMA StartShown ==
    ASSUME IInv, AllShown, NEW c \in ConversationIds, NEW key \in StartKeys,
           NEW agent \in AgentNames, NEW lease \in LeaseDurations, NEW now \in Nows,
           StartInteraction(c, key, agent, lease, now)
    PROVE  AllShown'
<1> DEFINE declares == conversation[c].agent = Undeclared /\ agent # Undeclared
           named == [conversation[c] EXCEPT !.agent = agent, !.updatedAt = now,
                                            !.rowVersion = @ + 1]
           row == [NoInteraction EXCEPT !.status = "active", !.startKey = key,
                       !.leaseExpiresAt = now + lease, !.leaseVersion = 1,
                       !.rowVersion = 1]
           i(n) == <<c, n>>
           shown(n) == [outbox EXCEPT !.interaction[i(n)] = InteractionDoc(row)]
           started(n) == [interaction EXCEPT ![i(n)] = row]
<1>1. PICK n \in 1..MaxOrdinals :
         /\ interaction' = started(n)
         /\ conversation' = IF declares THEN [conversation EXCEPT ![c] = named]
                                        ELSE conversation
         /\ outbox' = IF declares
                      THEN [shown(n) EXCEPT !.conversation[c] = ConversationDoc(named)]
                      ELSE shown(n)
  BY DEF StartInteraction
<1>2. UNCHANGED <<operation, receipt>>
  BY DEF StartInteraction
<1>3. /\ i(n) \in InteractionIds /\ DOMAIN interaction = InteractionIds
      /\ DOMAIN conversation = ConversationIds
  BY Ids, Rows
<1>4. row.rowVersion \in Nat
  BY DEF NoInteraction
<1> HIDE DEF declares, named, row, i
<1>5. Shown(shown(n), conversation, started(n), operation, receipt)
  BY <1>3, <1>4, ShowInteraction DEF AllShown
<1> HIDE DEF shown, started
<1>6. Shown([shown(n) EXCEPT !.conversation[c] = ConversationDoc(named)],
            [conversation EXCEPT ![c] = named], started(n), operation, receipt)
  BY <1>3, <1>5, ShowConversation
<1> QED
  BY <1>1, <1>2, <1>5, <1>6 DEF AllShown

(* The end of an interaction and of its conversation.                               *)
LEMMA FinishShown ==
    ASSUME IInv, AllShown, NEW i \in InteractionIds, NEW row, row.rowVersion \in Nat,
           NEW sealing, NEW trigger, NEW closing \in BOOLEAN, NEW now,
           Finish(i, row, sealing, trigger, closing, now),
           UNCHANGED <<operation, receipt>>
    PROVE  AllShown'
<1> DEFINE c == i[1]
           closed == Ended(conversation[c], "closed", now)
           ended == [interaction EXCEPT ![i] = row]
           shown == [outbox EXCEPT !.interaction[i] = InteractionDoc(row)]
<1>1. /\ interaction' = ended
      /\ conversation' = IF closing THEN [conversation EXCEPT ![c] = closed] ELSE conversation
      /\ outbox' = IF closing THEN [shown EXCEPT !.conversation[c] = ConversationDoc(closed)]
                              ELSE shown
  BY DEF Finish, EndConversation
<1>2. /\ c \in ConversationIds /\ DOMAIN interaction = InteractionIds
      /\ DOMAIN conversation = ConversationIds
  BY Ids, Rows
<1> HIDE DEF c, closed
<1>3. Shown(shown, conversation, ended, operation, receipt)
  BY <1>2, ShowInteraction DEF AllShown
<1> HIDE DEF shown, ended
<1>4. Shown([shown EXCEPT !.conversation[c] = ConversationDoc(closed)],
            [conversation EXCEPT ![c] = closed], ended, operation, receipt)
  BY <1>2, <1>3, ShowConversation
<1> QED
  BY <1>1, <1>3, <1>4 DEF AllShown

LEMMA TerminateShown ==
    ASSUME IInv, AllShown,
           NEW i \in InteractionIds, NEW status \in Outcomes, NEW command \in Commands,
           NEW systemPartial \in SystemPartial, NEW claims \in Claims, NEW now \in Nows,
           TerminateInteraction(i, status, command, systemPartial, claims, now)
    PROVE  AllShown'
<1> DEFINE manifest(order) ==
              [receipts |-> order, deadline |-> AssemblerDeadline(i, command.deadline, now),
               systemPartial |-> systemPartial, claims |-> claims]
           evidence(order) == EvidenceAtTermination(manifest(order), receipt, now)
           row(order) == [interaction[i] EXCEPT
                             !.status = status, !.evidence = evidence(order),
                             !.manifest = manifest(order), !.command = command,
                             !.leaseVersion = @ + 1, !.rowVersion = @ + 1]
           trigger(order) == IF manifest(order).deadline # NoTime
                                /\ manifest(order).deadline <= now
                             THEN "deadline" ELSE "completion"
           sealing(order) == evidence(order) \in {"complete", "partial"}
<1>1. PICK order \in Orders(Receipts(i)) :
         Finish(i, row(order), sealing(order), trigger(order), conversation[i[1]].oneShot, now)
  BY DEF TerminateInteraction
<1> HIDE DEF manifest, evidence, trigger, sealing
<1>2. row(order).rowVersion \in Nat
  BY Rows DEF InteractionRows
<1>3. conversation[i[1]].oneShot \in BOOLEAN
  BY Rows, Ids DEF ConversationRows
<1>4. UNCHANGED <<operation, receipt>>
  BY DEF TerminateInteraction
<1> HIDE DEF row
<1> QED
  BY <1>1, <1>2, <1>3, <1>4, FinishShown

LEMMA AbandonShown ==
    ASSUME IInv, AllShown, NEW i \in InteractionIds, NEW now, Abandon(i, now),
           UNCHANGED <<operation, receipt>>
    PROVE  AllShown'
<1> DEFINE manifest(order) == [NoManifest EXCEPT !.receipts = order,
              !.deadline = IF HasRequiredPendingReceipt(Receipts(i)) THEN now ELSE NoTime]
           evidence(order) == EvidenceAtTermination(manifest(order), receipt, now)
           command == [NoCommand EXCEPT !.key = "lease-expired", !.mode = "reaper"]
           row(order) == [interaction[i] EXCEPT
                             !.status = "abandoned", !.evidence = evidence(order),
                             !.manifest = manifest(order), !.command = command,
                             !.leaseVersion = @ + 1, !.rowVersion = @ + 1]
           sealing(order) == evidence(order) # "assembling"
           closing == conversation[i[1]].oneShot /\ conversation[i[1]].status = "active"
<1>1. PICK order \in Orders(Receipts(i)) :
         Finish(i, row(order), sealing(order), "lease_expired", closing, now)
  BY DEF Abandon
<1> HIDE DEF manifest, evidence, command, sealing
<1>2. row(order).rowVersion \in Nat
  BY Rows DEF InteractionRows
<1>3. closing \in BOOLEAN
  OBVIOUS
<1> HIDE DEF row, closing
<1> QED
  BY <1>1, <1>2, <1>3, FinishShown

(* Renewing a lease changes nothing readers see but the version.                     *)
LEMMA RenewedAgrees ==
    ASSUME IInv, NEW i \in InteractionIds, NEW now
    PROVE  /\ \A doc : InteractionAgrees(doc, interaction[i])
                          => InteractionAgrees(doc, Renewed(i, now))
           /\ Renewed(i, now).rowVersion + 1 \in Nat
<1>1. interaction[i] \in InteractionRows
  BY Rows
<1>2. /\ Renewed(i, now).status = interaction[i].status
      /\ Renewed(i, now).evidence = interaction[i].evidence
      /\ Renewed(i, now).rowVersion = interaction[i].rowVersion + 1
  BY <1>1 DEF Renewed, InteractionRows
<1>3. interaction[i].rowVersion \in Nat
  BY <1>1 DEF InteractionRows
<1> QED
  BY <1>2, <1>3 DEF InteractionAgrees

LEMMA CreateOperationShown ==
    ASSUME IInv, AllShown, NEW o \in OperationIds, NEW required \in BOOLEAN,
           NEW input \in Inputs, NEW now \in Nows, CreateOperation(o, required, input, now)
    PROVE  AllShown'
<1> DEFINE i == o[1]
           r == <<o, 1>>
           op == [NoOperation EXCEPT !.attempt = 1, !.status = "pending",
                                     !.input = input, !.rowVersion = 1]
           rcpt == IssuedReceipt(required, input = "referenced")
           row == [Renewed(i, now) EXCEPT !.evidence = "assembling", !.rowVersion = @ + 1]
           view1 == [outbox EXCEPT !.operation[o] = OperationDoc(op)]
           view2 == [view1 EXCEPT !.receipt[r] = ReceiptDoc(rcpt)]
           view3 == [view2 EXCEPT !.interaction[i] = InteractionDoc(row)]
           ops == [operation EXCEPT ![o] = op]
           rcpts == [receipt EXCEPT ![r] = rcpt]
           ints == [interaction EXCEPT ![i] = row]
<1>1. /\ operation' = ops /\ receipt' = rcpts /\ interaction' = ints
      /\ UNCHANGED conversation
  BY DEF CreateOperation
<1>2. outbox' = view3
  BY DEF CreateOperation
<1>3. /\ i \in InteractionIds /\ r \in ReceiptIds /\ DOMAIN operation = OperationIds
      /\ DOMAIN receipt = ReceiptIds /\ DOMAIN interaction = InteractionIds
  BY Ids, Bounds, Rows
<1>4. row.rowVersion \in Nat
  <2>1. Renewed(i, now).rowVersion + 1 \in Nat /\ Renewed(i, now) \in InteractionRows
    BY <1>3, RenewedAgrees, RenewedRows
  <2> QED
    BY <2>1 DEF InteractionRows
<1> HIDE DEF i, r, op, rcpt, row
<1>5. Shown(view1, conversation, interaction, ops, receipt)
  BY <1>3, ShowOperation DEF AllShown
<1> HIDE DEF view1, ops
<1>6. Shown(view2, conversation, interaction, ops, rcpts)
  BY <1>3, <1>5, ShowReceipt
<1> HIDE DEF view2, rcpts
<1>7. Shown(view3, conversation, ints, ops, rcpts)
  BY <1>3, <1>4, <1>6, ShowInteraction
<1> HIDE DEF view3, ints
<1> QED
  BY <1>1, <1>2, <1>7 DEF AllShown

LEMMA ReplayOperationShown ==
    ASSUME IInv, AllShown, NEW o \in OperationIds, NEW now \in Nows, ReplayOperation(o, now)
    PROVE  AllShown'
<1> DEFINE i == o[1]
           row == Renewed(i, now)
<1>1. /\ interaction' = [interaction EXCEPT ![i] = row]
      /\ UNCHANGED <<conversation, operation, receipt, outbox>>
  BY DEF ReplayOperation
<1>2. i \in InteractionIds /\ DOMAIN interaction = InteractionIds
  BY Ids, Rows
<1>3. \A doc : InteractionAgrees(doc, interaction[i]) => InteractionAgrees(doc, row)
  BY <1>2, RenewedAgrees
<1> HIDE DEF i, row
<1> QED
  BY <1>1, <1>2, <1>3, KeepInteraction DEF AllShown

LEMMA ClaimReadyAttemptShown ==
    ASSUME IInv, AllShown, NEW o \in OperationIds, NEW now \in Nows,
           ClaimReadyAttempt(o, now)
    PROVE  AllShown'
<1> DEFINE i == o[1]
           r == Current(o)
           op == [operation[o] EXCEPT !.status = "pending", !.rowVersion = @ + 1]
           rcpt == [receipt[r] EXCEPT !.artifact = receipt[r].artifact \/ op.input = "referenced"]
           row == Renewed(i, now)
           view == [outbox EXCEPT !.operation[o] = OperationDoc(op)]
           ops == [operation EXCEPT ![o] = op]
           rcpts == [receipt EXCEPT ![r] = rcpt]
           ints == [interaction EXCEPT ![i] = row]
<1>1. /\ operation' = ops /\ receipt' = rcpts /\ interaction' = ints
      /\ outbox' = view /\ UNCHANGED conversation
  BY DEF ClaimReadyAttempt
<1>2. operation[o].status # "absent"
  BY DEF ClaimReadyAttempt, Claimable
<1>3. /\ i \in InteractionIds /\ r \in ReceiptIds /\ DOMAIN operation = OperationIds
      /\ DOMAIN receipt = ReceiptIds /\ DOMAIN interaction = InteractionIds
  BY <1>2, Ids, Rows, AtAttempt
<1>4. \A doc : InteractionAgrees(doc, interaction[i]) => InteractionAgrees(doc, row)
  BY <1>3, RenewedAgrees
<1>5. rcpt.status = receipt[r].status /\ rcpt.durability = receipt[r].durability
  <2>1. receipt[r] \in ReceiptRows
    BY <1>3, Rows
  <2> QED
    BY <2>1 DEF ReceiptRows
<1> HIDE DEF i, r, op, rcpt, row
<1>6. Shown(view, conversation, interaction, ops, receipt)
  BY <1>3, ShowOperation DEF AllShown
<1> HIDE DEF view, ops
<1>7. Shown(view, conversation, interaction, ops, rcpts)
  BY <1>3, <1>5, <1>6, KeepReceipt
<1> HIDE DEF rcpts
<1>8. Shown(view, conversation, ints, ops, rcpts)
  BY <1>3, <1>4, <1>7, KeepInteraction
<1> HIDE DEF ints
<1> QED
  BY <1>1, <1>8 DEF AllShown

LEMMA StartOperationAttemptShown ==
    ASSUME IInv, AllShown, NEW o \in OperationIds, NEW now \in Nows,
           StartOperationAttempt(o, now)
    PROVE  AllShown'
<1> DEFINE i == o[1]
           op == [operation[o] EXCEPT !.attempt = @ + 1, !.status = "ready",
                                      !.retryable = FALSE, !.rowVersion = @ + 1]
           r == <<o, op.attempt>>
           rcpt == IssuedReceipt(receipt[Current(o)].required, FALSE)
           row == Renewed(i, now)
           view1 == [outbox EXCEPT !.operation[o] = OperationDoc(op)]
           view2 == [view1 EXCEPT !.receipt[r] = ReceiptDoc(rcpt)]
           ops == [operation EXCEPT ![o] = op]
           rcpts == [receipt EXCEPT ![r] = rcpt]
           ints == [interaction EXCEPT ![i] = row]
<1>1. /\ operation' = ops /\ receipt' = rcpts /\ interaction' = ints
      /\ outbox' = view2 /\ UNCHANGED conversation
  BY DEF StartOperationAttempt
<1>2. i \in InteractionIds /\ r \in ReceiptIds
  <2>1. operation[o] \in OperationRows
    BY Rows
  <2>2. op.attempt = operation[o].attempt + 1
    BY <2>1 DEF OperationRows
  <2>3. operation[o].attempt < MaxAttempts /\ operation[o].attempt \in 0..MaxAttempts
    BY <2>1 DEF StartOperationAttempt, OperationRows
  <2>4. op.attempt \in 1..MaxAttempts
    BY <2>2, <2>3, Bounds
  <2> QED
    BY <2>4, Ids
<1>3. /\ DOMAIN operation = OperationIds
      /\ DOMAIN receipt = ReceiptIds /\ DOMAIN interaction = InteractionIds
  BY Rows
<1>4. \A doc : InteractionAgrees(doc, interaction[i]) => InteractionAgrees(doc, row)
  BY <1>2, RenewedAgrees
<1> HIDE DEF i, r, op, rcpt, row
<1>5. Shown(view1, conversation, interaction, ops, receipt)
  BY <1>3, ShowOperation DEF AllShown
<1> HIDE DEF view1, ops
<1>6. Shown(view2, conversation, interaction, ops, rcpts)
  BY <1>2, <1>3, <1>5, ShowReceipt
<1> HIDE DEF view2, rcpts
<1>7. Shown(view2, conversation, ints, ops, rcpts)
  BY <1>2, <1>3, <1>4, <1>6, KeepInteraction
<1> HIDE DEF ints
<1> QED
  BY <1>1, <1>7 DEF AllShown

LEMMA FinishOperationAttemptShown ==
    ASSUME IInv, AllShown, NEW r \in ReceiptIds, NEW result \in Results, NEW now \in Nows,
           FinishOperationAttempt(r, result, now)
    PROVE  AllShown'
<1> DEFINE o == r[1]
           i == o[1]
           op == [operation[o] EXCEPT
                     !.status = result.status, !.rowVersion = @ + 1,
                     !.retryable = IF result.status = "failed"
                                   THEN result.retryable /\ result.durability = "failed" ELSE @]
           rcpt == [receipt[r] EXCEPT
                     !.status = result.status, !.durability = result.durability,
                     !.artifact = op.input = "referenced",
                     !.partial = result.declaresLoss \/ result.durability = "failed"
                                    \/ op.input = "omitted",
                     !.rowVersion = @ + 1]
           ops == [operation EXCEPT ![o] = op]
           rcpts == [receipt EXCEPT ![r] = rcpt]
           evidence == EvidenceAtTermination(interaction[i].manifest, rcpts, now)
           row == [interaction[i] EXCEPT !.evidence = evidence, !.rowVersion = @ + 1]
           ints == [interaction EXCEPT ![i] = row]
           view1 == [outbox EXCEPT !.operation[o] = OperationDoc(op)]
           view2 == [view1 EXCEPT !.receipt[r] = ReceiptDoc(rcpt)]
           view3 == [view2 EXCEPT !.interaction[i] = InteractionDoc(row)]
<1>1. /\ operation' = ops /\ receipt' = rcpts
      /\ UNCHANGED conversation
      /\ \/ interaction' = ints /\ outbox' = view3
         \/ UNCHANGED interaction /\ outbox' = view2
  BY DEF FinishOperationAttempt
<1>2. /\ o \in OperationIds /\ i \in InteractionIds /\ DOMAIN operation = OperationIds
      /\ DOMAIN receipt = ReceiptIds /\ DOMAIN interaction = InteractionIds
  BY Ids, Rows
<1> HIDE DEF evidence
<1>3. row.rowVersion \in Nat
  <2>1. interaction[i] \in InteractionRows
    BY <1>2, Rows
  <2> QED
    BY <2>1 DEF InteractionRows
<1> HIDE DEF i, o, op, rcpt, row
<1>4. Shown(view1, conversation, interaction, ops, receipt)
  BY <1>2, ShowOperation DEF AllShown
<1> HIDE DEF view1, ops
<1>5. Shown(view2, conversation, interaction, ops, rcpts)
  BY <1>2, <1>4, ShowReceipt
<1> HIDE DEF view2, rcpts
<1>6. Shown(view3, conversation, ints, ops, rcpts)
  BY <1>2, <1>3, <1>5, ShowInteraction
<1> HIDE DEF view3, ints
<1> QED
  BY <1>1, <1>5, <1>6 DEF AllShown

(* The reaper: a pass may end an interaction, expire a conversation or decide evidence. *)
LEMMA CandidateOf ==
    ASSUME IInv, NEW p \in Replicas, NEW pass \in Passes, reaper[p].pass = pass,
           NEW candidate \in reaper[p].todo
    PROVE  /\ pass = "expire" => candidate[1] \in ConversationIds
           /\ pass # "expire" => candidate[1] \in InteractionIds
<1>1. reaper[p] \in Listings(pass)
  BY ListingOf DEF IInv
<1>2. candidate \in Listed(pass)
  BY <1>1 DEF Listings
<1> QED
  BY <1>2 DEF Listed

LEMMA AbandonExpiredShown ==
    ASSUME IInv, AllShown, NEW p \in Replicas, AbandonExpiredInteraction(p)
    PROVE  AllShown'
<1>1. PICK candidate \in reaper[p].todo :
         IF StillExpired(candidate[1], candidate[2], reaper[p].now)
         THEN Abandon(candidate[1], reaper[p].now)
         ELSE UNCHANGED <<conversation, interaction, revisions, outbox>>
  BY DEF AbandonExpiredInteraction
<1>2. UNCHANGED <<operation, receipt>> /\ reaper[p].pass = "abandon"
  BY DEF AbandonExpiredInteraction
<1>3. candidate[1] \in InteractionIds
  BY <1>2, CandidateOf DEF Passes
<1>4. CASE Abandon(candidate[1], reaper[p].now)
  BY <1>2, <1>3, <1>4, AbandonShown
<1>5. CASE UNCHANGED <<conversation, interaction, outbox>>
  BY <1>2, <1>5 DEF AllShown
<1> QED
  BY <1>1, <1>4, <1>5

LEMMA ExpireIdleShown ==
    ASSUME IInv, AllShown, NEW p \in Replicas, ExpireIdleConversation(p)
    PROVE  AllShown'
<1> DEFINE row(c) == Ended(conversation[c], "expired", reaper[p].now)
<1>1. PICK candidate \in reaper[p].todo :
         \/ /\ conversation' = [conversation EXCEPT ![candidate[1]] = row(candidate[1])]
            /\ outbox' = [outbox EXCEPT !.conversation[candidate[1]] =
                                           ConversationDoc(row(candidate[1]))]
         \/ UNCHANGED <<conversation, outbox>>
  BY DEF ExpireIdleConversation
<1>2. UNCHANGED <<interaction, operation, receipt>> /\ reaper[p].pass = "expire"
  BY DEF ExpireIdleConversation
<1>3. candidate[1] \in ConversationIds /\ DOMAIN conversation = ConversationIds
  BY <1>2, CandidateOf, Rows DEF Passes
<1> HIDE DEF row
<1> QED
  BY <1>1, <1>2, <1>3, ShowConversation DEF AllShown

LEMMA AssembleDueShown ==
    ASSUME IInv, AllShown, NEW p \in Replicas, AssembleDueInteraction(p)
    PROVE  AllShown'
<1> DEFINE row(i) == [interaction[i] EXCEPT !.evidence = "partial", !.rowVersion = @ + 1]
<1>1. PICK candidate \in reaper[p].todo :
         \/ /\ interaction' = [interaction EXCEPT ![candidate[1]] = row(candidate[1])]
            /\ outbox' = [outbox EXCEPT !.interaction[candidate[1]] =
                                           InteractionDoc(row(candidate[1]))]
         \/ UNCHANGED <<interaction, outbox>>
  BY DEF AssembleDueInteraction
<1>2. UNCHANGED <<conversation, operation, receipt>> /\ reaper[p].pass = "assemble"
  BY DEF AssembleDueInteraction
<1>3. candidate[1] \in InteractionIds /\ DOMAIN interaction = InteractionIds
  BY <1>2, CandidateOf, Rows DEF Passes
<1>4. row(candidate[1]).rowVersion \in Nat
  BY <1>3, Rows DEF InteractionRows
<1> HIDE DEF row
<1> QED
  BY <1>1, <1>2, <1>3, <1>4, ShowInteraction DEF AllShown

LEMMA NextShown == IInv /\ AllShown /\ [Next]_vars => AllShown'
<1> SUFFICES ASSUME IInv, AllShown, [Next]_vars PROVE AllShown'
  OBVIOUS
<1>1. ASSUME NEW now \in Nows, ConversationCall(now) PROVE AllShown'
  BY <1>1, EnsureShown, CreateNewGenerationShown, CloseShown, SessionAssumption
     DEF ConversationCall
<1>2. ASSUME NEW now \in Nows, InteractionCall(now) PROVE AllShown'
  BY <1>2, StartShown, TerminateShown DEF InteractionCall
<1>3. ASSUME NEW now \in Nows, OperationCall(now) PROVE AllShown'
  BY <1>3, CreateOperationShown, ReplayOperationShown, ClaimReadyAttemptShown,
     StartOperationAttemptShown, FinishOperationAttemptShown DEF OperationCall
<1>4. ASSUME NEW p \in Replicas, Reap(p) PROVE AllShown'
  <2>1. CASE \E pass \in Passes : ReaperList(p, pass)
    BY <2>1 DEF ReaperList, rows, AllShown
  <2> QED
    BY <1>4, <2>1, AbandonExpiredShown, ExpireIdleShown, AssembleDueShown DEF Reap
<1>5. CASE Tick
  BY <1>5 DEF Tick, rows, AllShown
<1>6. CASE UNCHANGED vars
  BY <1>6 DEF vars, rows, AllShown
<1> QED
  BY <1>1, <1>2, <1>3, <1>4, <1>5, <1>6 DEF Next

(* A row is projected in the transaction that changes it: the newest projection says    *)
(* what the row says, up to lease renewals and the artifact of a receipt, whichever     *)
(* calls, retries and reaper passes came before.                                   *)
THEOREM ProjectionsCurrent == Spec => []ProjectionCurrent
<1>1. AllShown /\ IInv => ProjectionCurrent
  <2> SUFFICES ASSUME AllShown, IInv PROVE ProjectionCurrent
    OBVIOUS
  <2>1. \A c \in ConversationIds : outbox.conversation[c] = ConversationDoc(conversation[c])
    BY DEF AllShown, Shown, ConversationsShown
  <2>2. \A i \in InteractionIds :
           /\ outbox.interaction[i].status = interaction[i].status
           /\ outbox.interaction[i].evidence = interaction[i].evidence
           /\ outbox.interaction[i].rowVersion <= interaction[i].rowVersion
    <3>1. \A i \in InteractionIds : interaction[i].rowVersion \in Nat
      BY Rows DEF InteractionRows
    <3> QED
      BY <3>1 DEF AllShown, Shown, InteractionsShown, InteractionAgrees
  <2>3. \A o \in OperationIds : outbox.operation[o] = OperationDoc(operation[o])
    BY DEF AllShown, Shown, OperationsShown
  <2>4. \A r \in ReceiptIds : /\ outbox.receipt[r].status = receipt[r].status
                              /\ outbox.receipt[r].durability = receipt[r].durability
    BY DEF AllShown, Shown, ReceiptsShown, ReceiptAgrees
  <2> QED
    BY <2>1, <2>2, <2>3, <2>4 DEF ProjectionCurrent
<1> QED
  BY <1>1, InitIInv, InitShown, NextIInv, NextShown, PTL DEF Spec

===============================================================================
