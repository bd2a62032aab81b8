------------------------ MODULE SessionLifecycleProofs ------------------------
(* Proofs about SessionLifecycle, for any keys, callers, replicas and bounds. Three *)
(* groups of facts carry the proof: which conversation and interaction is current,  *)
(* what an operation's attempts and their receipts say, and what the end of an      *)
(* interaction has written down of its receipts.                                   *)
EXTENDS SessionLifecycle, FiniteSetTheorems, TLAPS

Hosting == OnlyNewestGenerationActive /\ ActiveInteractionIsHosted

(* An attempt has a receipt, from the first to the current one.                     *)
AttemptsOf(o) ==
    /\ operation[o].status = "absent" <=> operation[o].attempt = 0
    /\ operation[o].status = "ready" => receipt[Current(o)].status = "pending"
    /\ \A n \in 1..MaxAttempts :
          receipt[<<o, n>>].status # "absent" <=> n <= operation[o].attempt

(* A receipt that is not finished has decided nothing.                              *)
Undecided(row) == row.status \in {"absent", "pending"} => row.durability = "pending"

Attempts ==
    /\ \A o \in OperationIds : AttemptsOf(o)
    /\ \A r \in ReceiptIds : Undecided(receipt[r])
    /\ ExecutedOnce

(* Nothing a manifest lists speaks against the evidence being complete.             *)
NothingMissing(manifest, rcpts) ==
    /\ ~manifest.systemPartial
    /\ manifest.receipts # <<>> \/ manifest.claims
    /\ \A n \in DOMAIN manifest.receipts : Verdict(rcpts[manifest.receipts[n]]) = "neutral"

(* What readers are told of the evidence is what was sealed last.                   *)
SealedLast(i) ==
    IF revisions[i] = <<>>
    THEN interaction[i].evidence \in {"assembling", "not_applicable"}
    ELSE interaction[i].evidence = revisions[i][Len(revisions[i])].completeness

(* At its end an interaction writes down all its receipts and no others, and before *)
(* it nothing.                                                                     *)
EndingOK(i) ==
    IF Terminal(i)
    THEN /\ \A r \in Receipts(i) : InManifest(i, r)
         /\ \A n \in DOMAIN interaction[i].manifest.receipts :
               interaction[i].manifest.receipts[n] \in Receipts(i)
         /\ interaction[i].evidence = "complete"
               => NothingMissing(interaction[i].manifest, receipt)
         /\ SealedLast(i)
    ELSE /\ interaction[i].manifest = NoManifest
         /\ interaction[i].command = NoCommand
         /\ revisions[i] = <<>>

Endings == \A i \in InteractionIds : EndingOK(i)

IInv == TypeOK /\ Hosting /\ Attempts /\ Endings

-------------------------------------------------------------------------------
(* Data.                                                                         *)

LEMMA Bounds ==
    /\ MaxGenerations \in Nat /\ MaxOrdinals \in Nat
    /\ MaxAttempts \in Nat /\ MaxAttempts >= 1
    /\ LastCall \in Nat /\ MaxClock \in Nat /\ RenewalDuration \in Nat
    /\ AssemblyTimeout \in Nat /\ IdleTTL \in Nat /\ MaxLockWait \in Nat
    /\ LeaseDurations \subseteq Nat
BY SessionAssumption

LEMMA Ids ==
    /\ \A c \in ConversationIds : /\ c[1] \in Keys /\ c[2] \in 1..MaxGenerations
                                  /\ c = <<c[1], c[2]>>
    /\ \A k \in Keys, g \in 1..MaxGenerations : <<k, g>> \in ConversationIds
    /\ \A i \in InteractionIds : /\ i[1] \in ConversationIds /\ i[2] \in 1..MaxOrdinals
                                 /\ i = <<i[1], i[2]>>
    /\ \A c \in ConversationIds, n \in 1..MaxOrdinals : <<c, n>> \in InteractionIds
    /\ \A o \in OperationIds : o[1] \in InteractionIds
    /\ \A r \in ReceiptIds : /\ r[1] \in OperationIds /\ r[2] \in 1..MaxAttempts
                             /\ r = <<r[1], r[2]>>
    /\ \A o \in OperationIds, n \in 1..MaxAttempts : <<o, n>> \in ReceiptIds
BY DEF ConversationIds, InteractionIds, OperationIds, ReceiptIds

LEMMA Blanks ==
    /\ NoConversation \in ConversationRows /\ NoManifest \in Manifests
    /\ NoCommand \in Terminations /\ NoInteraction \in InteractionRows
    /\ NoOperation \in OperationRows /\ NoReceipt \in ReceiptRows
<1>1. NoConversation \in ConversationRows
  BY SessionAssumption DEF NoConversation, ConversationRows
<1>2. NoManifest \in Manifests
  <2>1. <<>> \in Seq(ReceiptIds)
    OBVIOUS
  <2> QED
    BY <2>1 DEF NoManifest, Manifests, MaybeTime
<1>5. NoCommand \in Terminations
  BY DEF MaybeTime, NoCommand, Terminations, CommandKeys
<1>3. NoInteraction \in InteractionRows
  BY <1>2, <1>5 DEF NoInteraction, InteractionRows, Evidence
<1>4. NoOperation \in OperationRows /\ NoReceipt \in ReceiptRows
  BY Bounds DEF NoOperation, OperationRows, NoReceipt, ReceiptRows
<1> QED
  BY <1>1, <1>2, <1>3, <1>4, <1>5

(* An interaction has finitely many receipts, so they can be listed.                *)
LEMMA ReceiptsFinite ==
    ASSUME NEW i \in InteractionIds
    PROVE  IsFiniteSet(Receipts(i))
<1>1. IsFiniteSet({i}) /\ IsFiniteSet(OperationKeys) /\ IsFiniteSet(1..MaxAttempts)
  <2>1. 1 \in Int /\ MaxAttempts \in Int
    BY Bounds
  <2>2. IsFiniteSet(1..MaxAttempts)
    BY ONLY <2>1, FS_Interval
  <2>3. IsFiniteSet(OperationKeys)
    BY SessionAssumption
  <2>4. IsFiniteSet({i})
    BY FS_Singleton
  <2> QED
    BY <2>2, <2>3, <2>4
<1>2. IsFiniteSet({i} \X OperationKeys)
  BY <1>1, FS_Product
<1>3. IsFiniteSet(({i} \X OperationKeys) \X (1..MaxAttempts))
  BY <1>1, <1>2, FS_Product
<1>4. Receipts(i) \subseteq ({i} \X OperationKeys) \X (1..MaxAttempts)
  BY DEF Receipts, ReceiptIds, OperationIds
<1> QED
  BY <1>3, <1>4, FS_Subset

LEMMA Ordered ==
    ASSUME NEW i \in InteractionIds, NEW order \in Orders(Receipts(i))
    PROVE  /\ order \in Seq(ReceiptIds)
           /\ \A r \in Receipts(i) : \E n \in DOMAIN order : order[n] = r
           /\ \A n \in DOMAIN order : order[n] \in Receipts(i)
<1>1. Cardinality(Receipts(i)) \in Nat
  BY ReceiptsFinite, FS_CardinalityType
<1>2. Receipts(i) \subseteq ReceiptIds
  BY DEF Receipts
<1>3. order \in [1..Cardinality(Receipts(i)) -> Receipts(i)]
  BY DEF Orders
<1> QED
  BY <1>1, <1>2, <1>3 DEF Orders

LEMMA Appended ==
    ASSUME NEW S, NEW q \in Seq(S), NEW e \in S
    PROVE  /\ Append(q, e) \in Seq(S) /\ Append(q, e) # <<>>
           /\ Append(q, e)[Len(Append(q, e))] = e
OBVIOUS

LEMMA Verdicts == \A row : Verdict(row) \in {"neutral", "pending", "partial"}
BY DEF Verdict

(* A judgement is complete exactly when nothing is missing.                         *)
LEMMA Judgements ==
    ASSUME NEW manifest, NEW rcpts, NEW now
    PROVE  LET evidence == EvidenceAtTermination(manifest, rcpts, now) IN
           /\ evidence \in Evidence
           /\ evidence = "complete" => NothingMissing(manifest, rcpts)
           /\ NothingMissing(manifest, rcpts) => evidence = "complete"
BY DEF EvidenceAtTermination, Evidence, NothingMissing

-------------------------------------------------------------------------------
(* What a step that changes some rows leaves alone.                                 *)

ReaperOK ==
    /\ DOMAIN reaper = Replicas
    /\ \A p \in Replicas : \E pass \in Passes \union {"idle"} : reaper[p] \in Listings(pass)

LEMMA ReaperKept == TypeOK /\ UNCHANGED <<clock, reaper>> => ReaperOK'
BY DEF TypeOK, ReaperOK, Listings, Listed

(* The time of a call lies behind the clock.                                        *)
LEMMA CallTimes ==
    ASSUME TypeOK, NEW now \in Nows
    PROVE  now \in Nat /\ now <= clock /\ clock \in Nat
BY Bounds DEF TypeOK, Nows

LEMMA TypesKept ==
    ASSUME TypeOK, UNCHANGED clock,
           conversation' \in [ConversationIds -> ConversationRows],
           \A c \in ConversationIds :
              conversation'[c] = conversation[c] \/ conversation'[c].updatedAt <= clock,
           requested' \in [Keys -> [RequestKeys -> 0..MaxGenerations]],
           interaction' \in [InteractionIds -> InteractionRows],
           operation' \in [OperationIds -> OperationRows],
           receipt' \in [ReceiptIds -> ReceiptRows],
           revisions' \in [InteractionIds -> Seq(Revisions)],
           executions' \in [ReceiptIds -> Nat],
           ReaperOK'
    PROVE  TypeOK'
<1>1. \A c \in ConversationIds : conversation'[c].updatedAt <= clock'
  BY DEF TypeOK
<1> QED
  BY <1>1 DEF TypeOK, ReaperOK

(* Nothing that hosts an active interaction ends, and nothing new becomes active.   *)
LEMMA HostingShrinks ==
    ASSUME Hosting,
           \A c \in ConversationIds :
              /\ (conversation'[c].status = "absent") <=> (conversation[c].status = "absent")
              /\ conversation'[c].status = "active" => conversation[c].status = "active",
           \A i \in InteractionIds :
              Active(i)' => Active(i) /\ conversation'[i[1]].status = "active"
    PROVE  Hosting'
<1>1. OnlyNewestGenerationActive'
  BY Ids DEF Hosting, OnlyNewestGenerationActive, Newest
<1>2. ActiveInteractionIsHosted'
  BY Ids DEF Hosting, ActiveInteractionIsHosted
<1> QED
  BY <1>1, <1>2 DEF Hosting

LEMMA HostingKept ==
    ASSUME Hosting, UNCHANGED conversation,
           \A i \in InteractionIds : Active(i)' => Active(i)
    PROVE  Hosting'
BY Ids, HostingShrinks DEF Hosting, ActiveInteractionIsHosted

LEMMA AttemptsKept ==
    ASSUME Attempts, UNCHANGED <<operation, receipt, executions>>
    PROVE  Attempts'
BY DEF Attempts, AttemptsOf, Current, ExecutedOnce

(* A step about one operation leaves the attempts of the others alone.              *)
ExecutedOf(o) ==
    \A n \in 1..MaxAttempts :
        executions[<<o, n>>] =
            IF n < operation[o].attempt THEN 1
            ELSE IF n = operation[o].attempt /\ operation[o].status \notin {"absent", "ready"}
                 THEN 1 ELSE 0

LEMMA AttemptsOfOne ==
    ASSUME TypeOK, Attempts, NEW o \in OperationIds,
           \A other \in OperationIds \ {o} : operation'[other] = operation[other],
           \A r \in ReceiptIds : r[1] # o =>
              receipt'[r] = receipt[r] /\ executions'[r] = executions[r],
           AttemptsOf(o)', ExecutedOf(o)',
           \A n \in 1..MaxAttempts : Undecided(receipt'[<<o, n>>])
    PROVE  Attempts'
<1>1. ASSUME NEW other \in OperationIds, other # o
      PROVE  AttemptsOf(other)' /\ ExecutedOf(other)'
  <2>1. operation'[other] = operation[other]
    BY <1>1
  <2>2. \A n \in 1..MaxAttempts : /\ receipt'[<<other, n>>] = receipt[<<other, n>>]
                                  /\ executions'[<<other, n>>] = executions[<<other, n>>]
    BY <1>1, Ids
  <2>3. operation[other].status = "ready" => operation[other].attempt \in 1..MaxAttempts
    BY <1>1 DEF TypeOK, OperationRows, Attempts, AttemptsOf
  <2>4. AttemptsOf(other)'
    BY <1>1, <2>1, <2>2, <2>3 DEF Attempts, AttemptsOf, Current
  <2>5. ExecutedOf(other)'
    BY <1>1, <2>1, <2>2 DEF Attempts, ExecutedOnce, ExecutedOf
  <2> QED
    BY <2>4, <2>5
<1>2. \A other \in OperationIds : AttemptsOf(other)' /\ ExecutedOf(other)'
  BY <1>1
<1>3. ASSUME NEW r \in ReceiptIds
      PROVE  Undecided(receipt'[r])
  <2>1. r = <<r[1], r[2]>> /\ r[2] \in 1..MaxAttempts
    BY Ids
  <2>2. CASE r[1] = o
    BY <2>1, <2>2
  <2>3. CASE r[1] # o
    BY <2>3 DEF Attempts
  <2> QED
    BY <2>2, <2>3
<1> QED
  BY <1>2, <1>3 DEF Attempts, ExecutedOnce, ExecutedOf

(* What an interaction wrote down at its end stays true while its receipts keep     *)
(* saying nothing against it.                                                      *)
LEMMA EndingKept ==
    ASSUME TypeOK, NEW i \in InteractionIds, EndingOK(i),
           Terminal(i)' <=> Terminal(i),
           interaction'[i].manifest = interaction[i].manifest,
           interaction'[i].command = interaction[i].command,
           revisions'[i] = revisions[i],
           Terminal(i) =>
              /\ interaction'[i].evidence = interaction[i].evidence
              /\ \A r \in ReceiptIds : r[1][1] = i =>
                    /\ receipt[r].status = "absent" <=> receipt'[r].status = "absent"
                    /\ Verdict(receipt[r]) = "neutral" => Verdict(receipt'[r]) = "neutral"
    PROVE  EndingOK(i)'
<1> DEFINE manifest == interaction[i].manifest
<1>1. CASE ~Terminal(i)
  BY <1>1 DEF EndingOK
<1>2. CASE Terminal(i)
  <2>1. \A n \in DOMAIN manifest.receipts :
           /\ manifest.receipts[n] \in ReceiptIds /\ manifest.receipts[n][1][1] = i
           /\ manifest.receipts[n] \in Receipts(i)'
    BY <1>2 DEF EndingOK, Receipts
  <2>2. \A r \in Receipts(i)' : InManifest(i, r)'
    BY <1>2 DEF EndingOK, Receipts, InManifest
  <2>3. interaction[i].evidence = "complete" => NothingMissing(manifest, receipt')
    BY <1>2, <2>1 DEF EndingOK, NothingMissing
  <2>4. SealedLast(i)'
    BY <1>2 DEF EndingOK, SealedLast
  <2> QED
    BY <1>2, <2>1, <2>2, <2>3, <2>4 DEF EndingOK
<1> QED
  BY <1>1, <1>2

LEMMA EndingsKept ==
    ASSUME Endings, UNCHANGED <<interaction, receipt, revisions>>
    PROVE  Endings'
BY DEF Endings, EndingOK, Terminal, Receipts, InManifest, NothingMissing, SealedLast

-------------------------------------------------------------------------------
(* Conversations.                                                                *)

(* A step about conversations alone.                                               *)
LEMMA ConversationStep ==
    ASSUME IInv, NEW now \in Nows,
           UNCHANGED <<clock, interaction, operation, receipt, revisions, executions, reaper>>,
           conversation' \in [ConversationIds -> ConversationRows],
           \A c \in ConversationIds :
              conversation'[c] = conversation[c] \/ conversation'[c].updatedAt = now,
           requested' \in [Keys -> [RequestKeys -> 0..MaxGenerations]],
           Hosting'
    PROVE  IInv'
<1>1. \A c \in ConversationIds :
         conversation'[c] = conversation[c] \/ conversation'[c].updatedAt <= clock
  BY CallTimes DEF IInv
<1>2. ReaperOK'
  BY ReaperKept DEF IInv
<1>3. TypeOK'
  BY <1>1, <1>2, TypesKept DEF IInv, TypeOK
<1> QED
  BY <1>3, AttemptsKept, EndingsKept DEF IInv

LEMMA NewRows ==
    ASSUME NEW oneShot \in OneShots, NEW now \in Nat
    PROVE  /\ NewConversation(oneShot, now) \in ConversationRows
           /\ NewConversation(oneShot, now).status = "active"
           /\ NewConversation(oneShot, now).updatedAt = now
BY SessionAssumption, Blanks DEF NewConversation, ConversationRows

LEMMA EndedRows ==
    ASSUME NEW row \in ConversationRows, NEW status \in {"closed", "expired"}, NEW now \in Nat
    PROVE  /\ Ended(row, status, now) \in ConversationRows
           /\ Ended(row, status, now).status = status
           /\ Ended(row, status, now).updatedAt = now
<1>1. row.rowVersion + 1 \in Nat
  BY DEF ConversationRows
<1> QED
  BY <1>1 DEF Ended, ConversationRows

(* A newer generation is opened when no older one is active, or the last one is     *)
(* closed with it.                                                                 *)
LEMMA NewGenerationHosts ==
    ASSUME IInv, NEW k \in Keys, NEW g \in 1..MaxGenerations, NextGeneration(k, g),
           UNCHANGED interaction,
           \A c \in ConversationIds :
              c # <<k, g>> /\ c # <<k, g - 1>> => conversation'[c] = conversation[c],
           conversation'[<<k, g>>].status = "active",
           g > 1 => /\ conversation'[<<k, g - 1>>].status \in {"closed", "expired"}
                    /\ conversation'[<<k, g - 1>>] = conversation[<<k, g - 1>>]
                       \/ ~HasActiveInteraction(<<k, g - 1>>)
    PROVE  Hosting'
<1>1. g \in Nat /\ g >= 1 /\ MaxGenerations \in Nat
  BY Bounds
<1>2. \A h \in 1..MaxGenerations : conversation[<<k, h>>].status = "active" => h = g - 1
  <2> SUFFICES ASSUME NEW h \in 1..MaxGenerations, conversation[<<k, h>>].status = "active"
               PROVE  h = g - 1
    OBVIOUS
  <2>1. h < g
    BY <1>1 DEF NextGeneration
  <2>2. g > 1 /\ g - 1 \in 1..MaxGenerations
    BY <1>1, <2>1
  <2>3. \A m \in 1..MaxGenerations : m > h => conversation[<<k, m>>].status = "absent"
    BY DEF IInv, Hosting, OnlyNewestGenerationActive, Newest
  <2> QED
    BY <1>1, <2>1, <2>2, <2>3 DEF NextGeneration
<1>3. OnlyNewestGenerationActive'
  <2> SUFFICES ASSUME NEW q \in Keys, NEW h \in 1..MaxGenerations,
                      conversation'[<<q, h>>].status = "active"
               PROVE  Newest(q, h)'
    BY DEF OnlyNewestGenerationActive
  <2>1. CASE q # k
    <3>1. \A m \in 1..MaxGenerations : conversation'[<<q, m>>] = conversation[<<q, m>>]
      BY <2>1, Ids
    <3> QED
      BY <3>1 DEF IInv, Hosting, OnlyNewestGenerationActive, Newest
  <2>2. CASE q = k
    <3>1. h = g
      <4> SUFFICES ASSUME h # g PROVE FALSE
        OBVIOUS
      <4>1. h # g - 1
        BY <1>1, <2>2
      <4>2. conversation'[<<k, h>>] = conversation[<<k, h>>]
        BY <2>2, <4>1, Ids
      <4> QED
        BY <1>2, <2>2, <4>1, <4>2
    <3>2. \A m \in 1..MaxGenerations : m > g => conversation'[<<k, m>>].status = "absent"
      BY <1>1, Ids DEF NextGeneration
    <3> QED
      BY <2>2, <3>1, <3>2 DEF Newest
  <2> QED
    BY <2>1, <2>2
<1>4. \A c \in ConversationIds :
         HasActiveInteraction(c) => conversation'[c] = conversation[c]
  <2> SUFFICES ASSUME NEW c \in ConversationIds, HasActiveInteraction(c)
               PROVE  conversation'[c] = conversation[c]
    OBVIOUS
  <2>1. conversation[c].status = "active"
    BY Ids DEF HasActiveInteraction, IInv, Hosting, ActiveInteractionIsHosted
  <2>2. c # <<k, g>>
    BY <1>1, <2>1 DEF NextGeneration
  <2>3. CASE c = <<k, g - 1>>
    <3>1. g > 1
      BY <1>1, <2>3, Ids
    <3> QED
      BY <2>3, <3>1
  <2> QED
    BY <2>2, <2>3
<1>5. ActiveInteractionIsHosted'
  <2> SUFFICES ASSUME NEW i \in InteractionIds, Active(i)'
               PROVE  /\ conversation'[i[1]].status = "active"
                      /\ \A n \in 1..MaxOrdinals : Active(<<i[1], n>>)' => n = i[2]
    BY DEF ActiveInteractionIsHosted
  <2>1. Active(i) /\ HasActiveInteraction(i[1])
    BY Ids DEF Active, HasActiveInteraction
  <2>2. conversation'[i[1]] = conversation[i[1]]
    BY <1>4, <2>1, Ids
  <2> QED
    BY <2>1, <2>2 DEF Active, IInv, Hosting, ActiveInteractionIsHosted
<1> QED
  BY <1>3, <1>5 DEF Hosting

LEMMA EnsureIInv ==
    ASSUME IInv, NEW k \in Keys, NEW oneShot \in OneShots, NEW now \in Nows,
           EnsureCurrentConversation(k, oneShot, now)
    PROVE  IInv'
<1> DEFINE row == NewConversation(oneShot, now)
<1>1. PICK g \in 1..MaxGenerations :
         NextGeneration(k, g) /\ conversation' = [conversation EXCEPT ![<<k, g>>] = row]
  BY DEF EnsureCurrentConversation
<1>2. row \in ConversationRows /\ row.status = "active" /\ row.updatedAt = now
  BY NewRows, CallTimes DEF IInv
<1> HIDE DEF row
<1>3. conversation \in [ConversationIds -> ConversationRows] /\ <<k, g>> \in ConversationIds
  BY Ids DEF IInv, TypeOK
<1>4. g > 1 => /\ conversation'[<<k, g - 1>>].status \in {"closed", "expired"}
               /\ conversation'[<<k, g - 1>>] = conversation[<<k, g - 1>>]
  <2> SUFFICES ASSUME g > 1
               PROVE  /\ conversation'[<<k, g - 1>>].status \in {"closed", "expired"}
                      /\ conversation'[<<k, g - 1>>] = conversation[<<k, g - 1>>]
    OBVIOUS
  <2>1. g - 1 \in 1..MaxGenerations /\ g - 1 # g
    BY Bounds
  <2>2. \A h \in 1..MaxGenerations : h > g - 1 => h >= g
    BY Bounds
  <2>3. Newest(k, g - 1)
    BY <1>1, <2>1, <2>2 DEF NextGeneration, Newest
  <2>4. conversation[<<k, g - 1>>].status \in {"closed", "expired"}
    BY <1>3, <2>1, <2>3, Ids DEF EnsureCurrentConversation, ConversationRows, Newest
  <2> QED
    BY <1>1, <1>3, <2>1, <2>4
<1>5. UNCHANGED <<clock, requested, interaction, operation, receipt, revisions,
                  executions, reaper>>
  BY DEF EnsureCurrentConversation
<1>6. Hosting'
  BY <1>1, <1>2, <1>3, <1>4, <1>5, NewGenerationHosts
<1> QED
  BY <1>1, <1>2, <1>3, <1>5, <1>6, ConversationStep DEF IInv, TypeOK

LEMMA CreateNewGenerationIInv ==
    ASSUME IInv, NEW k \in Keys, NEW q \in RequestKeys, NEW oneShot \in OneShots,
           NEW now \in Nows, CreateNewGeneration(k, q, oneShot, now)
    PROVE  IInv'
<1> DEFINE row == NewConversation(oneShot, now)
           last(g) == <<k, g - 1>>
           closed(g) == Ended(conversation[last(g)], "closed", now)
           opened(g) == [conversation EXCEPT ![<<k, g>>] = row]
<1>1. PICK g \in 1..MaxGenerations :
         /\ NextGeneration(k, g)
         /\ MustClose(k, g) => ~HasActiveInteraction(last(g))
         /\ conversation' = IF MustClose(k, g) THEN [opened(g) EXCEPT ![last(g)] = closed(g)]
                                               ELSE opened(g)
         /\ requested' = [requested EXCEPT ![k][q] = g]
  BY DEF CreateNewGeneration, SaveIdempotency
<1>2. row \in ConversationRows /\ row.status = "active" /\ row.updatedAt = now
  BY NewRows, CallTimes DEF IInv
<1>3. conversation \in [ConversationIds -> ConversationRows] /\ <<k, g>> \in ConversationIds
  BY Ids DEF IInv, TypeOK
<1>4. ASSUME g > 1
      PROVE  /\ last(g) \in ConversationIds /\ last(g) # <<k, g>>
             /\ closed(g) \in ConversationRows /\ closed(g).status = "closed"
             /\ closed(g).updatedAt = now
             /\ conversation[last(g)].status # "absent"
  <2>1. g - 1 \in 1..MaxGenerations /\ g - 1 # g
    BY <1>4, Bounds
  <2>2. last(g) \in ConversationIds /\ last(g) # <<k, g>>
    BY <2>1, Ids
  <2>3. now \in Nat
    BY CallTimes DEF IInv
  <2>4. conversation[last(g)].status # "absent"
    BY <1>1, <1>4 DEF NextGeneration
  <2>5. conversation[last(g)] \in ConversationRows
    BY <1>3, <2>2
  <2>6. /\ closed(g) \in ConversationRows /\ closed(g).status = "closed"
        /\ closed(g).updatedAt = now
    BY <2>3, <2>5, EndedRows, Zenon
  <2> QED
    BY <2>2, <2>4, <2>6
<1>5. MustClose(k, g) => g > 1
  BY DEF MustClose
<1> HIDE DEF row, closed
<1>6. conversation' \in [ConversationIds -> ConversationRows]
  BY <1>1, <1>2, <1>3, <1>4, <1>5
<1>7. \A c \in ConversationIds :
         conversation'[c] = conversation[c] \/ conversation'[c].updatedAt = now
  BY <1>1, <1>2, <1>3, <1>4, <1>5
<1>8. \A c \in ConversationIds :
         c # <<k, g>> /\ c # <<k, g - 1>> => conversation'[c] = conversation[c]
  BY <1>1, <1>3, <1>4, <1>5
<1>9. conversation'[<<k, g>>].status = "active"
  BY <1>1, <1>2, <1>3, <1>4, <1>5
<1>10. g > 1 => /\ conversation'[<<k, g - 1>>].status \in {"closed", "expired"}
                /\ conversation'[<<k, g - 1>>] = conversation[<<k, g - 1>>]
                   \/ ~HasActiveInteraction(<<k, g - 1>>)
  <2>1. CASE MustClose(k, g)
    BY <1>1, <1>3, <1>4, <1>5, <2>1
  <2>2. CASE ~MustClose(k, g) /\ g > 1
    <3>1. conversation'[last(g)] = conversation[last(g)]
      BY <1>1, <1>3, <1>4, <2>2
    <3>2. conversation[last(g)].status \notin {"absent", "active"}
      BY <1>4, <2>2 DEF MustClose
    <3> QED
      BY <1>3, <1>4, <2>2, <3>1, <3>2 DEF ConversationRows
  <2> QED
    BY <2>1, <2>2
<1>11. UNCHANGED <<clock, interaction, operation, receipt, revisions, executions, reaper>>
  BY DEF CreateNewGeneration
<1>12. Hosting'
  BY <1>1, <1>8, <1>9, <1>10, <1>11, NewGenerationHosts
<1>13. requested' \in [Keys -> [RequestKeys -> 0..MaxGenerations]]
  <2>1. g \in 0..MaxGenerations
    BY Bounds
  <2> QED
    BY <1>1, <2>1 DEF IInv, TypeOK
<1> QED
  BY <1>6, <1>7, <1>11, <1>12, <1>13, ConversationStep

LEMMA CloseIInv ==
    ASSUME IInv, NEW c \in ConversationIds, NEW now \in Nows, CloseConversation(c, now)
    PROVE  IInv'
<1> DEFINE row == Ended(conversation[c], "closed", now)
<1>1. conversation \in [ConversationIds -> ConversationRows]
  BY DEF IInv, TypeOK
<1>2. row \in ConversationRows /\ row.status = "closed" /\ row.updatedAt = now
  BY <1>1, EndedRows, CallTimes DEF IInv
<1>3. /\ conversation' = [conversation EXCEPT ![c] = row]
      /\ conversation[c].status = "active" /\ ~HasActiveInteraction(c)
      /\ UNCHANGED <<clock, requested, interaction, operation, receipt, revisions,
                     executions, reaper>>
  BY DEF CloseConversation
<1> HIDE DEF row
<1>4. \A i \in InteractionIds :
         Active(i)' => Active(i) /\ conversation'[i[1]].status = "active"
  <2> SUFFICES ASSUME NEW i \in InteractionIds, Active(i)'
               PROVE  Active(i) /\ conversation'[i[1]].status = "active"
    OBVIOUS
  <2>1. Active(i)
    BY <1>3 DEF Active
  <2>2. i[1] # c
    BY <1>3, <2>1, Ids DEF HasActiveInteraction
  <2> QED
    BY <1>1, <1>3, <2>1, <2>2, Ids DEF IInv, Hosting, ActiveInteractionIsHosted
<1>5. Hosting'
  BY <1>1, <1>2, <1>3, <1>4, HostingShrinks DEF IInv
<1> QED
  BY <1>1, <1>2, <1>3, <1>5, ConversationStep DEF IInv, TypeOK

-------------------------------------------------------------------------------
(* Interactions.                                                                 *)

(* An interaction starts in an active conversation that has no other active one.    *)
LEMMA StartIInv ==
    ASSUME IInv, NEW c \in ConversationIds, NEW key \in StartKeys, NEW agent \in AgentNames,
           NEW lease \in LeaseDurations, NEW now \in Nows,
           StartInteraction(c, key, agent, lease, now)
    PROVE  IInv'
<1> DEFINE declares == conversation[c].agent = Undeclared /\ agent # Undeclared
           named == [conversation[c] EXCEPT !.agent = agent, !.updatedAt = now,
                                            !.rowVersion = @ + 1]
           row == [NoInteraction EXCEPT !.status = "active", !.startKey = key,
                       !.leaseExpiresAt = now + lease, !.leaseVersion = 1,
                       !.rowVersion = 1]
<1>1. PICK n \in 1..MaxOrdinals :
         NextOrdinal(c, n) /\ interaction' = [interaction EXCEPT ![<<c, n>>] = row]
  BY DEF StartInteraction
<1> DEFINE i == <<c, n>>
<1>2. i \in InteractionIds /\ i[1] = c /\ i[2] = n
  BY Ids
<1>3. now \in Nat /\ now <= clock /\ clock \in Nat
  BY CallTimes DEF IInv
<1>4. row \in InteractionRows /\ row.status = "active" /\ row.manifest = NoManifest
      /\ row.command = NoCommand
  <2>1. now + lease \in Nat
    BY <1>3, SessionAssumption
  <2> QED
    BY <2>1, Blanks DEF InteractionRows, NoInteraction
<1>5. conversation[c] \in ConversationRows
  BY DEF IInv, TypeOK
<1>6. /\ named \in ConversationRows /\ named.status = conversation[c].status
      /\ named.updatedAt = now
  <2>1. conversation[c].rowVersion + 1 \in Nat
    BY <1>5 DEF ConversationRows
  <2> QED
    BY <1>3, <1>5, <2>1 DEF ConversationRows
<1>7. /\ conversation' = IF declares THEN [conversation EXCEPT ![c] = named] ELSE conversation
      /\ conversation[c].status = "active" /\ ~HasActiveInteraction(c)
      /\ UNCHANGED <<clock, requested, operation, receipt, revisions, executions, reaper>>
  BY DEF StartInteraction
<1>8. interaction \in [InteractionIds -> InteractionRows]
      /\ conversation \in [ConversationIds -> ConversationRows]
  BY DEF IInv, TypeOK
<1> HIDE DEF row, named, declares, i
<1>9. /\ conversation' \in [ConversationIds -> ConversationRows]
      /\ \A d \in ConversationIds : conversation'[d].status = conversation[d].status
      /\ \A d \in ConversationIds :
            conversation'[d] = conversation[d] \/ conversation'[d].updatedAt <= clock
  BY <1>3, <1>6, <1>7, <1>8
<1>10. /\ interaction' \in [InteractionIds -> InteractionRows] /\ interaction'[i] = row
       /\ \A j \in InteractionIds \ {i} : interaction'[j] = interaction[j]
  BY <1>1, <1>2, <1>4, <1>8 DEF i
<1>11. TypeOK'
  <2>1. ReaperOK'
    BY <1>7, ReaperKept DEF IInv
  <2> QED
    BY <1>7, <1>9, <1>10, <2>1, TypesKept DEF IInv, TypeOK
<1>12. OnlyNewestGenerationActive'
  BY <1>9, Ids DEF IInv, Hosting, OnlyNewestGenerationActive, Newest
<1>13. ActiveInteractionIsHosted'
  <2> SUFFICES ASSUME NEW j \in InteractionIds, Active(j)'
               PROVE  /\ conversation'[j[1]].status = "active"
                      /\ \A m \in 1..MaxOrdinals : Active(<<j[1], m>>)' => m = j[2]
    BY DEF ActiveInteractionIsHosted
  <2>1. CASE j[1] = c
    <3>1. \A m \in 1..MaxOrdinals : Active(<<c, m>>)' => m = n
      <4> SUFFICES ASSUME NEW m \in 1..MaxOrdinals, Active(<<c, m>>)', m # n PROVE FALSE
        OBVIOUS
      <4>1. <<c, m>> \in InteractionIds \ {i}
        BY Ids DEF i
      <4> QED
        BY <1>7, <1>10, <4>1 DEF Active, HasActiveInteraction
    <3> QED
      BY <1>7, <1>9, <2>1, <3>1, Ids
  <2>2. CASE j[1] # c
    <3>1. \A m \in 1..MaxOrdinals : interaction'[<<j[1], m>>] = interaction[<<j[1], m>>]
      BY <1>2, <1>10, <2>2, Ids
    <3>2. Active(j)
      BY <3>1, Ids DEF Active
    <3> QED
      BY <1>9, <3>1, <3>2, Ids DEF Active, IInv, Hosting, ActiveInteractionIsHosted
  <2> QED
    BY <2>1, <2>2
<1>14. Endings'
  <2> SUFFICES ASSUME NEW j \in InteractionIds PROVE EndingOK(j)'
    BY DEF Endings
  <2>1. CASE j = i
    <3>1. interaction[i].status = "absent"
      BY <1>1, <1>2 DEF NextOrdinal, i
    <3>2. revisions[i] = <<>>
      BY <1>2, <3>1 DEF IInv, Endings, EndingOK, Terminal
    <3> QED
      BY <1>4, <1>7, <1>10, <2>1, <3>2 DEF EndingOK, Terminal
  <2>2. CASE j # i
    <3>1. interaction'[j] = interaction[j]
      BY <1>10, <2>2
    <3> QED
      BY <1>7, <3>1, EndingKept DEF IInv, Endings, Terminal
  <2> QED
    BY <2>1, <2>2
<1> QED
  BY <1>7, <1>11, <1>12, <1>13, <1>14, AttemptsKept DEF IInv, Hosting

(* An interaction ends with a row that lists all its receipts and says of them what  *)
(* they say; its conversation may end with it.                                      *)
LEMMA FinishIInv ==
    ASSUME IInv, NEW i \in InteractionIds, Active(i), NEW row \in InteractionRows,
           NEW sealing \in BOOLEAN, NEW closing \in BOOLEAN,
           NEW trigger \in {"completion", "deadline", "late_receipt", "lease_expired"},
           NEW now \in Nat, now <= clock, NEW order \in Orders(Receipts(i)),
           row.status \notin {"absent", "active"},
           row.manifest.receipts = order,
           row.evidence = "complete" => NothingMissing(row.manifest, receipt),
           sealing \/ row.evidence \in {"assembling", "not_applicable"},
           Finish(i, row, sealing, trigger, closing, now),
           UNCHANGED <<clock, requested, operation, receipt, executions>>, ReaperOK'
    PROVE  IInv'
<1> DEFINE c == i[1]
           closed == Ended(conversation[c], "closed", now)
           sealed == Revision(row.evidence, trigger)
<1>1. c \in ConversationIds /\ conversation[c] \in ConversationRows
      /\ conversation[c].status = "active"
  BY Ids DEF IInv, TypeOK, Hosting, ActiveInteractionIsHosted
<1>2. closed \in ConversationRows /\ closed.status = "closed" /\ closed.updatedAt = now
  <2> DEFINE old == conversation[c]
  <2>1. old \in ConversationRows
    BY <1>1
  <2> HIDE DEF old
  <2>2. /\ Ended(old, "closed", now) \in ConversationRows
        /\ Ended(old, "closed", now).status = "closed"
        /\ Ended(old, "closed", now).updatedAt = now
    BY <2>1, EndedRows, Zenon
  <2> QED
    BY <2>2 DEF old
<1>3. sealed \in Revisions /\ sealed.completeness = row.evidence
  BY DEF Revision, Revisions, InteractionRows
<1>4. /\ interaction' = [interaction EXCEPT ![i] = row]
      /\ conversation' = IF closing THEN [conversation EXCEPT ![c] = closed] ELSE conversation
      /\ revisions' = IF sealing
                      THEN [revisions EXCEPT ![i] = Append(revisions[i], sealed)] ELSE revisions
  BY DEF Finish, Seal, EndConversation
<1> HIDE DEF closed, sealed
<1>5. /\ interaction \in [InteractionIds -> InteractionRows]
      /\ conversation \in [ConversationIds -> ConversationRows]
      /\ revisions \in [InteractionIds -> Seq(Revisions)]
  BY DEF IInv, TypeOK
<1>6. /\ conversation' \in [ConversationIds -> ConversationRows]
      /\ \A d \in ConversationIds :
            conversation'[d] = conversation[d] \/ conversation'[d].updatedAt <= clock
      /\ conversation'[c].status \in {"active", "closed"}
      /\ \A d \in ConversationIds \ {c} : conversation'[d] = conversation[d]
  BY <1>1, <1>2, <1>4, <1>5
<1>7. /\ interaction' \in [InteractionIds -> InteractionRows] /\ interaction'[i] = row
      /\ \A j \in InteractionIds \ {i} : interaction'[j] = interaction[j]
  BY <1>4, <1>5
<1>8. revisions' \in [InteractionIds -> Seq(Revisions)]
  <2>1. Append(revisions[i], sealed) \in Seq(Revisions)
    BY <1>3, <1>5
  <2> QED
    BY <1>4, <1>5, <2>1
<1>9. TypeOK'
  BY <1>6, <1>7, <1>8, TypesKept DEF IInv, TypeOK
<1>10. Hosting'
  <2>1. ASSUME NEW j \in InteractionIds, Active(j)'
        PROVE  Active(j) /\ conversation'[j[1]].status = "active"
    <3>1. j # i /\ Active(j)
      BY <1>7, <2>1 DEF Active
    <3>2. j[1] # c
      BY <3>1, Ids DEF IInv, Hosting, ActiveInteractionIsHosted
    <3> QED
      BY <1>6, <3>1, <3>2, Ids DEF IInv, Hosting, ActiveInteractionIsHosted
  <2> QED
    BY <1>1, <1>6, <2>1, HostingShrinks DEF IInv
<1>11. Endings'
  <2> SUFFICES ASSUME NEW j \in InteractionIds PROVE EndingOK(j)'
    BY DEF Endings
  <2>1. CASE j # i
    <3>1. interaction'[j] = interaction[j] /\ revisions'[j] = revisions[j]
      BY <1>4, <1>5, <1>7, <2>1
    <3> QED
      BY <3>1, EndingKept DEF IInv, Endings, Terminal
  <2>2. CASE j = i
    <3>1. /\ \A r \in Receipts(i) : \E n \in DOMAIN order : order[n] = r
          /\ \A n \in DOMAIN order : order[n] \in Receipts(i)
      BY Ordered
    <3>2. Terminal(i)' /\ Receipts(i)' = Receipts(i)
      BY <1>7 DEF Terminal, Receipts
    <3>3. \A r \in Receipts(i)' : InManifest(i, r)'
      BY <1>7, <3>1, <3>2 DEF InManifest
    <3>4. \A n \in DOMAIN interaction'[i].manifest.receipts :
             interaction'[i].manifest.receipts[n] \in Receipts(i)'
      BY <1>7, <3>1, <3>2
    <3>5. interaction'[i].evidence = "complete"
             => NothingMissing(interaction'[i].manifest, receipt')
      BY <1>7
    <3>6. SealedLast(i)'
      <4>1. revisions[i] = <<>>
        BY DEF Active, Terminal, IInv, Endings, EndingOK
      <4>2. CASE sealing
        <5>1. revisions'[i] = Append(<<>>, sealed)
          BY <1>4, <1>5, <4>1, <4>2
        <5>2. revisions'[i] = <<sealed>>
          BY <5>1
        <5> QED
          BY <1>3, <1>7, <5>2 DEF SealedLast
      <4>3. CASE ~sealing
        BY <1>4, <1>7, <4>1, <4>3 DEF SealedLast
      <4> QED
        BY <4>2, <4>3
    <3> QED
      BY <2>2, <3>2, <3>3, <3>4, <3>5, <3>6 DEF EndingOK
  <2> QED
    BY <2>1, <2>2
<1> QED
  BY <1>9, <1>10, <1>11, AttemptsKept DEF IInv

(* The row of an interaction that ended.                                            *)
TerminalRow(old, status, evidence, manifest, command) ==
    [old EXCEPT !.status = status, !.evidence = evidence, !.manifest = manifest,
                !.command = command, !.leaseVersion = @ + 1, !.rowVersion = @ + 1]

LEMMA TerminalRows ==
    ASSUME NEW old \in InteractionRows, NEW status, status \in Outcomes \union {"abandoned"},
           NEW evidence \in Evidence, NEW manifest \in Manifests, NEW command \in Terminations
    PROVE  LET row == TerminalRow(old, status, evidence, manifest, command)
           IN /\ row \in InteractionRows /\ row.status \notin {"absent", "active"}
              /\ row.manifest = manifest /\ row.evidence = evidence
<1>1. old.leaseVersion + 1 \in Nat /\ old.rowVersion + 1 \in Nat
  BY DEF InteractionRows
<1>2. status \notin {"absent", "active"}
  BY SessionAssumption
<1> QED
  BY <1>1, <1>2 DEF TerminalRow, InteractionRows

LEMMA TerminateIInv ==
    ASSUME IInv, NEW i \in InteractionIds, NEW status \in Outcomes, NEW command \in Commands,
           NEW systemPartial \in SystemPartial, NEW claims \in Claims, NEW now \in Nows,
           TerminateInteraction(i, status, command, systemPartial, claims, now)
    PROVE  IInv'
<1> DEFINE manifest(order) ==
              [receipts |-> order, deadline |-> AssemblerDeadline(i, command.deadline, now),
               systemPartial |-> systemPartial, claims |-> claims]
           evidence(order) == EvidenceAtTermination(manifest(order), receipt, now)
           row(order) == [interaction[i] EXCEPT
                             !.status = status, !.evidence = evidence(order),
                             !.manifest = manifest(order), !.command = command,
                             !.leaseVersion = @ + 1, !.rowVersion = @ + 1]
           trigger(order) == IF manifest(order).deadline # NoTime
                                /\ manifest(order).deadline <= now
                             THEN "deadline" ELSE "completion"
<1>1. PICK order \in Orders(Receipts(i)) :
         Finish(i, row(order), evidence(order) \in {"complete", "partial"}, trigger(order),
                conversation[i[1]].oneShot, now)
  BY DEF TerminateInteraction
<1>2. now \in Nat /\ now <= clock
  BY CallTimes DEF IInv
<1>3. command \in Terminations /\ command.deadline \in MaybeTime
  BY SessionAssumption DEF Terminations, CommandKeys, MaybeTime
<1>4. manifest(order) \in Manifests
  <2>1. AssemblerDeadline(i, command.deadline, now) \in MaybeTime
    <3>1. now + AssemblyTimeout \in Nat
      BY <1>2, Bounds
    <3> QED
      BY <1>3, <3>1 DEF AssemblerDeadline, MaybeTime
  <2>2. order \in Seq(ReceiptIds)
    BY Ordered
  <2> QED
    BY <2>1, <2>2, SessionAssumption DEF Manifests
<1>5. /\ evidence(order) \in Evidence
      /\ evidence(order) = "complete" => NothingMissing(manifest(order), receipt)
  BY Judgements
<1>6. manifest(order).receipts = order
  OBVIOUS
<1>7. trigger(order) \in {"completion", "deadline", "late_receipt", "lease_expired"}
  OBVIOUS
<1> HIDE DEF manifest, evidence, trigger
<1>8. interaction[i] \in InteractionRows /\ conversation[i[1]].oneShot \in BOOLEAN
  BY Ids DEF IInv, TypeOK, ConversationRows
<1>9. /\ row(order) \in InteractionRows /\ row(order).status \notin {"absent", "active"}
      /\ row(order).manifest = manifest(order) /\ row(order).evidence = evidence(order)
  <2>1. row(order) = TerminalRow(interaction[i], status, evidence(order), manifest(order),
                                 command)
    BY DEF TerminalRow
  <2>2. status \in Outcomes \union {"abandoned"}
    OBVIOUS
  <2> HIDE DEF row
  <2> QED
    BY <1>3, <1>4, <1>5, <1>8, <2>1, <2>2, TerminalRows
<1> HIDE DEF row
<1>10. /\ Active(i)
       /\ UNCHANGED <<clock, requested, operation, receipt, executions, reaper>>
  BY DEF TerminateInteraction
<1>11. ReaperOK'
  BY <1>10, ReaperKept DEF IInv
<1>12. (evidence(order) \in {"complete", "partial"})
         \/ row(order).evidence \in {"assembling", "not_applicable"}
  BY <1>5, <1>9 DEF Evidence
<1> DEFINE sealing == evidence(order) \in {"complete", "partial"}
<1>13. sealing \in BOOLEAN
  OBVIOUS
<1>14. /\ Finish(i, row(order), sealing, trigger(order), conversation[i[1]].oneShot, now)
       /\ sealing \/ row(order).evidence \in {"assembling", "not_applicable"}
  BY <1>1, <1>12
<1> HIDE DEF sealing
<1> QED
  BY <1>2, <1>5, <1>6, <1>7, <1>8, <1>9, <1>10, <1>11, <1>13, <1>14, FinishIInv

-------------------------------------------------------------------------------
(* Operations.                                                                   *)

(* A call of an operation renews the lease of its interaction and changes receipts   *)
(* of that operation only.                                                         *)
LEMMA CallKeeps ==
    ASSUME IInv, NEW o \in OperationIds, NEW row \in InteractionRows, Active(o[1]),
           row.status = "active",
           row.manifest = interaction[o[1]].manifest,
           row.command = interaction[o[1]].command,
           interaction' = [interaction EXCEPT ![o[1]] = row],
           UNCHANGED <<clock, conversation, requested, revisions, reaper>>,
           \A r \in ReceiptIds : r[1] # o => receipt'[r] = receipt[r]
    PROVE  /\ Hosting' /\ Endings'
           /\ operation' \in [OperationIds -> OperationRows]
              /\ receipt' \in [ReceiptIds -> ReceiptRows]
              /\ executions' \in [ReceiptIds -> Nat]
              /\ Attempts' => IInv'
<1> DEFINE i == o[1]
<1>1. i \in InteractionIds
  BY Ids
<1>2. /\ interaction \in [InteractionIds -> InteractionRows] /\ TypeOK
  BY DEF IInv, TypeOK
<1>3. /\ interaction' \in [InteractionIds -> InteractionRows] /\ interaction'[i] = row
      /\ \A j \in InteractionIds \ {i} : interaction'[j] = interaction[j]
  BY <1>1, <1>2
<1>4. \A j \in InteractionIds : /\ Active(j)' <=> Active(j)
                                /\ Terminal(j)' <=> Terminal(j)
  BY <1>3 DEF Active, Terminal
<1>5. Hosting'
  BY <1>4, HostingKept DEF IInv
<1>6. Endings'
  <2> SUFFICES ASSUME NEW j \in InteractionIds PROVE EndingOK(j)'
    BY DEF Endings
  <2>1. CASE j = i
    <3>1. ~Terminal(j)
      BY <2>1 DEF Active, Terminal
    <3> QED
      BY <1>3, <1>4, <2>1, <3>1, EndingKept DEF IInv, Endings
  <2>2. CASE j # i
    <3>1. \A r \in ReceiptIds : r[1][1] = j => receipt'[r] = receipt[r]
      BY <2>2
    <3> QED
      BY <1>3, <1>4, <2>2, <3>1, EndingKept DEF IInv, Endings
  <2> QED
    BY <2>1, <2>2
<1>7. ReaperOK'
  BY <1>2, ReaperKept
<1> QED
  BY <1>2, <1>3, <1>5, <1>6, <1>7, TypesKept DEF IInv, TypeOK

LEMMA RenewedRows ==
    ASSUME IInv, NEW i \in InteractionIds, NEW now \in Nows
    PROVE  /\ Renewed(i, now) \in InteractionRows
           /\ Renewed(i, now).status = interaction[i].status
           /\ Renewed(i, now).manifest = interaction[i].manifest
           /\ Renewed(i, now).command = interaction[i].command
<1>1. interaction[i] \in InteractionRows
  BY DEF IInv, TypeOK
<1>2. /\ now + RenewalDuration \in Nat
      /\ interaction[i].leaseVersion + 1 \in Nat /\ interaction[i].rowVersion + 1 \in Nat
  BY <1>1, CallTimes, Bounds DEF IInv, InteractionRows
<1> QED
  BY <1>1, <1>2 DEF Renewed, InteractionRows

LEMMA ReplayOperationIInv ==
    ASSUME IInv, NEW o \in OperationIds, NEW now \in Nows, ReplayOperation(o, now)
    PROVE  IInv'
<1>1. o[1] \in InteractionIds
  BY Ids
<1>2. /\ Renewed(o[1], now) \in InteractionRows
      /\ Renewed(o[1], now).status = interaction[o[1]].status
      /\ Renewed(o[1], now).manifest = interaction[o[1]].manifest
      /\ Renewed(o[1], now).command = interaction[o[1]].command
  BY <1>1, RenewedRows
<1>3. /\ Active(o[1])
      /\ interaction' = [interaction EXCEPT ![o[1]] = Renewed(o[1], now)]
      /\ UNCHANGED <<clock, conversation, requested, operation, receipt, revisions,
                     executions, reaper>>
  BY DEF ReplayOperation, MayCall
<1>4. interaction[o[1]].status = "active"
  BY <1>3 DEF Active
<1>5. Attempts'
  BY <1>3, AttemptsKept DEF IInv
<1> QED
  BY <1>2, <1>3, <1>4, <1>5, CallKeeps DEF IInv, TypeOK

LEMMA IssuedReceipts ==
    ASSUME NEW required \in BOOLEAN, NEW artifact \in BOOLEAN
    PROVE  /\ IssuedReceipt(required, artifact) \in ReceiptRows
           /\ IssuedReceipt(required, artifact).status = "pending"
           /\ IssuedReceipt(required, artifact).durability = "pending"
BY Blanks DEF IssuedReceipt, NoReceipt, ReceiptRows

LEMMA CreateOperationIInv ==
    ASSUME IInv, NEW o \in OperationIds, NEW required \in BOOLEAN, NEW input \in Inputs,
           NEW now \in Nows, CreateOperation(o, required, input, now)
    PROVE  IInv'
<1> DEFINE i == o[1]
           op == [NoOperation EXCEPT !.attempt = 1, !.status = "pending",
                                     !.input = input, !.rowVersion = 1]
           rcpt == IssuedReceipt(required, input = "referenced")
           row == [Renewed(i, now) EXCEPT !.evidence = "assembling", !.rowVersion = @ + 1]
           r == <<o, 1>>
<1>1. /\ Active(i) /\ operation[o].status = "absent"
      /\ operation' = [operation EXCEPT ![o] = op]
      /\ receipt' = [receipt EXCEPT ![r] = rcpt]
      /\ interaction' = [interaction EXCEPT ![i] = row]
      /\ executions' = [executions EXCEPT ![r] = executions[r] + 1]
      /\ UNCHANGED <<clock, conversation, requested, revisions, reaper>>
  BY DEF CreateOperation, MayCall
<1>2. i \in InteractionIds /\ r \in ReceiptIds /\ 1 \in 1..MaxAttempts
  BY Ids, Bounds
<1>3. /\ row \in InteractionRows /\ row.status = "active"
      /\ row.manifest = interaction[i].manifest /\ row.command = interaction[i].command
  <2>1. /\ Renewed(i, now) \in InteractionRows
        /\ Renewed(i, now).status = interaction[i].status
        /\ Renewed(i, now).manifest = interaction[i].manifest
        /\ Renewed(i, now).command = interaction[i].command
    BY <1>2, RenewedRows
  <2>2. Renewed(i, now).rowVersion + 1 \in Nat
    BY <2>1 DEF InteractionRows
  <2> QED
    BY <1>1, <2>1, <2>2 DEF InteractionRows, Active, Evidence
<1>4. op \in OperationRows /\ op.attempt = 1 /\ op.status = "pending"
  <2>1. 1 \in 0..MaxAttempts
    BY Bounds
  <2> QED
    BY <2>1 DEF OperationRows, NoOperation
<1>5. rcpt \in ReceiptRows /\ rcpt.status = "pending" /\ rcpt.durability = "pending"
  BY IssuedReceipts
<1>6. /\ operation \in [OperationIds -> OperationRows]
      /\ receipt \in [ReceiptIds -> ReceiptRows] /\ executions \in [ReceiptIds -> Nat]
  BY DEF IInv, TypeOK
<1> HIDE DEF i, op, rcpt, row
<1>7. /\ operation[o].attempt = 0
      /\ \A n \in 1..MaxAttempts : executions[<<o, n>>] = 0
      /\ \A n \in 1..MaxAttempts : receipt[<<o, n>>].status = "absent"
  BY <1>1, Bounds DEF IInv, Attempts, AttemptsOf, ExecutedOnce
<1>8. /\ operation'[o] = op /\ receipt'[r] = rcpt /\ executions'[r] = 1
      /\ \A n \in 1..MaxAttempts : n # 1 => /\ receipt'[<<o, n>>] = receipt[<<o, n>>]
                                            /\ executions'[<<o, n>>] = 0
      /\ \A s \in ReceiptIds : s[1] # o =>
            receipt'[s] = receipt[s] /\ executions'[s] = executions[s]
  BY <1>1, <1>2, <1>6, <1>7, Ids
<1>9. AttemptsOf(o)'
  BY <1>2, <1>4, <1>5, <1>7, <1>8, Bounds DEF AttemptsOf, Current
<1>10. ExecutedOf(o)'
  BY <1>2, <1>4, <1>8, Bounds DEF ExecutedOf
<1>11. \A n \in 1..MaxAttempts : Undecided(receipt'[<<o, n>>])
  BY <1>5, <1>8, Ids DEF IInv, Attempts, Undecided
<1>12. Attempts'
  BY <1>1, <1>6, <1>8, <1>9, <1>10, <1>11, AttemptsOfOne DEF IInv
<1>13. /\ operation' \in [OperationIds -> OperationRows]
       /\ receipt' \in [ReceiptIds -> ReceiptRows]
       /\ executions' \in [ReceiptIds -> Nat]
  BY <1>1, <1>2, <1>4, <1>5, <1>6
<1> QED
  <2>1. /\ Active(o[1]) /\ interaction' = [interaction EXCEPT ![o[1]] = row]
        /\ row \in InteractionRows /\ row.status = "active"
        /\ row.manifest = interaction[o[1]].manifest
        /\ row.command = interaction[o[1]].command
        /\ UNCHANGED <<clock, conversation, requested, revisions, reaper>>
    BY <1>1, <1>3 DEF i
  <2>2. \A s \in ReceiptIds : s[1] # o => receipt'[s] = receipt[s]
    BY <1>8
  <2> QED
    BY <1>12, <1>13, <2>1, <2>2, CallKeeps

(* An operation that exists is at an attempt, which has a receipt.                   *)
LEMMA AtAttempt ==
    ASSUME IInv, NEW o \in OperationIds, operation[o].status # "absent"
    PROVE  /\ operation[o] \in OperationRows /\ operation[o].attempt \in 1..MaxAttempts
           /\ Current(o) \in ReceiptIds /\ Current(o) = <<o, operation[o].attempt>>
           /\ receipt[Current(o)] \in ReceiptRows /\ receipt[Current(o)].status # "absent"
<1>1. operation[o] \in OperationRows /\ operation[o].attempt # 0
  BY DEF IInv, TypeOK, Attempts, AttemptsOf
<1>2. operation[o].attempt \in 1..MaxAttempts
  BY <1>1, Bounds DEF OperationRows
<1>3. Current(o) \in ReceiptIds /\ Current(o) = <<o, operation[o].attempt>>
  BY <1>2, Ids DEF Current
<1>4. receipt[Current(o)].status # "absent"
  BY <1>2, <1>3 DEF IInv, Attempts, AttemptsOf
<1> QED
  BY <1>1, <1>2, <1>3, <1>4 DEF IInv, TypeOK

LEMMA ClaimReadyAttemptIInv ==
    ASSUME IInv, NEW o \in OperationIds, NEW now \in Nows, ClaimReadyAttempt(o, now)
    PROVE  IInv'
<1> DEFINE i == o[1]
           r == Current(o)
           op == [operation[o] EXCEPT !.status = "pending", !.rowVersion = @ + 1]
           rcpt == [receipt[r] EXCEPT !.artifact = receipt[r].artifact \/ op.input = "referenced"]
           row == Renewed(i, now)
<1>1. /\ Active(i) /\ operation[o].status = "ready"
      /\ operation' = [operation EXCEPT ![o] = op]
      /\ receipt' = [receipt EXCEPT ![r] = rcpt]
      /\ interaction' = [interaction EXCEPT ![i] = row]
      /\ executions' = [executions EXCEPT ![r] = executions[r] + 1]
      /\ UNCHANGED <<clock, conversation, requested, revisions, reaper>>
  BY DEF ClaimReadyAttempt, MayCall, Claimable
<1>2. i \in InteractionIds
  BY Ids
<1>3. /\ row \in InteractionRows /\ row.status = "active"
      /\ row.manifest = interaction[i].manifest /\ row.command = interaction[i].command
  BY <1>1, <1>2, RenewedRows DEF Active
<1>4. /\ operation[o] \in OperationRows /\ operation[o].attempt \in 1..MaxAttempts
      /\ r \in ReceiptIds /\ r = <<o, operation[o].attempt>>
      /\ receipt[r] \in ReceiptRows
  BY <1>1, AtAttempt
<1>5. op \in OperationRows /\ op.attempt = operation[o].attempt /\ op.status = "pending"
  <2>1. operation[o].rowVersion + 1 \in Nat
    BY <1>4 DEF OperationRows
  <2> QED
    BY <1>4, <2>1 DEF OperationRows
<1>6. /\ rcpt \in ReceiptRows /\ rcpt.status = receipt[r].status
      /\ rcpt.durability = receipt[r].durability
  <2>1. (receipt[r].artifact \/ op.input = "referenced") \in BOOLEAN
    OBVIOUS
  <2> HIDE DEF op
  <2> QED
    BY <1>4, <2>1 DEF ReceiptRows
<1>7. /\ operation \in [OperationIds -> OperationRows]
      /\ receipt \in [ReceiptIds -> ReceiptRows] /\ executions \in [ReceiptIds -> Nat]
  BY DEF IInv, TypeOK
<1>8. executions[r] = 0 /\ receipt[r].status = "pending"
  BY <1>1, <1>4 DEF IInv, Attempts, AttemptsOf, ExecutedOnce
<1> HIDE DEF i, op, rcpt, row, r
<1>9. /\ operation'[o] = op /\ receipt'[r] = rcpt /\ executions'[r] = 1
      /\ \A n \in 1..MaxAttempts : n # operation[o].attempt =>
            /\ receipt'[<<o, n>>] = receipt[<<o, n>>]
            /\ executions'[<<o, n>>] = executions[<<o, n>>]
      /\ \A s \in ReceiptIds : s[1] # o =>
            receipt'[s] = receipt[s] /\ executions'[s] = executions[s]
  BY <1>1, <1>4, <1>7, <1>8, Ids
<1>10. \A n \in 1..MaxAttempts : receipt'[<<o, n>>].status = receipt[<<o, n>>].status
  BY <1>4, <1>6, <1>9
<1>11. AttemptsOf(o)'
  BY <1>1, <1>5, <1>9, <1>10 DEF IInv, Attempts, AttemptsOf
<1>12. ExecutedOf(o)'
  BY <1>1, <1>4, <1>5, <1>9 DEF IInv, Attempts, ExecutedOnce, ExecutedOf
<1>13. \A n \in 1..MaxAttempts : Undecided(receipt'[<<o, n>>])
  BY <1>4, <1>6, <1>9, Ids DEF IInv, Attempts, Undecided
<1>14. Attempts'
  BY <1>1, <1>7, <1>9, <1>11, <1>12, <1>13, AttemptsOfOne DEF IInv
<1>15. /\ operation' \in [OperationIds -> OperationRows]
       /\ receipt' \in [ReceiptIds -> ReceiptRows]
       /\ executions' \in [ReceiptIds -> Nat]
  BY <1>1, <1>4, <1>5, <1>6, <1>7
<1> QED
  <2>1. /\ Active(o[1]) /\ interaction' = [interaction EXCEPT ![o[1]] = row]
        /\ row \in InteractionRows /\ row.status = "active"
        /\ row.manifest = interaction[o[1]].manifest
        /\ row.command = interaction[o[1]].command
        /\ UNCHANGED <<clock, conversation, requested, revisions, reaper>>
    BY <1>1, <1>3 DEF i
  <2>2. \A s \in ReceiptIds : s[1] # o => receipt'[s] = receipt[s]
    BY <1>9
  <2> QED
    BY <1>14, <1>15, <2>1, <2>2, CallKeeps

LEMMA StartOperationAttemptIInv ==
    ASSUME IInv, NEW o \in OperationIds, NEW now \in Nows, StartOperationAttempt(o, now)
    PROVE  IInv'
<1> DEFINE i == o[1]
           op == [operation[o] EXCEPT !.attempt = @ + 1, !.status = "ready",
                                      !.retryable = FALSE, !.rowVersion = @ + 1]
           last == operation[o].attempt
           r == <<o, op.attempt>>
           rcpt == IssuedReceipt(receipt[Current(o)].required, FALSE)
           row == Renewed(i, now)
<1>1. /\ Active(i) /\ operation[o].status # "absent"
      /\ last < MaxAttempts /\ receipt[Current(o)].status = "failed"
      /\ operation' = [operation EXCEPT ![o] = op]
      /\ receipt' = [receipt EXCEPT ![r] = rcpt]
      /\ interaction' = [interaction EXCEPT ![i] = row]
      /\ UNCHANGED <<clock, conversation, requested, revisions, executions, reaper>>
  BY DEF StartOperationAttempt, MayCall, MayRetry
<1>2. i \in InteractionIds
  BY Ids
<1>3. /\ row \in InteractionRows /\ row.status = "active"
      /\ row.manifest = interaction[i].manifest /\ row.command = interaction[i].command
  BY <1>1, <1>2, RenewedRows DEF Active
<1>4. /\ operation[o] \in OperationRows /\ last \in 1..MaxAttempts
      /\ Current(o) \in ReceiptIds /\ Current(o) = <<o, last>>
      /\ receipt[Current(o)] \in ReceiptRows
  BY <1>1, AtAttempt
<1>5. op \in OperationRows /\ op.attempt = last + 1 /\ op.status = "ready"
  <2>1. operation[o].rowVersion + 1 \in Nat /\ last + 1 \in 0..MaxAttempts
    BY <1>1, <1>4, Bounds DEF OperationRows
  <2> QED
    BY <1>4, <2>1 DEF OperationRows
<1>6. rcpt \in ReceiptRows /\ rcpt.status = "pending" /\ rcpt.durability = "pending"
  BY <1>4, IssuedReceipts DEF ReceiptRows
<1>7. /\ operation \in [OperationIds -> OperationRows]
      /\ receipt \in [ReceiptIds -> ReceiptRows] /\ executions \in [ReceiptIds -> Nat]
  BY DEF IInv, TypeOK
<1>8. operation[o].status # "ready"
  BY <1>1 DEF IInv, Attempts, AttemptsOf
<1>9. last + 1 \in 1..MaxAttempts /\ r \in ReceiptIds /\ r = <<o, last + 1>>
  BY <1>1, <1>4, <1>5, Bounds, Ids
<1> HIDE DEF i, op, rcpt, row, r, last
<1>10. /\ operation'[o] = op /\ receipt'[r] = rcpt
       /\ \A n \in 1..MaxAttempts : n # last + 1 =>
             receipt'[<<o, n>>] = receipt[<<o, n>>]
       /\ \A s \in ReceiptIds : s[1] # o => receipt'[s] = receipt[s]
  BY <1>1, <1>7, <1>9, Ids
<1>11. AttemptsOf(o)'
  BY <1>4, <1>5, <1>6, <1>9, <1>10, Bounds DEF IInv, Attempts, AttemptsOf, Current, last
<1>12. ExecutedOf(o)'
  BY <1>1, <1>4, <1>5, <1>8, <1>10, Bounds DEF IInv, Attempts, ExecutedOnce, ExecutedOf, last
<1>13. \A n \in 1..MaxAttempts : Undecided(receipt'[<<o, n>>])
  BY <1>6, <1>9, <1>10, Ids DEF IInv, Attempts, Undecided
<1>14. Attempts'
  BY <1>1, <1>7, <1>10, <1>11, <1>12, <1>13, AttemptsOfOne DEF IInv
<1>15. /\ operation' \in [OperationIds -> OperationRows]
       /\ receipt' \in [ReceiptIds -> ReceiptRows]
       /\ executions' \in [ReceiptIds -> Nat]
  BY <1>1, <1>5, <1>6, <1>7, <1>9
<1> QED
  <2>1. /\ Active(o[1]) /\ interaction' = [interaction EXCEPT ![o[1]] = row]
        /\ row \in InteractionRows /\ row.status = "active"
        /\ row.manifest = interaction[o[1]].manifest
        /\ row.command = interaction[o[1]].command
        /\ UNCHANGED <<clock, conversation, requested, revisions, reaper>>
    BY <1>1, <1>3 DEF i
  <2>2. \A s \in ReceiptIds : s[1] # o => receipt'[s] = receipt[s]
    BY <1>10
  <2> QED
    BY <1>14, <1>15, <2>1, <2>2, CallKeeps

(* What finishing an attempt does to its operation, its receipt and the evidence of  *)
(* its interaction.                                                                *)
FinishedOperation(o, result) ==
    [operation[o] EXCEPT !.status = result.status, !.rowVersion = @ + 1,
                         !.retryable = IF result.status = "failed"
                            THEN result.retryable /\ result.durability = "failed" ELSE @]
FinishedReceipt(r, result, input) ==
    [receipt[r] EXCEPT
        !.status = result.status, !.durability = result.durability,
        !.artifact = input = "referenced",
        !.partial = result.declaresLoss \/ result.durability = "failed" \/ input = "omitted",
        !.rowVersion = @ + 1]
RejudgedRow(i, rcpts, now) ==
    [interaction[i] EXCEPT
        !.evidence = EvidenceAtTermination(interaction[i].manifest, rcpts, now),
        !.rowVersion = @ + 1]

LEMMA FinishEffect ==
    ASSUME NEW r \in ReceiptIds, NEW result \in Results, NEW now \in Nows,
           FinishOperationAttempt(r, result, now)
    PROVE  LET o == r[1]
               i == o[1]
               op == FinishedOperation(o, result)
               evidence == EvidenceAtTermination(interaction[i].manifest, receipt', now)
           IN /\ operation[o].attempt = r[2] /\ operation[o].status \notin {"absent", "ready"}
              /\ receipt[r].status = "pending"
              /\ operation' = [operation EXCEPT ![o] = op]
              /\ receipt' = [receipt EXCEPT ![r] = FinishedReceipt(r, result, op.input)]
              /\ IF Rejudged(i, r, evidence)
                 THEN /\ interaction' = [interaction EXCEPT ![i] = RejudgedRow(i, receipt', now)]
                      /\ revisions' = [revisions EXCEPT
                            ![i] = Append(revisions[i], Revision(evidence, "late_receipt"))]
                 ELSE UNCHANGED <<interaction, revisions>>
              /\ UNCHANGED <<clock, conversation, requested, executions, reaper>>
<1> DEFINE o == r[1]
           i == o[1]
           op == FinishedOperation(o, result)
           rcpts == [receipt EXCEPT ![r] = FinishedReceipt(r, result, op.input)]
           evidence == EvidenceAtTermination(interaction[i].manifest, rcpts, now)
<1>1. /\ MayFinish(r)
      /\ operation' = [operation EXCEPT ![o] = op]
      /\ receipt' = rcpts
      /\ IF Rejudged(i, r, evidence)
         THEN /\ interaction' = [interaction EXCEPT ![i] = RejudgedRow(i, rcpts, now)]
              /\ Seal(i, RejudgedRow(i, rcpts, now), TRUE, "late_receipt")
         ELSE UNCHANGED <<interaction, revisions>>
      /\ UNCHANGED <<clock, conversation, requested, executions, reaper>>
  BY DEF FinishOperationAttempt, FinishedOperation, FinishedReceipt, RejudgedRow
<1> QED
  BY <1>1 DEF MayFinish, Seal, RejudgedRow

LEMMA FinishedRows ==
    ASSUME IInv, NEW r \in ReceiptIds, NEW result \in Results, NEW now \in Nows,
           FinishOperationAttempt(r, result, now)
    PROVE  LET o == r[1]
               op == FinishedOperation(o, result)
               rcpt == FinishedReceipt(r, result, op.input)
           IN /\ o \in OperationIds /\ r = Current(o) /\ r = <<o, operation[o].attempt>>
              /\ op \in OperationRows /\ op.attempt = operation[o].attempt
              /\ op.status \notin {"absent", "ready"}
              /\ rcpt \in ReceiptRows /\ rcpt.status \notin {"absent", "pending"}
              /\ rcpt.required = receipt[r].required
              /\ Verdict(receipt[r]) = "neutral" => Verdict(rcpt) = "neutral"
<1> DEFINE o == r[1]
           op == FinishedOperation(o, result)
           rcpt == FinishedReceipt(r, result, op.input)
<1>1. /\ operation[o].attempt = r[2] /\ operation[o].status \notin {"absent", "ready"}
      /\ receipt[r].status = "pending"
  BY FinishEffect
<1>2. o \in OperationIds /\ r = <<o, r[2]>>
  BY Ids
<1>3. r = Current(o) /\ r = <<o, operation[o].attempt>>
  BY <1>1, <1>2 DEF Current
<1>4. /\ result.status \in {"completed", "failed"}
      /\ result.durability \in {"pending", "durable", "failed"}
      /\ result.declaresLoss \in BOOLEAN /\ result.retryable \in BOOLEAN
  BY SessionAssumption
<1>5. operation[o] \in OperationRows /\ receipt[r] \in ReceiptRows
  BY <1>2 DEF IInv, TypeOK
<1>6. /\ op \in OperationRows /\ op.attempt = operation[o].attempt
      /\ op.status = result.status
  <2>1. operation[o].rowVersion + 1 \in Nat
    BY <1>5 DEF OperationRows
  <2>2. (result.retryable /\ result.durability = "failed") \in BOOLEAN
        /\ operation[o].retryable \in BOOLEAN
    BY <1>4, <1>5 DEF OperationRows
  <2> QED
    BY <1>4, <1>5, <2>1, <2>2 DEF FinishedOperation, OperationRows
<1> HIDE DEF op
<1>7. /\ rcpt \in ReceiptRows /\ rcpt.status = result.status
      /\ rcpt.required = receipt[r].required
  <2>1. receipt[r].rowVersion + 1 \in Nat
    BY <1>5 DEF ReceiptRows
  <2>2. /\ (op.input = "referenced") \in BOOLEAN
        /\ (result.declaresLoss \/ result.durability = "failed" \/ op.input = "omitted")
              \in BOOLEAN
    BY <1>4
  <2> QED
    BY <1>4, <1>5, <2>1, <2>2 DEF FinishedReceipt, ReceiptRows
<1> HIDE DEF rcpt
<1>8. receipt[r].durability = "pending"
  BY <1>1 DEF IInv, Attempts, Undecided
<1>9. Verdict(receipt[r]) = "neutral" => Verdict(rcpt) = "neutral"
  BY <1>7, <1>8 DEF Verdict
<1> QED
  BY <1>1, <1>2, <1>3, <1>4, <1>6, <1>7, <1>9 DEF op, rcpt

(* No receipt becomes evidence of a loss by being finished that was not awaited.     *)
LEMMA FinishKeepsNeutral ==
    ASSUME IInv, NEW r \in ReceiptIds, NEW result \in Results, NEW now \in Nows,
           FinishOperationAttempt(r, result, now)
    PROVE  \A s \in ReceiptIds :
              /\ receipt[s].status = "absent" <=> receipt'[s].status = "absent"
              /\ Verdict(receipt[s]) = "neutral" => Verdict(receipt'[s]) = "neutral"
<1> DEFINE rcpt == FinishedReceipt(r, result, FinishedOperation(r[1], result).input)
<1>1. receipt' = [receipt EXCEPT ![r] = rcpt] /\ receipt[r].status = "pending"
  BY FinishEffect
<1>2. rcpt.status # "absent" /\ (Verdict(receipt[r]) = "neutral" => Verdict(rcpt) = "neutral")
  BY FinishedRows
<1>3. DOMAIN receipt = ReceiptIds
  BY DEF IInv, TypeOK
<1> HIDE DEF rcpt
<1> QED
  BY <1>1, <1>2, <1>3

LEMMA FinishOperationAttemptIInv ==
    ASSUME IInv, NEW r \in ReceiptIds, NEW result \in Results, NEW now \in Nows,
           FinishOperationAttempt(r, result, now)
    PROVE  IInv'
<1> DEFINE o == r[1]
           i == o[1]
           op == FinishedOperation(o, result)
           rcpt == FinishedReceipt(r, result, op.input)
           evidence == EvidenceAtTermination(interaction[i].manifest, receipt', now)
           row == RejudgedRow(i, receipt', now)
           sealed == Revision(evidence, "late_receipt")
<1>1. /\ operation[o].attempt = r[2] /\ operation[o].status \notin {"absent", "ready"}
      /\ receipt[r].status = "pending"
      /\ operation' = [operation EXCEPT ![o] = op]
      /\ receipt' = [receipt EXCEPT ![r] = rcpt]
      /\ IF Rejudged(i, r, evidence)
         THEN /\ interaction' = [interaction EXCEPT ![i] = row]
              /\ revisions' = [revisions EXCEPT ![i] = Append(revisions[i], sealed)]
         ELSE UNCHANGED <<interaction, revisions>>
      /\ UNCHANGED <<clock, conversation, requested, executions, reaper>>
  BY FinishEffect
<1>2. /\ o \in OperationIds /\ r = <<o, operation[o].attempt>>
      /\ op \in OperationRows /\ op.attempt = operation[o].attempt
      /\ op.status \notin {"absent", "ready"}
      /\ rcpt \in ReceiptRows /\ rcpt.status \notin {"absent", "pending"}
  BY FinishedRows
<1>3. i \in InteractionIds
  BY <1>2, Ids
<1>4. /\ operation \in [OperationIds -> OperationRows]
      /\ receipt \in [ReceiptIds -> ReceiptRows]
      /\ interaction \in [InteractionIds -> InteractionRows]
      /\ revisions \in [InteractionIds -> Seq(Revisions)]
  BY DEF IInv, TypeOK
<1>5. /\ evidence \in Evidence
      /\ evidence = "complete" => NothingMissing(interaction[i].manifest, receipt')
  BY Judgements
<1>6. sealed \in Revisions /\ sealed.completeness = evidence
  BY <1>5 DEF Revision, Revisions
<1>7. /\ row \in InteractionRows /\ row.status = interaction[i].status
      /\ row.manifest = interaction[i].manifest /\ row.command = interaction[i].command
      /\ row.evidence = evidence
  <2>1. interaction[i] \in InteractionRows /\ interaction[i].rowVersion + 1 \in Nat
    BY <1>3, <1>4 DEF InteractionRows
  <2> HIDE DEF evidence
  <2> QED
    BY <1>5, <2>1 DEF RejudgedRow, InteractionRows, evidence
<1> HIDE DEF op, rcpt, row, sealed, evidence
<1>8. /\ operation' \in [OperationIds -> OperationRows]
      /\ receipt' \in [ReceiptIds -> ReceiptRows]
  BY <1>1, <1>2, <1>4
<1>9. /\ interaction' \in [InteractionIds -> InteractionRows]
      /\ \A j \in InteractionIds : /\ Active(j)' <=> Active(j)
                                   /\ Terminal(j)' <=> Terminal(j)
                                   /\ interaction'[j].manifest = interaction[j].manifest
                                   /\ interaction'[j].command = interaction[j].command
      /\ \A j \in InteractionIds \ {i} : interaction'[j] = interaction[j]
  <2>1. CASE Rejudged(i, r, evidence)
    BY <1>1, <1>3, <1>4, <1>7, <2>1 DEF Active, Terminal
  <2>2. CASE ~Rejudged(i, r, evidence)
    BY <1>1, <1>4, <2>2 DEF Active, Terminal
  <2> QED
    BY <2>1, <2>2
<1>10. /\ revisions' \in [InteractionIds -> Seq(Revisions)]
       /\ \A j \in InteractionIds \ {i} : revisions'[j] = revisions[j]
  <2>1. Append(revisions[i], sealed) \in Seq(Revisions)
    BY <1>3, <1>4, <1>6
  <2> QED
    BY <1>1, <1>4, <2>1
<1>11. TypeOK'
  <2>1. ReaperOK'
    BY <1>1, ReaperKept DEF IInv
  <2> QED
    BY <1>1, <1>8, <1>9, <1>10, <2>1, TypesKept DEF IInv, TypeOK
<1>12. Hosting'
  BY <1>1, <1>9, HostingKept DEF IInv
<1>13. Attempts'
  <2>1. operation'[o] = op /\ receipt'[r] = rcpt
        /\ \A n \in 1..MaxAttempts : n # operation[o].attempt =>
              receipt'[<<o, n>>] = receipt[<<o, n>>]
        /\ \A s \in ReceiptIds : s[1] # o => receipt'[s] = receipt[s]
    BY <1>1, <1>2, <1>4, Ids
  <2>2. \A n \in 1..MaxAttempts :
           (receipt'[<<o, n>>].status = "absent") <=> (receipt[<<o, n>>].status = "absent")
    BY <1>1, <1>2, <2>1
  <2>3. AttemptsOf(o)'
    BY <1>1, <1>2, <2>1, <2>2 DEF IInv, Attempts, AttemptsOf
  <2>4. ExecutedOf(o)'
    BY <1>1, <1>2, <2>1 DEF IInv, Attempts, ExecutedOnce, ExecutedOf
  <2>5. \A n \in 1..MaxAttempts : Undecided(receipt'[<<o, n>>])
    BY <1>2, <2>1, Ids DEF IInv, Attempts, Undecided
  <2> QED
    BY <1>1, <1>2, <1>4, <2>1, <2>3, <2>4, <2>5, AttemptsOfOne DEF IInv
<1>14. Endings'
  <2> SUFFICES ASSUME NEW j \in InteractionIds PROVE EndingOK(j)'
    BY DEF Endings
  <2>1. \A s \in ReceiptIds :
           /\ receipt[s].status = "absent" <=> receipt'[s].status = "absent"
           /\ Verdict(receipt[s]) = "neutral" => Verdict(receipt'[s]) = "neutral"
    BY FinishKeepsNeutral
  <2>2. CASE j # i \/ ~Rejudged(i, r, evidence)
    <3>1. interaction'[j] = interaction[j] /\ revisions'[j] = revisions[j]
      BY <1>1, <1>9, <1>10, <2>2
    <3> QED
      BY <1>9, <2>1, <3>1, EndingKept DEF IInv, Endings
  <2>3. CASE j = i /\ Rejudged(i, r, evidence)
    <3>1. Terminal(i) /\ Terminal(i)' /\ evidence # "assembling"
      BY <1>3, <1>9, <2>3 DEF Rejudged
    <3>2. /\ interaction'[i] = row
          /\ revisions'[i] = Append(revisions[i], sealed)
      BY <1>1, <1>3, <1>4, <2>3
    <3>3. /\ \A s \in Receipts(i)' : InManifest(i, s)'
          /\ \A n \in DOMAIN interaction'[i].manifest.receipts :
                interaction'[i].manifest.receipts[n] \in Receipts(i)'
      <4>1. /\ \A s \in Receipts(i) : InManifest(i, s)
            /\ \A n \in DOMAIN interaction[i].manifest.receipts :
                  interaction[i].manifest.receipts[n] \in Receipts(i)
        BY <1>3, <3>1 DEF IInv, Endings, EndingOK
      <4>2. Receipts(i)' = Receipts(i)
        BY <2>1 DEF Receipts
      <4>3. interaction'[i].manifest = interaction[i].manifest
        BY <1>3, <1>9
      <4> QED
        BY <4>1, <4>2, <4>3 DEF InManifest
    <3>4. interaction'[i].evidence = "complete"
             => NothingMissing(interaction'[i].manifest, receipt')
      BY <1>5, <1>7, <3>2
    <3>5. SealedLast(i)'
      <4>1. revisions[i] \in Seq(Revisions)
        BY <1>3, <1>4
      <4>2. /\ revisions'[i] # <<>>
            /\ revisions'[i][Len(revisions'[i])] = sealed
        BY <1>6, <3>2, <4>1, Appended
      <4> QED
        BY <1>6, <1>7, <3>2, <4>2 DEF SealedLast
    <3> QED
      BY <2>3, <3>1, <3>3, <3>4, <3>5 DEF EndingOK
  <2> QED
    BY <2>2, <2>3
<1> QED
  BY <1>11, <1>12, <1>13, <1>14 DEF IInv

-------------------------------------------------------------------------------
(* The reaper.                                                                   *)

LEMMA ListingOf ==
    ASSUME TypeOK, NEW p \in Replicas
    PROVE  /\ reaper[p].pass \in Passes \union {"idle"}
           /\ reaper[p] \in Listings(reaper[p].pass)
           /\ reaper[p].now \in Nat /\ reaper[p].now <= clock
<1>1. PICK pass \in Passes \union {"idle"} : reaper[p] \in Listings(pass)
  BY DEF TypeOK
<1>2. reaper[p].pass = pass /\ reaper[p].now \in 0..clock
  BY <1>1 DEF Listings
<1>3. clock \in Nat
  BY Bounds DEF TypeOK
<1> QED
  BY <1>1, <1>2, <1>3

LEMMA RevisitedOK ==
    ASSUME TypeOK, NEW p \in Replicas, NEW candidate \in reaper[p].todo,
           Revisited(p, candidate), UNCHANGED clock
    PROVE  ReaperOK'
<1> DEFINE idle == [pass |-> "idle", now |-> 0, todo |-> {}]
           rest == [reaper[p] EXCEPT !.todo = reaper[p].todo \ {candidate}]
<1>1. /\ reaper[p].pass \in Passes \union {"idle"}
      /\ reaper[p] \in Listings(reaper[p].pass)
  BY ListingOf
<1>2. rest \in Listings(reaper[p].pass)
  BY <1>1 DEF Listings
<1>3. idle \in Listings("idle")
  BY Bounds DEF Listings, TypeOK
<1>4. DOMAIN reaper = Replicas
  BY DEF TypeOK
<1>5. \/ reaper' = [reaper EXCEPT ![p] = idle]
      \/ reaper' = [reaper EXCEPT ![p] = rest]
  BY DEF Revisited
<1> HIDE DEF idle, rest
<1>6. DOMAIN reaper' = Replicas
      /\ \A q \in Replicas : q # p => reaper'[q] = reaper[q]
  BY <1>4, <1>5
<1>7. \E pass \in Passes \union {"idle"} : reaper'[p] \in Listings(pass)
  BY <1>1, <1>2, <1>3, <1>4, <1>5
<1>8. \A q \in Replicas : \E pass \in Passes \union {"idle"} : reaper'[q] \in Listings(pass)
  BY <1>6, <1>7 DEF TypeOK
<1>9. \A pass : Listings(pass)' = Listings(pass)
  BY DEF Listings, Listed
<1> QED
  BY <1>6, <1>8, <1>9 DEF ReaperOK

LEMMA ReaperListIInv ==
    ASSUME IInv, NEW p \in Replicas, NEW pass \in Passes, ReaperList(p, pass)
    PROVE  IInv'
<1> DEFINE listing == [pass |-> pass, now |-> clock, todo |-> Candidates(pass)]
<1>1. Candidates(pass) \subseteq Listed(pass)
  <2>1. \A i \in InteractionIds : interaction[i].leaseVersion \in Nat
    BY DEF IInv, TypeOK, InteractionRows
  <2>2. CASE pass = "abandon"
    BY <2>1, <2>2 DEF Candidates, Expired, Listed
  <2>3. CASE pass = "expire"
    BY <2>3 DEF Candidates, Idle, Listed
  <2>4. CASE pass = "assemble"
    BY <2>4 DEF Candidates, AssemblyDue, Listed
  <2> QED
    BY <2>2, <2>3, <2>4 DEF Passes
<1>2. clock \in 0..clock
  BY Bounds DEF IInv, TypeOK
<1>3. listing \in Listings(pass)
  BY <1>1, <1>2 DEF Listings
<1>4. reaper' = [reaper EXCEPT ![p] = listing] /\ UNCHANGED <<clock, rows>>
  BY DEF ReaperList
<1> HIDE DEF listing
<1>5. \A q : Listings(q)' = Listings(q)
  BY <1>4 DEF Listings, Listed
<1>6. ReaperOK'
  BY <1>3, <1>4, <1>5 DEF IInv, TypeOK, ReaperOK
<1>7. TypeOK'
  BY <1>4, <1>6, TypesKept DEF IInv, TypeOK, rows
<1>8. Hosting'
  BY <1>4, HostingKept DEF IInv, rows, Active
<1>9. Attempts' /\ Endings'
  BY <1>4, AttemptsKept, EndingsKept DEF IInv, rows
<1> QED
  BY <1>7, <1>8, <1>9 DEF IInv

(* A revisit that finds nothing to do.                                             *)
LEMMA NothingDone ==
    ASSUME IInv, ReaperOK',
           UNCHANGED <<clock, conversation, requested, interaction, operation, receipt,
                       revisions, executions>>
    PROVE  IInv'
<1>1. TypeOK'
  BY TypesKept DEF IInv, TypeOK
<1>2. Hosting'
  BY HostingKept DEF IInv, Active
<1> QED
  BY <1>1, <1>2, AttemptsKept, EndingsKept DEF IInv

LEMMA AbandonIInv ==
    ASSUME IInv, NEW i \in InteractionIds, Active(i), NEW now \in Nat, now <= clock,
           Abandon(i, now),
           UNCHANGED <<clock, requested, operation, receipt, executions>>, ReaperOK'
    PROVE  IInv'
<1> DEFINE manifest(order) == [NoManifest EXCEPT !.receipts = order,
              !.deadline = IF HasRequiredPendingReceipt(Receipts(i)) THEN now ELSE NoTime]
           evidence(order) == EvidenceAtTermination(manifest(order), receipt, now)
           command == [NoCommand EXCEPT !.key = "lease-expired", !.mode = "reaper"]
           row(order) == [interaction[i] EXCEPT
                             !.status = "abandoned", !.evidence = evidence(order),
                             !.manifest = manifest(order), !.command = command,
                             !.leaseVersion = @ + 1, !.rowVersion = @ + 1]
           closing == conversation[i[1]].oneShot /\ conversation[i[1]].status = "active"
<1>1. PICK order \in Orders(Receipts(i)) :
         Finish(i, row(order), evidence(order) # "assembling", "lease_expired", closing, now)
  BY DEF Abandon
<1>2. command \in Terminations
  BY Blanks DEF Terminations, CommandKeys, NoCommand, MaybeTime
<1>3. manifest(order) \in Manifests
  <2>1. order \in Seq(ReceiptIds)
    BY Ordered
  <2> QED
    BY <2>1, Blanks DEF Manifests, NoManifest, MaybeTime
<1>4. manifest(order).receipts = order
  BY DEF NoManifest
<1>5. /\ evidence(order) \in Evidence
      /\ evidence(order) = "complete" => NothingMissing(manifest(order), receipt)
  BY Judgements
<1> HIDE DEF manifest, evidence, command
<1>6. interaction[i] \in InteractionRows /\ closing \in BOOLEAN
  BY DEF IInv, TypeOK
<1>7. /\ row(order) \in InteractionRows /\ row(order).status \notin {"absent", "active"}
      /\ row(order).manifest = manifest(order) /\ row(order).evidence = evidence(order)
  <2> DEFINE status == "abandoned"
  <2>1. row(order) = TerminalRow(interaction[i], status, evidence(order),
                                 manifest(order), command)
    BY DEF TerminalRow
  <2>2. status \in Outcomes \union {"abandoned"}
    OBVIOUS
  <2> HIDE DEF row, status
  <2> QED
    BY <1>2, <1>3, <1>5, <1>6, <2>1, <2>2, TerminalRows
<1> DEFINE sealing == evidence(order) # "assembling"
<1>8. /\ Finish(i, row(order), sealing, "lease_expired", closing, now)
      /\ sealing \in BOOLEAN
      /\ sealing \/ row(order).evidence \in {"assembling", "not_applicable"}
  BY <1>1, <1>7
<1> HIDE DEF row, sealing, closing
<1> QED
  BY <1>4, <1>5, <1>6, <1>7, <1>8, FinishIInv

LEMMA AbandonExpiredIInv ==
    ASSUME IInv, NEW p \in Replicas, AbandonExpiredInteraction(p)
    PROVE  IInv'
<1>1. PICK candidate \in reaper[p].todo :
         /\ IF StillExpired(candidate[1], candidate[2], reaper[p].now)
            THEN Abandon(candidate[1], reaper[p].now)
            ELSE UNCHANGED <<conversation, interaction, revisions, outbox>>
         /\ Revisited(p, candidate)
  BY DEF AbandonExpiredInteraction
<1>2. UNCHANGED <<clock, requested, operation, receipt, executions>>
  BY DEF AbandonExpiredInteraction
<1>3. ReaperOK'
  BY <1>1, <1>2, RevisitedOK DEF IInv
<1>4. /\ candidate[1] \in InteractionIds
      /\ reaper[p].now \in Nat /\ reaper[p].now <= clock
  <2>1. reaper[p] \in Listings("abandon")
    <3>1. reaper[p].pass = "abandon"
      BY DEF AbandonExpiredInteraction
    <3>2. TypeOK
      BY DEF IInv
    <3> QED
      BY <3>1, <3>2, ListingOf
  <2> QED
    BY <2>1, ListingOf DEF IInv, Listings, Listed
<1>5. CASE StillExpired(candidate[1], candidate[2], reaper[p].now)
  BY <1>1, <1>2, <1>3, <1>4, <1>5, AbandonIInv DEF StillExpired
<1>6. CASE ~StillExpired(candidate[1], candidate[2], reaper[p].now)
  BY <1>1, <1>2, <1>3, <1>6, NothingDone
<1> QED
  BY <1>5, <1>6

LEMMA ExpireIdleIInv ==
    ASSUME IInv, NEW p \in Replicas, ExpireIdleConversation(p)
    PROVE  IInv'
<1> DEFINE now == reaper[p].now
           row(c) == Ended(conversation[c], "expired", now)
<1>1. PICK candidate \in reaper[p].todo :
         /\ IF StillIdle(candidate[1], now)
            THEN conversation' = [conversation EXCEPT ![candidate[1]] = row(candidate[1])]
            ELSE UNCHANGED conversation
         /\ Revisited(p, candidate)
  BY DEF ExpireIdleConversation
<1> DEFINE c == candidate[1]
<1>2. UNCHANGED <<clock, requested, interaction, operation, receipt, revisions, executions>>
  BY DEF ExpireIdleConversation
<1>3. ReaperOK'
  BY <1>1, <1>2, RevisitedOK DEF IInv
<1>4. c \in ConversationIds /\ now \in Nat /\ now <= clock
  <2>1. reaper[p] \in Listings("expire")
    <3>1. reaper[p].pass = "expire"
      BY DEF ExpireIdleConversation
    <3>2. TypeOK
      BY DEF IInv
    <3> QED
      BY <3>1, <3>2, ListingOf
  <2> QED
    BY <2>1, ListingOf DEF IInv, Listings, Listed
<1>5. conversation \in [ConversationIds -> ConversationRows]
  BY DEF IInv, TypeOK
<1>6. row(c) \in ConversationRows /\ row(c).status = "expired" /\ row(c).updatedAt = now
  BY <1>4, <1>5, EndedRows
<1> HIDE DEF row, c, now
<1>7. CASE StillIdle(c, now)
  <2>1. conversation' = [conversation EXCEPT ![c] = row(c)]
    BY <1>1, <1>7 DEF c
  <2>2. conversation[c].status = "active" /\ ~HasActiveInteraction(c)
    BY <1>7 DEF StillIdle
  <2>3. /\ conversation' \in [ConversationIds -> ConversationRows]
        /\ \A d \in ConversationIds :
              conversation'[d] = conversation[d] \/ conversation'[d].updatedAt <= clock
    BY <1>4, <1>5, <1>6, <2>1
  <2>4. TypeOK'
    BY <1>2, <1>3, <2>3, TypesKept DEF IInv, TypeOK
  <2>5. \A i \in InteractionIds :
           Active(i)' => Active(i) /\ conversation'[i[1]].status = "active"
    <3> SUFFICES ASSUME NEW i \in InteractionIds, Active(i)'
                 PROVE  Active(i) /\ conversation'[i[1]].status = "active"
      OBVIOUS
    <3>1. Active(i)
      BY <1>2 DEF Active
    <3>2. i[1] # c
      BY <2>2, <3>1, Ids DEF HasActiveInteraction
    <3> QED
      BY <1>5, <2>1, <3>1, <3>2, Ids DEF IInv, Hosting, ActiveInteractionIsHosted
  <2>6. Hosting'
    BY <1>5, <1>6, <2>1, <2>2, <2>5, HostingShrinks DEF IInv
  <2> QED
    BY <1>2, <2>4, <2>6, AttemptsKept, EndingsKept DEF IInv
<1>8. CASE ~StillIdle(c, now)
  <2>1. UNCHANGED conversation
    BY <1>1, <1>8 DEF c
  <2> QED
    BY <1>2, <1>3, <2>1, NothingDone
<1> QED
  BY <1>7, <1>8

(* What the deadline pass does to an interaction that is still due.                 *)
PartialRow(i) == [interaction[i] EXCEPT !.evidence = "partial", !.rowVersion = @ + 1]

LEMMA AssembleEffect ==
    ASSUME IInv, NEW p \in Replicas, AssembleDueInteraction(p)
    PROVE  \E i \in InteractionIds :
              /\ \/ /\ interaction[i].evidence = "assembling"
                    /\ interaction' = [interaction EXCEPT ![i] = PartialRow(i)]
                    /\ revisions' = [revisions EXCEPT
                          ![i] = Append(revisions[i], Revision("partial", "deadline"))]
                    /\ interaction[i].manifest.deadline # NoTime
                 \/ UNCHANGED <<interaction, revisions>>
              /\ UNCHANGED <<clock, conversation, requested, operation, receipt, executions>>
              /\ ReaperOK'
<1>1. PICK candidate \in reaper[p].todo :
         /\ IF StillDue(candidate[1], reaper[p].now)
            THEN /\ interaction' = [interaction EXCEPT ![candidate[1]] = PartialRow(candidate[1])]
                 /\ Seal(candidate[1], PartialRow(candidate[1]), TRUE, "deadline")
            ELSE UNCHANGED <<interaction, revisions>>
         /\ Revisited(p, candidate)
  BY DEF AssembleDueInteraction, PartialRow
<1> DEFINE i == candidate[1]
<1>2. UNCHANGED <<clock, conversation, requested, operation, receipt, executions>>
  BY DEF AssembleDueInteraction
<1>3. ReaperOK'
  BY <1>1, <1>2, RevisitedOK DEF IInv
<1>4. i \in InteractionIds
  <2>1. reaper[p] \in Listings("assemble")
    <3>1. reaper[p].pass = "assemble"
      BY DEF AssembleDueInteraction
    <3>2. TypeOK
      BY DEF IInv
    <3> QED
      BY <3>1, <3>2, ListingOf
  <2> QED
    BY <2>1 DEF Listings, Listed
<1>5. PartialRow(i).evidence = "partial"
  BY <1>4 DEF PartialRow, IInv, TypeOK, InteractionRows
<1> QED
  BY <1>1, <1>2, <1>3, <1>4, <1>5 DEF StillDue, Seal

LEMMA AssembleDueIInv ==
    ASSUME IInv, NEW p \in Replicas, AssembleDueInteraction(p)
    PROVE  IInv'
<1> DEFINE sealed == Revision("partial", "deadline")
<1>1. PICK i \in InteractionIds :
         /\ \/ /\ interaction[i].evidence = "assembling"
               /\ interaction' = [interaction EXCEPT ![i] = PartialRow(i)]
               /\ revisions' = [revisions EXCEPT ![i] = Append(revisions[i], sealed)]
               /\ interaction[i].manifest.deadline # NoTime
            \/ UNCHANGED <<interaction, revisions>>
         /\ UNCHANGED <<clock, conversation, requested, operation, receipt, executions>>
         /\ ReaperOK'
  BY AssembleEffect
<1> DEFINE row == PartialRow(i)
<1>2. /\ interaction \in [InteractionIds -> InteractionRows]
      /\ revisions \in [InteractionIds -> Seq(Revisions)]
  BY DEF IInv, TypeOK
<1>3. /\ row \in InteractionRows /\ row.status = interaction[i].status
      /\ row.manifest = interaction[i].manifest /\ row.command = interaction[i].command
      /\ row.evidence = "partial"
  <2>1. interaction[i] \in InteractionRows /\ interaction[i].rowVersion + 1 \in Nat
    BY <1>2 DEF InteractionRows
  <2> QED
    BY <2>1 DEF PartialRow, InteractionRows, Evidence
<1>4. sealed \in Revisions /\ sealed.completeness = "partial"
  BY DEF Revision, Revisions, Evidence
<1> HIDE DEF row, sealed
<1>5. CASE UNCHANGED <<interaction, revisions>>
  BY <1>1, <1>5, NothingDone
<1>6. CASE /\ interaction' = [interaction EXCEPT ![i] = row]
           /\ revisions' = [revisions EXCEPT ![i] = Append(revisions[i], sealed)]
           /\ interaction[i].manifest.deadline # NoTime
  <2>1. Terminal(i)
    BY <1>6 DEF IInv, Endings, EndingOK, NoManifest
  <2>2. /\ interaction' \in [InteractionIds -> InteractionRows] /\ interaction'[i] = row
        /\ \A j \in InteractionIds : /\ Active(j)' <=> Active(j)
                                     /\ Terminal(j)' <=> Terminal(j)
        /\ \A j \in InteractionIds \ {i} : /\ interaction'[j] = interaction[j]
                                           /\ revisions'[j] = revisions[j]
    BY <1>2, <1>3, <1>6 DEF Active, Terminal
  <2>3. revisions[i] \in Seq(Revisions) /\ Append(revisions[i], sealed) \in Seq(Revisions)
    BY <1>2, <1>4
  <2>4. revisions' \in [InteractionIds -> Seq(Revisions)]
        /\ revisions'[i] = Append(revisions[i], sealed)
    BY <1>2, <1>6, <2>3
  <2>5. TypeOK'
    BY <1>1, <2>2, <2>4, TypesKept DEF IInv, TypeOK
  <2>6. Hosting'
    BY <1>1, <2>2, HostingKept DEF IInv
  <2>7. Endings'
    <3> SUFFICES ASSUME NEW j \in InteractionIds PROVE EndingOK(j)'
      BY DEF Endings
    <3>1. CASE j # i
      BY <1>1, <2>2, <3>1, EndingKept DEF IInv, Endings
    <3>2. CASE j = i
      <4>1. /\ \A r \in Receipts(i)' : InManifest(i, r)'
            /\ \A n \in DOMAIN interaction'[i].manifest.receipts :
                  interaction'[i].manifest.receipts[n] \in Receipts(i)'
        BY <1>1, <1>3, <2>1, <2>2 DEF IInv, Endings, EndingOK, Receipts, InManifest
      <4>2. SealedLast(i)'
        <5>1. /\ revisions'[i] # <<>>
              /\ revisions'[i][Len(revisions'[i])] = sealed
          BY <1>4, <2>3, <2>4, Appended
        <5> QED
          BY <1>3, <1>4, <2>2, <5>1 DEF SealedLast
      <4> QED
        BY <1>3, <2>1, <2>2, <3>2, <4>1, <4>2 DEF EndingOK
    <3> QED
      BY <3>1, <3>2
  <2> QED
    BY <1>1, <2>5, <2>6, <2>7, AttemptsKept DEF IInv
<1> QED
  BY <1>1, <1>5, <1>6 DEF row

LEMMA TickIInv == IInv /\ Tick => IInv'
<1> SUFFICES ASSUME IInv, Tick PROVE IInv'
  OBVIOUS
<1>1. clock \in Nat /\ clock' = clock + 1 /\ clock' \in 0..MaxClock
  BY Bounds DEF IInv, TypeOK, Tick
<1>2. UNCHANGED <<conversation, requested, interaction, operation, receipt, revisions,
                  executions, reaper>>
  BY DEF Tick, rows
<1>3. \A c \in ConversationIds : conversation[c].updatedAt <= clock'
  BY <1>1 DEF IInv, TypeOK, ConversationRows
<1>4. \A pass : \A entry \in Listings(pass) : entry \in Listings(pass)'
  BY <1>1 DEF Listings, Listed
<1>5. \A p \in Replicas : \E pass \in Passes \union {"idle"} : reaper[p] \in Listings(pass)'
  BY <1>4 DEF IInv, TypeOK
<1>6. TypeOK'
  BY <1>1, <1>2, <1>3, <1>5 DEF IInv, TypeOK
<1>7. Hosting'
  BY <1>2, HostingKept DEF IInv, Active
<1> QED
  BY <1>2, <1>6, <1>7, AttemptsKept, EndingsKept DEF IInv

-------------------------------------------------------------------------------
LEMMA InitIInv == Init => IInv
<1> SUFFICES ASSUME Init PROVE IInv
  OBVIOUS
<1>1. TypeOK
  <2>1. \A p \in Replicas : reaper[p] \in Listings("idle")
    BY DEF Init, Listings
  <2>2. \A i \in InteractionIds : revisions[i] \in Seq(Revisions)
    BY DEF Init
  <2>3. revisions \in [InteractionIds -> Seq(Revisions)]
    BY <2>2 DEF Init
  <2>4. conversation \in [ConversationIds -> ConversationRows]
        /\ \A c \in ConversationIds : conversation[c].updatedAt <= clock
    BY Blanks DEF Init, NoConversation
  <2>5. /\ interaction \in [InteractionIds -> InteractionRows]
        /\ operation \in [OperationIds -> OperationRows]
        /\ receipt \in [ReceiptIds -> ReceiptRows]
    BY Blanks DEF Init
  <2>6. clock \in 0..MaxClock /\ requested \in [Keys -> [RequestKeys -> 0..MaxGenerations]]
        /\ executions \in [ReceiptIds -> Nat]
    BY Bounds DEF Init
  <2>7. DOMAIN reaper = Replicas
    BY DEF Init
  <2> QED
    BY <2>1, <2>3, <2>4, <2>5, <2>6, <2>7 DEF TypeOK
<1>2. Hosting
  BY Ids DEF Init, Hosting, OnlyNewestGenerationActive, ActiveInteractionIsHosted, Active,
     NoConversation, NoInteraction
<1>3. Attempts
  <2>1. \A o \in OperationIds : operation[o].attempt = 0 /\ operation[o].status = "absent"
    BY DEF Init, NoOperation
  <2>2. \A r \in ReceiptIds : /\ receipt[r].status = "absent" /\ executions[r] = 0
                              /\ receipt[r].durability = "pending"
    BY DEF Init, NoReceipt
  <2>3. \A n \in 1..MaxAttempts : ~(n <= 0) /\ ~(n < 0) /\ n # 0
    OBVIOUS
  <2>4. \A o \in OperationIds : AttemptsOf(o)
    BY <2>1, <2>2, <2>3, Ids DEF AttemptsOf
  <2> QED
    BY <2>1, <2>2, <2>3, <2>4, Ids DEF Attempts, Undecided, ExecutedOnce
<1>4. Endings
  BY DEF Init, Endings, EndingOK, Terminal, NoInteraction
<1> QED
  BY <1>1, <1>2, <1>3, <1>4 DEF IInv

LEMMA NextIInv == IInv /\ [Next]_vars => IInv'
<1> SUFFICES ASSUME IInv, [Next]_vars PROVE IInv'
  OBVIOUS
<1>1. ASSUME NEW now \in Nows, ConversationCall(now) PROVE IInv'
  BY <1>1, EnsureIInv, CreateNewGenerationIInv, CloseIInv DEF ConversationCall
<1>2. ASSUME NEW now \in Nows, InteractionCall(now) PROVE IInv'
  BY <1>2, StartIInv, TerminateIInv DEF InteractionCall
<1>3. ASSUME NEW now \in Nows, OperationCall(now) PROVE IInv'
  BY <1>3, CreateOperationIInv, ReplayOperationIInv, ClaimReadyAttemptIInv,
     StartOperationAttemptIInv, FinishOperationAttemptIInv DEF OperationCall
<1>4. ASSUME NEW p \in Replicas, Reap(p) PROVE IInv'
  BY <1>4, ReaperListIInv, AbandonExpiredIInv, ExpireIdleIInv, AssembleDueIInv DEF Reap
<1>5. CASE Tick
  BY <1>5, TickIInv
<1>6. CASE UNCHANGED vars
  <2>1. UNCHANGED <<clock, conversation, requested, interaction, operation, receipt,
                    revisions, executions, reaper>>
    BY <1>6 DEF vars, rows
  <2> QED
    BY <2>1, ReaperKept, NothingDone DEF IInv
<1> QED
  BY <1>1, <1>2, <1>3, <1>4, <1>5, <1>6 DEF Next

(* What the rows hold, for any number of callers, replicas and rows.                *)
THEOREM Invariance == Spec => []IInv
BY InitIInv, NextIInv, PTL DEF Spec

(* Rows and the reaper's memory keep their types, and no time in them is ahead of    *)
(* the clock.                                                                      *)
THEOREM TypeCorrect == Spec => []TypeOK
<1>1. IInv => TypeOK
  BY DEF IInv
<1> QED
  BY <1>1, Invariance, PTL

(* Ensure, new generation, close, one-shot ends and expiry, in any order, leave a     *)
(* key one current conversation at most: the newest.                                *)
THEOREM NewestIsCurrent == Spec => []OnlyNewestGenerationActive
<1>1. IInv => OnlyNewestGenerationActive
  BY DEF IInv, Hosting
<1> QED
  BY <1>1, Invariance, PTL

(* Nothing ends a conversation under its active interaction, of which it has one:     *)
(* the idle pass and its stale list included.                                      *)
THEOREM InteractionsAreHosted == Spec => []ActiveInteractionIsHosted
<1>1. IInv => ActiveInteractionIsHosted
  BY DEF IInv, Hosting
<1> QED
  BY <1>1, Invariance, PTL

(* However callers repeat, retry and finish: each attempt was handed out once, from   *)
(* the moment it was pending.                                                      *)
THEOREM AttemptsExecutedOnce == Spec => []ExecutedOnce
<1>1. IInv => ExecutedOnce
  BY DEF IInv, Attempts
<1> QED
  BY <1>1, Invariance, PTL

(* The manifest of an interaction that ended, by a caller or by the reaper, lists     *)
(* every receipt it has, also those that finish later.                              *)
THEOREM ManifestsCover == Spec => []ManifestCoversReceipts
<1>1. IInv => ManifestCoversReceipts
  BY DEF IInv, Endings, EndingOK, ManifestCoversReceipts
<1> QED
  BY <1>1, Invariance, PTL

(* What readers are told of the evidence was sealed, whoever decided it last.         *)
THEOREM DecisionsSealed == Spec => []DecisionsAreSealed
<1>1. IInv => DecisionsAreSealed
  BY DEF IInv, Endings, EndingOK, SealedLast, DecisionsAreSealed
<1> QED
  BY <1>1, Invariance, PTL

(* Complete evidence means that no required receipt is missing or lossy: the end, the  *)
(* deadline and late receipts judge by a manifest that covers them all.             *)
THEOREM CompleteIsDurable == Spec => []CompleteMeansDurable
<1>1. IInv => CompleteMeansDurable
  <2> SUFFICES ASSUME IInv, NEW i \in InteractionIds, Terminal(i),
                      interaction[i].evidence = "complete",
                      NEW r \in Receipts(i), receipt[r].required
               PROVE  /\ receipt[r].status # "pending"
                      /\ receipt[r].durability = "durable"
                      /\ ~receipt[r].partial
    BY DEF CompleteMeansDurable
  <2>1. Verdict(receipt[r]) = "neutral"
    BY DEF IInv, Endings, EndingOK, NothingMissing, InManifest
  <2>2. receipt[r] \in ReceiptRows /\ Undecided(receipt[r])
    BY DEF Receipts, IInv, TypeOK, Attempts
  <2> QED
    BY <2>1, <2>2 DEF Verdict, Undecided, ReceiptRows
<1> QED
  BY <1>1, Invariance, PTL

-------------------------------------------------------------------------------
(* A step gives the mark of the reaper only to an interaction that has lapsed, and     *)
(* most give no marks.                                                             *)
Untouched(i) == interaction'[i].command = interaction[i].command

LEMMA OthersUntouched ==
    ASSUME IInv, NEW i \in InteractionIds, NEW j \in InteractionIds, j # i, NEW row,
           interaction' = [interaction EXCEPT ![i] = row]
    PROVE  Untouched(j)
BY DEF Untouched, IInv, TypeOK

LEMMA CallsTouchNothing ==
    ASSUME IInv, NEW now \in Nows, NEW o \in OperationIds, NEW i \in InteractionIds,
           \/ \E required \in BOOLEAN, input \in Inputs : CreateOperation(o, required, input, now)
           \/ ReplayOperation(o, now) \/ ClaimReadyAttempt(o, now)
           \/ StartOperationAttempt(o, now)
    PROVE  Untouched(i)
<1> DEFINE row == Renewed(o[1], now)
           opened == [row EXCEPT !.evidence = "assembling", !.rowVersion = @ + 1]
<1>1. o[1] \in InteractionIds
  BY Ids
<1>2. /\ Active(o[1])
      /\ \/ interaction' = [interaction EXCEPT ![o[1]] = row]
         \/ interaction' = [interaction EXCEPT ![o[1]] = opened]
  BY DEF CreateOperation, ReplayOperation, ClaimReadyAttempt, StartOperationAttempt, MayCall
<1>3. row \in InteractionRows /\ row.command = interaction[o[1]].command
  BY <1>1, RenewedRows
<1> HIDE DEF row
<1>4. opened.command = interaction[o[1]].command
  BY <1>3 DEF InteractionRows
<1> HIDE DEF opened
<1>5. CASE i # o[1]
  BY <1>1, <1>2, <1>5, OthersUntouched
<1>6. CASE i = o[1]
  BY <1>2, <1>3, <1>4, <1>6 DEF Untouched, IInv, TypeOK
<1> QED
  BY <1>5, <1>6

LapsedStep(i) ==
    Active(i) /\ interaction'[i].command.mode = "reaper"
        => interaction[i].leaseExpiresAt <= clock

LEMMA UntouchedSteps ==
    ASSUME IInv, NEW i \in InteractionIds, Untouched(i)
    PROVE  LapsedStep(i)
<1>1. Active(i) => interaction[i].command.mode = "none"
  BY DEF IInv, Endings, EndingOK, Active, Terminal, NoCommand
<1> QED
  BY <1>1 DEF Untouched, LapsedStep

LEMMA StartSteps ==
    ASSUME IInv, NEW i \in InteractionIds, NEW c \in ConversationIds, NEW key \in StartKeys,
           NEW agent \in AgentNames, NEW lease \in LeaseDurations, NEW now \in Nows,
           StartInteraction(c, key, agent, lease, now)
    PROVE  LapsedStep(i)
<1> DEFINE row == [NoInteraction EXCEPT !.status = "active", !.startKey = key,
                       !.leaseExpiresAt = now + lease, !.leaseVersion = 1,
                       !.rowVersion = 1]
<1>1. PICK n \in 1..MaxOrdinals :
         NextOrdinal(c, n) /\ interaction' = [interaction EXCEPT ![<<c, n>>] = row]
  BY DEF StartInteraction
<1>2. <<c, n>> \in InteractionIds /\ interaction[<<c, n>>].status = "absent"
  BY <1>1, Ids DEF NextOrdinal
<1> HIDE DEF row
<1>3. CASE i # <<c, n>>
  BY <1>1, <1>2, <1>3, OthersUntouched, UntouchedSteps
<1>4. CASE i = <<c, n>>
  BY <1>2, <1>4 DEF LapsedStep, Active, Terminal
<1> QED
  BY <1>3, <1>4

LEMMA TerminateSteps ==
    ASSUME IInv, NEW j \in InteractionIds,
           NEW i \in InteractionIds, NEW status \in Outcomes, NEW command \in Commands,
           NEW systemPartial \in SystemPartial, NEW claims \in Claims, NEW now \in Nows,
           TerminateInteraction(i, status, command, systemPartial, claims, now)
    PROVE  LapsedStep(j)
<1>1. Active(i) /\ interaction[i] \in InteractionRows /\ command.mode # "reaper"
  BY SessionAssumption DEF TerminateInteraction, IInv, TypeOK
<1>2. \E row : /\ interaction' = [interaction EXCEPT ![i] = row]
               /\ row.command = command
  <2> DEFINE manifest(order) ==
                [receipts |-> order, deadline |-> AssemblerDeadline(i, command.deadline, now),
                 systemPartial |-> systemPartial, claims |-> claims]
             evidence(order) == EvidenceAtTermination(manifest(order), receipt, now)
             row(order) == [interaction[i] EXCEPT
                               !.status = status, !.evidence = evidence(order),
                               !.manifest = manifest(order), !.command = command,
                               !.leaseVersion = @ + 1, !.rowVersion = @ + 1]
  <2>1. PICK order \in Orders(Receipts(i)) :
           interaction' = [interaction EXCEPT ![i] = row(order)]
    BY DEF TerminateInteraction, Finish
  <2> HIDE DEF manifest, evidence
  <2>2. row(order).command = command
    BY <1>1 DEF InteractionRows
  <2> HIDE DEF row
  <2> QED
    BY <2>1, <2>2
<1>3. CASE j # i
  BY <1>2, <1>3, OthersUntouched, UntouchedSteps
<1>4. CASE j = i
  <2>1. interaction'[i].command = command
    BY <1>2 DEF IInv, TypeOK
  <2> QED
    BY <1>1, <1>4, <2>1 DEF LapsedStep, Active, Terminal
<1> QED
  BY <1>3, <1>4

LEMMA FinishSteps ==
    ASSUME IInv, NEW j \in InteractionIds,
           NEW r \in ReceiptIds, NEW result \in Results, NEW now \in Nows,
           FinishOperationAttempt(r, result, now)
    PROVE  LapsedStep(j)
<1> DEFINE i == r[1][1]
           row == RejudgedRow(i, receipt', now)
<1>1. i \in InteractionIds
  BY Ids
<1>2. \/ interaction' = [interaction EXCEPT ![i] = row]
      \/ UNCHANGED interaction
  BY FinishEffect
<1>3. row.command = interaction[i].command
  BY <1>1 DEF RejudgedRow, IInv, TypeOK, InteractionRows
<1> HIDE DEF row
<1>4. Untouched(j)
  BY <1>1, <1>2, <1>3 DEF Untouched, IInv, TypeOK
<1> QED
  BY <1>4, UntouchedSteps

LEMMA AbandonSteps ==
    ASSUME IInv, NEW j \in InteractionIds, NEW p \in Replicas, AbandonExpiredInteraction(p)
    PROVE  LapsedStep(j)
<1>1. PICK candidate \in reaper[p].todo :
         IF StillExpired(candidate[1], candidate[2], reaper[p].now)
         THEN Abandon(candidate[1], reaper[p].now)
         ELSE UNCHANGED interaction
  BY DEF AbandonExpiredInteraction
<1> DEFINE i == candidate[1]
           now == reaper[p].now
<1>2. i \in InteractionIds /\ now \in Nat /\ now <= clock
  <2>1. reaper[p] \in Listings("abandon")
    <3>1. reaper[p].pass = "abandon"
      BY DEF AbandonExpiredInteraction
    <3>2. TypeOK
      BY DEF IInv
    <3> QED
      BY <3>1, <3>2, ListingOf
  <2> QED
    BY <2>1, ListingOf DEF IInv, Listings, Listed
<1>3. CASE StillExpired(i, candidate[2], now)
  <2>1. PICK row : interaction' = [interaction EXCEPT ![i] = row]
    BY <1>1, <1>3 DEF Abandon, Finish
  <2>2. CASE j # i
    BY <1>2, <2>1, <2>2, OthersUntouched, UntouchedSteps
  <2>3. CASE j = i
    <3>1. interaction[i].leaseExpiresAt <= now /\ Active(i)
      BY <1>3 DEF StillExpired
    <3>2. interaction[i].leaseExpiresAt \in Nat /\ clock \in Nat
      BY <1>2, Bounds DEF IInv, TypeOK, InteractionRows
    <3> QED
      BY <1>2, <2>3, <3>1, <3>2 DEF LapsedStep, Active, Terminal
  <2> QED
    BY <2>2, <2>3
<1>4. CASE ~StillExpired(i, candidate[2], now)
  BY <1>1, <1>4, UntouchedSteps DEF Untouched
<1> QED
  BY <1>3, <1>4

LEMMA AssembleSteps ==
    ASSUME IInv, NEW j \in InteractionIds, NEW p \in Replicas, AssembleDueInteraction(p)
    PROVE  LapsedStep(j)
<1>1. PICK i \in InteractionIds :
         \/ /\ interaction[i].evidence = "assembling"
            /\ interaction' = [interaction EXCEPT ![i] = PartialRow(i)]
         \/ UNCHANGED interaction
  BY AssembleEffect
<1>2. CASE UNCHANGED interaction
  BY <1>2, UntouchedSteps DEF Untouched
<1>3. CASE /\ interaction[i].evidence = "assembling"
           /\ interaction' = [interaction EXCEPT ![i] = PartialRow(i)]
  <2>1. CASE j # i
    BY <1>3, <2>1, OthersUntouched, UntouchedSteps
  <2>2. CASE j = i
    <3>1. interaction'[i].command = interaction[i].command
      BY <1>3 DEF PartialRow, IInv, TypeOK, InteractionRows
    <3> QED
      BY <2>2, <3>1, UntouchedSteps DEF Untouched
  <2> QED
    BY <2>1, <2>2
<1> QED
  BY <1>1, <1>2, <1>3

LEMMA NextSteps ==
    ASSUME IInv, [Next]_vars, NEW i \in InteractionIds
    PROVE  LapsedStep(i)
<1>1. ASSUME UNCHANGED interaction PROVE LapsedStep(i)
  BY <1>1, UntouchedSteps DEF Untouched
<1>2. ASSUME NEW now \in Nows, ConversationCall(now) PROVE LapsedStep(i)
  BY <1>1, <1>2 DEF ConversationCall, EnsureCurrentConversation, CreateNewGeneration,
     CloseConversation
<1>3. ASSUME NEW now \in Nows, InteractionCall(now) PROVE LapsedStep(i)
  BY <1>3, StartSteps, TerminateSteps DEF InteractionCall
<1>4. ASSUME NEW now \in Nows, OperationCall(now) PROVE LapsedStep(i)
  <2>1. ASSUME NEW o \in OperationIds,
               \/ \E required \in BOOLEAN, input \in Inputs :
                     CreateOperation(o, required, input, now)
               \/ ReplayOperation(o, now) \/ ClaimReadyAttempt(o, now)
               \/ StartOperationAttempt(o, now)
        PROVE  LapsedStep(i)
    BY <2>1, CallsTouchNothing, UntouchedSteps
  <2> QED
    BY <1>4, <2>1, FinishSteps DEF OperationCall
<1>5. ASSUME NEW p \in Replicas, Reap(p) PROVE LapsedStep(i)
  <2>1. CASE (\E pass \in Passes : ReaperList(p, pass)) \/ ExpireIdleConversation(p)
    BY <1>1, <2>1 DEF ReaperList, rows, ExpireIdleConversation
  <2> QED
    BY <1>5, <2>1, AbandonSteps, AssembleSteps DEF Reap
<1>6. CASE Tick \/ UNCHANGED vars
  BY <1>1, <1>6 DEF Tick, vars, rows
<1> QED
  BY <1>2, <1>3, <1>4, <1>5, <1>6 DEF Next

(* The reaper abandons only what has lapsed when it is abandoned: a renewal between    *)
(* its listing and its revisit saves the interaction.                               *)
THEOREM OnlyLapsedAbandoned == Spec => OnlyLapsedAreAbandoned
<1>1. IInv /\ [Next]_vars =>
         [\A i \in InteractionIds : Active(i) /\ interaction'[i].command.mode = "reaper"
             => interaction[i].leaseExpiresAt <= clock]_vars
  BY NextSteps DEF LapsedStep
<1> QED
  BY <1>1, Invariance, PTL DEF Spec, OnlyLapsedAreAbandoned

===============================================================================
