-------------------------- MODULE SessionPromiseProofs --------------------------
(* SessionLifecycle implements SessionPromise: what the rows show readers of a trace *)
(* follows the promise step by step. Calls and reaper passes that only renew leases,  *)
(* hand out attempts or find nothing to do are stutters.                             *)
EXTENDS SessionLifecycleProofs, WellFoundedInduction

-------------------------------------------------------------------------------
(* The verdict on the evidence, judged in the order of the manifest, and what the     *)
(* receipts say as a set.                                                          *)

(* A set of positions that is not empty has a first one.                            *)
LEMMA HasFirst ==
    ASSUME NEW S \in SUBSET Nat, S # {}
    PROVE  \E n \in S : \A m \in S : n <= m
<1>1. \E n \in S : \A m \in S : ~ (<<m, n>> \in OpToRel(<, Nat))
  BY NatLessThanWellFounded, WFMin
<1>2. PICK n \in S : \A m \in S : ~ (<<m, n>> \in OpToRel(<, Nat))
  BY <1>1
<1>3. ASSUME NEW m \in S PROVE n <= m
  <2>1. ~ (m < n)
    BY <1>2 DEF OpToRel
  <2> QED
    BY <2>1
<1> QED
  BY <1>3

(* The receipts of an interaction that are there in rcpts, and what they report.      *)
Having(i, rcpts) == {r \in ReceiptIds : r[1][1] = i /\ rcpts[r].status # "absent"}
ReportsIn(rcpts) == [r \in ReceiptIds |->
    IF rcpts[r].status = "absent" THEN "absent" ELSE Verdict(rcpts[r])]

(* A manifest that lists the receipts of an interaction and nothing else.             *)
Lists(manifest, i, rcpts) ==
    /\ manifest.receipts \in Seq(ReceiptIds)
    /\ \A r \in Having(i, rcpts) : \E n \in DOMAIN manifest.receipts : manifest.receipts[n] = r
    /\ \A n \in DOMAIN manifest.receipts : manifest.receipts[n] \in Having(i, rcpts)

LEMMA SaidIs ==
    ASSUME NEW i \in InteractionIds, NEW rcpts
    PROVE  Promise!Said(i, ReportsIn(rcpts)) = {Verdict(rcpts[r]) : r \in Having(i, rcpts)}
<1>1. Promise!Said(i, ReportsIn(rcpts))
        = {ReportsIn(rcpts)[r] : r \in {s \in ReceiptIds : s[1][1] = i}} \ {"absent"}
  BY DEF Promise!Said
<1>2. \A r \in ReceiptIds : ReportsIn(rcpts)[r] =
         IF rcpts[r].status = "absent" THEN "absent" ELSE Verdict(rcpts[r])
  BY DEF ReportsIn
<1>3. \A r \in ReceiptIds : Verdict(rcpts[r]) # "absent"
  BY Verdicts
<1> QED
  BY <1>1, <1>2, <1>3 DEF Having

(* However the manifest is ordered: judging by it leaves what the receipts leave open,  *)
(* and nothing is undecided unless a receipt is awaited.                             *)
LEMMA JudgedBySaid ==
    ASSUME NEW i \in InteractionIds, NEW rcpts, NEW now, NEW manifest,
           Lists(manifest, i, rcpts), manifest.systemPartial \in BOOLEAN
    PROVE  LET evidence == EvidenceAtTermination(manifest, rcpts, now)
               said == Promise!Said(i, ReportsIn(rcpts))
           IN /\ evidence \in Promise!Verdicts(said, manifest.systemPartial)
              /\ evidence = "assembling" => "pending" \in said
<1> DEFINE verdictAt(n) == Verdict(rcpts[manifest.receipts[n]])
           decisive == {n \in DOMAIN manifest.receipts : verdictAt(n) # "neutral"}
           first == CHOOSE n \in decisive : \A m \in decisive : n <= m
           said == Promise!Said(i, ReportsIn(rcpts))
           evidence == EvidenceAtTermination(manifest, rcpts, now)
           due == manifest.deadline = NoTime \/ manifest.deadline > now
<1>1. evidence = IF manifest.systemPartial THEN "partial"
                 ELSE IF manifest.receipts = <<>> /\ ~manifest.claims THEN "not_applicable"
                 ELSE IF decisive = {} THEN "complete"
                 ELSE IF verdictAt(first) = "pending" /\ due THEN "assembling"
                 ELSE "partial"
  BY DEF EvidenceAtTermination
<1>2. said = {Verdict(rcpts[r]) : r \in Having(i, rcpts)}
  BY SaidIs
<1>3. /\ \A n \in DOMAIN manifest.receipts : verdictAt(n) \in said
      /\ \A v \in said : \E n \in DOMAIN manifest.receipts : v = verdictAt(n)
  BY <1>2 DEF Lists
<1>4. DOMAIN manifest.receipts \subseteq Nat
  BY DEF Lists
<1>5. manifest.receipts = <<>> => DOMAIN manifest.receipts = {}
  OBVIOUS
<1>6. decisive # {} => first \in decisive
  <2>1. ASSUME decisive # {} PROVE \E n \in decisive : \A m \in decisive : n <= m
    <3>1. decisive \in SUBSET Nat
      BY <1>4
    <3> HIDE DEF decisive
    <3> QED
      BY <2>1, <3>1, HasFirst
  <2> QED
    BY <2>1
<1>7. \A n \in DOMAIN manifest.receipts : verdictAt(n) \in {"neutral", "pending", "partial"}
  BY Verdicts
<1> HIDE DEF first, evidence, said, verdictAt, due
<1>8. CASE manifest.systemPartial
  BY <1>1, <1>8 DEF Promise!Verdicts, said, evidence
<1>9. CASE ~manifest.systemPartial /\ manifest.receipts = <<>> /\ ~manifest.claims
  <2>1. said = {}
    BY <1>3, <1>5, <1>9
  <2> QED
    BY <1>1, <1>9, <2>1 DEF Promise!Verdicts, said, evidence
<1>10. CASE /\ ~manifest.systemPartial /\ ~(manifest.receipts = <<>> /\ ~manifest.claims)
            /\ decisive = {}
  <2>1. said = {} \/ said = {"neutral"}
    BY <1>3, <1>10
  <2> QED
    BY <1>1, <1>10, <2>1 DEF Promise!Verdicts, said, evidence
<1>11. CASE /\ ~manifest.systemPartial /\ ~(manifest.receipts = <<>> /\ ~manifest.claims)
            /\ decisive # {}
  <2>1. verdictAt(first) \in said /\ verdictAt(first) \in {"pending", "partial"}
    BY <1>3, <1>6, <1>7, <1>11
  <2>2. evidence \in {"assembling", "partial"}
        /\ (evidence = "assembling" => "pending" \in said)
    BY <1>1, <1>11, <2>1
  <2>3. evidence \in Promise!Verdicts(said, manifest.systemPartial)
    BY <1>11, <2>1, <2>2 DEF Promise!Verdicts
  <2> QED
    BY <2>2, <2>3 DEF said, evidence
<1> QED
  BY <1>8, <1>9, <1>10, <1>11 DEF said, evidence

-------------------------------------------------------------------------------
(* What readers see, table by table.                                               *)

LEMMA ViewsKept ==
    /\ UNCHANGED conversation => UNCHANGED Standing
    /\ UNCHANGED interaction => UNCHANGED <<Stage, Limited, Told>>
    /\ UNCHANGED receipt => UNCHANGED Reports
    /\ UNCHANGED revisions => UNCHANGED Recorded
BY DEF Standing, Stage, Limited, Told, Reports, Recorded, Terminal

LEMMA ReportsAre == Reports = ReportsIn(receipt) /\ Reports' = ReportsIn(receipt')
BY DEF Reports, ReportsIn

LEMMA Seen ==
    /\ \A c \in ConversationIds : Standing[c] =
          IF conversation[c].status \in {"absent", "active"} THEN conversation[c].status
          ELSE "over"
    /\ \A i \in InteractionIds :
          /\ Stage[i] = IF Terminal(i) THEN "ended" ELSE interaction[i].status
          /\ Limited[i] = interaction[i].manifest.systemPartial
          /\ Told[i] = IF Terminal(i) THEN interaction[i].evidence ELSE "none"
    /\ \A r \in ReceiptIds : Reports[r] =
          IF receipt[r].status = "absent" THEN "absent" ELSE Verdict(receipt[r])
BY DEF Standing, Stage, Limited, Told, Reports

LEMMA BusyIs == \A c \in ConversationIds : Promise!Busy(c) <=> HasActiveInteraction(c)
<1> SUFFICES ASSUME NEW c \in ConversationIds
             PROVE  Promise!Busy(c) <=> HasActiveInteraction(c)
  OBVIOUS
<1>1. \A i \in InteractionIds : Stage[i] = "active" <=> Active(i)
  BY Seen DEF Active, Terminal
<1>2. Promise!Busy(c) <=> \E i \in InteractionIds : i[1] = c /\ Stage[i] = "active"
  BY DEF Promise!Busy
<1>3. ASSUME NEW i \in InteractionIds, i[1] = c, Active(i) PROVE HasActiveInteraction(c)
  <2>1. i = <<c, i[2]>> /\ i[2] \in 1..MaxOrdinals
    BY <1>3, Ids
  <2> QED
    BY <1>3, <2>1 DEF HasActiveInteraction
<1>4. ASSUME NEW n \in 1..MaxOrdinals, Active(<<c, n>>)
      PROVE  \E i \in InteractionIds : i[1] = c /\ Active(i)
  <2>1. <<c, n>> \in InteractionIds /\ <<c, n>>[1] = c
    BY Ids
  <2> QED
    BY <1>4, <2>1
<1> QED
  BY <1>1, <1>2, <1>3, <1>4 DEF HasActiveInteraction

(* An entry behind a record's completeness.                                         *)
LEMMA RecordedGrows ==
    ASSUME TypeOK, NEW i \in InteractionIds, NEW rev \in Revisions,
           revisions' = [revisions EXCEPT ![i] = Append(revisions[i], rev)]
    PROVE  Recorded' = [Recorded EXCEPT ![i] = Append(Recorded[i], rev.completeness)]
<1>1. revisions \in [InteractionIds -> Seq(Revisions)]
  BY DEF TypeOK
<1> DEFINE told(q) == [n \in 1..Len(q) |-> q[n].completeness]
<1>2. ASSUME NEW q \in Seq(Revisions)
      PROVE  told(Append(q, rev)) = Append(told(q), rev.completeness)
  <2>1. Len(q) \in Nat /\ Len(Append(q, rev)) = Len(q) + 1
    OBVIOUS
  <2>2. told(q) \in Seq(Evidence)
    <3>1. \A n \in 1..Len(q) : q[n] \in Revisions
      OBVIOUS
    <3>2. \A n \in 1..Len(q) : q[n].completeness \in Evidence
      BY <3>1 DEF Revisions
    <3>3. told(q) \in [1..Len(q) -> Evidence]
      BY <3>2
    <3> QED
      BY <2>1, <3>3
  <2>3. Len(told(q)) = Len(q)
    BY <2>1, <2>2
  <2>4. rev.completeness \in Evidence
    BY DEF Revisions
  <2>5. Append(told(q), rev.completeness) \in Seq(Evidence)
        /\ Len(Append(told(q), rev.completeness)) = Len(q) + 1
    BY <2>2, <2>3, <2>4
  <2>6. \A n \in 1..(Len(q) + 1) :
           Append(told(q), rev.completeness)[n] = Append(q, rev)[n].completeness
    <3> SUFFICES ASSUME NEW n \in 1..(Len(q) + 1)
                 PROVE  Append(told(q), rev.completeness)[n] = Append(q, rev)[n].completeness
      OBVIOUS
    <3>1. CASE n = Len(q) + 1
      BY <2>1, <2>2, <2>3, <2>4, <3>1
    <3>2. CASE n \in 1..Len(q)
      BY <2>1, <2>2, <2>3, <2>4, <3>2
    <3> QED
      BY <2>1, <3>1, <3>2
  <2> QED
    BY <2>1, <2>5, <2>6
<1>3. \A j \in InteractionIds : /\ Recorded[j] = told(revisions[j])
                                /\ Recorded'[j] = told(revisions'[j])
  BY DEF Recorded
<1>4. Recorded = [j \in InteractionIds |-> Recorded[j]]
      /\ Recorded' = [j \in InteractionIds |-> Recorded'[j]]
  BY DEF Recorded
<1> HIDE DEF told
<1>5. Recorded'[i] = Append(Recorded[i], rev.completeness)
  BY <1>1, <1>2, <1>3
<1>6. \A j \in InteractionIds \ {i} : Recorded'[j] = Recorded[j]
  BY <1>1, <1>3
<1> QED
  BY <1>4, <1>5, <1>6

-------------------------------------------------------------------------------
(* Conversations.                                                                *)

PromiseStep == Promise!Next \/ UNCHANGED Promise!vars

LEMMA Stutters ==
    ASSUME UNCHANGED <<conversation, interaction, receipt, revisions>>
    PROVE  PromiseStep
BY ViewsKept DEF PromiseStep, Promise!vars

LEMMA Opens ==
    ASSUME IInv, NEW c \in ConversationIds, conversation[c].status = "absent",
           conversation'[c].status = "active",
           UNCHANGED <<interaction, receipt, revisions>>,
           \A d \in ConversationIds \ {c} :
              \/ /\ d[1] = c[1] /\ conversation[d].status = "active"
                 /\ ~HasActiveInteraction(d)
                 /\ conversation'[d].status \notin {"absent", "active"}
              \/ /\ ~(d[1] = c[1] /\ conversation[d].status = "active")
                 /\ conversation'[d] = conversation[d]
    PROVE  Promise!Open(c)
<1> DEFINE replaced == {d \in ConversationIds : d[1] = c[1] /\ Standing[d] = "active"}
<1>1. \A d \in ConversationIds :
         /\ d \in replaced <=> d[1] = c[1] /\ conversation[d].status = "active"
         /\ d \in replaced => ~Promise!Busy(d)
  BY Seen, BusyIs
<1>2. Standing[c] = "absent"
  BY Seen
<1>3. \A d \in ConversationIds : Standing'[d] =
         IF d = c THEN "active" ELSE IF d \in replaced THEN "over" ELSE Standing[d]
  BY <1>1 DEF Standing
<1>4. Standing' = [d \in ConversationIds |->
         IF d = c THEN "active" ELSE IF d \in replaced THEN "over" ELSE Standing[d]]
  <2>1. Standing' = [d \in ConversationIds |-> Standing'[d]]
    BY DEF Standing
  <2> HIDE DEF replaced
  <2> QED
    BY <1>3, <2>1
<1>5. UNCHANGED <<Stage, Reports, Limited, Told, Recorded>>
  BY ViewsKept
<1> QED
  BY <1>1, <1>2, <1>4, <1>5 DEF Promise!Open

LEMMA EnsurePromise ==
    ASSUME IInv, NEW k \in Keys, NEW oneShot \in OneShots, NEW now \in Nows,
           EnsureCurrentConversation(k, oneShot, now)
    PROVE  PromiseStep
<1> DEFINE row == NewConversation(oneShot, now)
<1>1. PICK g \in 1..MaxGenerations :
         NextGeneration(k, g) /\ conversation' = [conversation EXCEPT ![<<k, g>>] = row]
  BY DEF EnsureCurrentConversation
<1> DEFINE c == <<k, g>>
<1>2. row.status = "active"
  BY NewRows, CallTimes DEF IInv
<1> HIDE DEF row
<1>3. /\ c \in ConversationIds /\ conversation[c].status = "absent"
      /\ conversation \in [ConversationIds -> ConversationRows]
  BY <1>1, Ids, Bounds DEF IInv, TypeOK, NextGeneration
<1>4. ASSUME NEW d \in ConversationIds, d[1] = k PROVE conversation[d].status # "active"
  <2>1. d = <<k, d[2]>> /\ d[2] \in 1..MaxGenerations
    BY <1>4, Ids
  <2> QED
    BY <2>1 DEF EnsureCurrentConversation, IInv, Hosting, OnlyNewestGenerationActive
<1>5. UNCHANGED <<interaction, receipt, revisions>>
  BY DEF EnsureCurrentConversation
<1>6. Promise!Open(c)
  <2>1. conversation'[c].status = "active"
        /\ \A d \in ConversationIds \ {c} : conversation'[d] = conversation[d]
    BY <1>1, <1>2, <1>3
  <2>2. c[1] = k
    OBVIOUS
  <2> HIDE DEF c
  <2> QED
    BY <1>3, <1>4, <1>5, <2>1, <2>2, Opens
<1> QED
  BY <1>3, <1>6 DEF PromiseStep, Promise!Next

LEMMA CreateNewGenerationPromise ==
    ASSUME IInv, NEW k \in Keys, NEW q \in RequestKeys, NEW oneShot \in OneShots,
           NEW now \in Nows, CreateNewGeneration(k, q, oneShot, now)
    PROVE  PromiseStep
<1> DEFINE row == NewConversation(oneShot, now)
           last(g) == <<k, g - 1>>
           closed(g) == Ended(conversation[last(g)], "closed", now)
           opened(g) == [conversation EXCEPT ![<<k, g>>] = row]
<1>1. PICK g \in 1..MaxGenerations :
         /\ NextGeneration(k, g)
         /\ MustClose(k, g) => ~HasActiveInteraction(last(g))
         /\ conversation' = IF MustClose(k, g) THEN [opened(g) EXCEPT ![last(g)] = closed(g)]
                                               ELSE opened(g)
  BY DEF CreateNewGeneration
<1> DEFINE c == <<k, g>>
<1>2. row.status = "active"
  BY NewRows, CallTimes DEF IInv
<1>3. /\ c \in ConversationIds /\ conversation[c].status = "absent"
      /\ conversation \in [ConversationIds -> ConversationRows]
  BY <1>1, Ids, Bounds DEF IInv, TypeOK, NextGeneration
<1>4. ASSUME MustClose(k, g)
      PROVE  /\ last(g) \in ConversationIds /\ last(g) # c
             /\ conversation[last(g)].status = "active" /\ closed(g).status = "closed"
  <2>1. g - 1 \in 1..MaxGenerations /\ g - 1 # g
    BY <1>4, Bounds DEF MustClose
  <2>2. last(g) \in ConversationIds /\ last(g) # c
    BY <2>1, Ids
  <2>3. conversation[last(g)] \in ConversationRows /\ now \in Nat
    BY <1>3, <2>2, CallTimes DEF IInv
  <2>4. closed(g).status = "closed"
    BY <2>3, EndedRows, Zenon
  <2> QED
    BY <1>4, <2>2, <2>4 DEF MustClose
<1>5. ASSUME NEW d \in ConversationIds, d[1] = k, conversation[d].status = "active"
      PROVE  d = last(g) /\ MustClose(k, g)
  <2>1. d = <<k, d[2]>> /\ d[2] \in 1..MaxGenerations
    BY <1>5, Ids
  <2>2. d[2] < g
    BY <1>1, <1>5, <2>1, Bounds DEF NextGeneration
  <2>3. \A m \in 1..MaxGenerations : m > d[2] => conversation[<<k, m>>].status = "absent"
    BY <1>5, <2>1 DEF IInv, Hosting, OnlyNewestGenerationActive, Newest
  <2>4. d[2] = g - 1
    <3> SUFFICES ASSUME d[2] # g - 1 PROVE FALSE
      OBVIOUS
    <3>1. g > 1 /\ g - 1 \in 1..MaxGenerations /\ g - 1 > d[2]
      BY <2>1, <2>2, Bounds
    <3> QED
      BY <1>1, <2>3, <3>1 DEF NextGeneration
  <2> QED
    BY <1>5, <2>1, <2>2, <2>4, Bounds DEF MustClose
<1>6. UNCHANGED <<interaction, receipt, revisions>>
  BY DEF CreateNewGeneration
<1> HIDE DEF row, last, closed, c
<1>7. conversation'[c].status = "active"
  BY <1>1, <1>2, <1>3, <1>4 DEF c
<1>8. ASSUME NEW d \in ConversationIds \ {c}
      PROVE  \/ /\ d[1] = k /\ conversation[d].status = "active"
                /\ ~HasActiveInteraction(d)
                /\ conversation'[d].status \notin {"absent", "active"}
             \/ /\ ~(d[1] = k /\ conversation[d].status = "active")
                /\ conversation'[d] = conversation[d]
  <2>1. CASE d[1] = k /\ conversation[d].status = "active"
    <3>1. d = last(g) /\ MustClose(k, g)
      BY <1>5, <2>1
    <3>2. conversation'[d] = closed(g)
      BY <1>1, <1>3, <1>4, <3>1 DEF c
    <3> QED
      BY <1>1, <1>4, <2>1, <3>1, <3>2
  <2>2. CASE ~(d[1] = k /\ conversation[d].status = "active")
    <3>1. MustClose(k, g) => d # last(g)
      BY <1>4, <2>2, Ids DEF last
    <3> QED
      BY <1>1, <1>3, <1>4, <2>2, <3>1 DEF c
  <2> QED
    BY <2>1, <2>2
<1>9. Promise!Open(c)
  <2>1. c[1] = k
    BY DEF c
  <2> QED
    BY <1>3, <1>6, <1>7, <1>8, <2>1, Opens
<1> QED
  BY <1>3, <1>9 DEF PromiseStep, Promise!Next

(* A conversation that is not busy is closed, or expires.                            *)
LEMMA ClosePromise ==
    ASSUME IInv, NEW c \in ConversationIds, NEW row, row.status \notin {"absent", "active"},
           conversation[c].status = "active", ~HasActiveInteraction(c),
           conversation' = [conversation EXCEPT ![c] = row],
           UNCHANGED <<interaction, receipt, revisions>>
    PROVE  PromiseStep
<1>1. DOMAIN conversation = ConversationIds
  BY DEF IInv, TypeOK
<1>2. Standing' = [Standing EXCEPT ![c] = "over"]
  BY <1>1 DEF Standing
<1>3. Promise!Close(c)
  BY <1>2, Seen, BusyIs, ViewsKept DEF Promise!Close
<1> QED
  BY <1>3 DEF PromiseStep, Promise!Next

LEMMA ExpirePromise ==
    ASSUME IInv, NEW p \in Replicas, ExpireIdleConversation(p)
    PROVE  PromiseStep
<1> DEFINE row(c) == Ended(conversation[c], "expired", reaper[p].now)
<1>1. PICK candidate \in reaper[p].todo :
         IF StillIdle(candidate[1], reaper[p].now)
         THEN conversation' = [conversation EXCEPT ![candidate[1]] = row(candidate[1])]
         ELSE UNCHANGED conversation
  BY DEF ExpireIdleConversation
<1> DEFINE c == candidate[1]
<1>2. UNCHANGED <<interaction, receipt, revisions>>
  BY DEF ExpireIdleConversation
<1>3. c \in ConversationIds /\ reaper[p].now \in Nat
  <2>1. reaper[p].pass = "expire" /\ TypeOK
    BY DEF ExpireIdleConversation, IInv
  <2>2. reaper[p] \in Listings("expire") /\ reaper[p].now \in Nat
    BY <2>1, ListingOf
  <2> QED
    BY <2>2 DEF Listings, Listed
<1>4. row(c).status = "expired"
  BY <1>3, EndedRows DEF IInv, TypeOK
<1> HIDE DEF row, c
<1>5. CASE StillIdle(c, reaper[p].now)
  <2>1. /\ conversation[c].status = "active" /\ ~HasActiveInteraction(c)
        /\ conversation' = [conversation EXCEPT ![c] = row(c)]
    BY <1>1, <1>5 DEF StillIdle, c
  <2> QED
    BY <1>2, <1>3, <1>4, <2>1, ClosePromise
<1>6. CASE ~StillIdle(c, reaper[p].now)
  BY <1>1, <1>2, <1>6, Stutters DEF c
<1> QED
  BY <1>5, <1>6

-------------------------------------------------------------------------------
(* Interactions.                                                                 *)

(* Before its end an interaction shows nothing of its evidence.                     *)
LEMMA NothingTold ==
    ASSUME IInv, NEW i \in InteractionIds, ~Terminal(i)
    PROVE  /\ interaction[i].manifest = NoManifest /\ Limited[i] = FALSE
           /\ Told[i] = "none" /\ Recorded[i] = <<>>
<1>1. interaction[i].manifest = NoManifest /\ revisions[i] = <<>>
  BY DEF IInv, Endings, EndingOK
<1>2. Recorded[i] = <<>>
  <2>1. Recorded[i] = [n \in 1..0 |-> revisions[i][n].completeness]
    BY <1>1 DEF Recorded
  <2> QED
    BY <2>1
<1> QED
  BY <1>1, <1>2, Seen DEF NoManifest

LEMMA StartPromise ==
    ASSUME IInv, NEW c \in ConversationIds, NEW key \in StartKeys, NEW agent \in AgentNames,
           NEW lease \in LeaseDurations, NEW now \in Nows,
           StartInteraction(c, key, agent, lease, now)
    PROVE  PromiseStep
<1> DEFINE declares == conversation[c].agent = Undeclared /\ agent # Undeclared
           named == [conversation[c] EXCEPT !.agent = agent, !.updatedAt = now,
                                            !.rowVersion = @ + 1]
           row == [NoInteraction EXCEPT !.status = "active", !.startKey = key,
                       !.leaseExpiresAt = now + lease, !.leaseVersion = 1,
                       !.rowVersion = 1]
<1>1. PICK n \in 1..MaxOrdinals :
         NextOrdinal(c, n) /\ interaction' = [interaction EXCEPT ![<<c, n>>] = row]
  BY DEF StartInteraction
<1> DEFINE i == <<c, n>>
<1>2. i \in InteractionIds /\ i[1] = c /\ interaction[i].status = "absent"
  BY <1>1, Ids DEF NextOrdinal
<1>3. row.status = "active" /\ row.manifest = NoManifest
  BY DEF NoInteraction
<1>4. /\ conversation' = IF declares THEN [conversation EXCEPT ![c] = named] ELSE conversation
      /\ conversation[c].status = "active" /\ ~HasActiveInteraction(c)
      /\ UNCHANGED <<receipt, revisions>>
  BY DEF StartInteraction
<1>5. /\ interaction \in [InteractionIds -> InteractionRows]
      /\ conversation \in [ConversationIds -> ConversationRows]
  BY DEF IInv, TypeOK
<1>6. named.status = conversation[c].status
  BY <1>5 DEF ConversationRows
<1> HIDE DEF row, named, declares, i
<1>7. UNCHANGED Standing
  <2>1. \A d \in ConversationIds : conversation'[d].status = conversation[d].status
    BY <1>4, <1>5, <1>6
  <2> QED
    BY <2>1 DEF Standing
<1>8. /\ interaction'[i] = row
      /\ \A j \in InteractionIds \ {i} : interaction'[j] = interaction[j]
  BY <1>1, <1>2, <1>5 DEF i
<1>9. ~Terminal(i) /\ Terminal(i)' = FALSE
  BY <1>2, <1>3, <1>8 DEF Terminal
<1>10. \A j \in InteractionIds \ {i} : Terminal(j)' = Terminal(j)
  BY <1>8 DEF Terminal
<1>11. UNCHANGED <<Limited, Told>>
  <2>1. interaction[i].manifest = NoManifest
    BY <1>2, <1>9, NothingTold
  <2> QED
    BY <1>3, <1>8, <1>9, <1>10, <2>1 DEF Limited, Told
<1>12. Stage' = [Stage EXCEPT ![i] = "active"]
  BY <1>2, <1>3, <1>8, <1>9, <1>10 DEF Stage
<1>13. Stage[i] = "absent" /\ Standing[c] = "active" /\ ~Promise!Busy(c)
  BY <1>2, <1>4, <1>9, Seen, BusyIs
<1>14. UNCHANGED <<Reports, Recorded>>
  BY <1>4, ViewsKept
<1>15. Promise!Start(i)
  BY <1>2, <1>7, <1>11, <1>12, <1>13, <1>14 DEF Promise!Start
<1> QED
  BY <1>2, <1>15 DEF PromiseStep, Promise!Next

(* The receipts are listed when an interaction ends.                                 *)
LEMMA ListedAtEnd ==
    ASSUME NEW i \in InteractionIds, NEW manifest, manifest.receipts \in Orders(Receipts(i))
    PROVE  Lists(manifest, i, receipt)
<1>1. Having(i, receipt) = Receipts(i)
  BY DEF Having, Receipts
<1> QED
  BY <1>1, Ordered DEF Lists

LEMMA EndPromise ==
    ASSUME IInv, NEW i \in InteractionIds, Active(i), NEW row,
           NEW sealing \in BOOLEAN, NEW closing \in BOOLEAN,
           NEW trigger \in {"completion", "deadline", "late_receipt", "lease_expired"},
           NEW when \in Nat, row.status \notin {"absent", "active"},
           row.manifest.receipts \in Orders(Receipts(i)),
           row.manifest.systemPartial \in BOOLEAN,
           \E now : row.evidence = EvidenceAtTermination(row.manifest, receipt, now),
           row.evidence \in {"complete", "partial"} => sealing,
           sealing => row.evidence # "assembling",
           Finish(i, row, sealing, trigger, closing, when),
           UNCHANGED receipt
    PROVE  PromiseStep
<1> DEFINE c == i[1]
           closed == Ended(conversation[c], "closed", when)
           rev == Revision(row.evidence, trigger)
<1>1. /\ interaction' = [interaction EXCEPT ![i] = row]
      /\ conversation' = IF closing THEN [conversation EXCEPT ![c] = closed] ELSE conversation
      /\ revisions' = IF sealing
                      THEN [revisions EXCEPT ![i] = Append(revisions[i], rev)] ELSE revisions
  BY DEF Finish, Seal, EndConversation
<1>2. /\ interaction \in [InteractionIds -> InteractionRows]
      /\ conversation \in [ConversationIds -> ConversationRows]
      /\ c \in ConversationIds
  BY Ids DEF IInv, TypeOK
<1>3. closed.status = "closed"
  <2>1. conversation[c] \in ConversationRows
    BY <1>2
  <2> QED
    BY <2>1, EndedRows, Zenon
<1>4. row.evidence \in Evidence
  BY Judgements
<1>5. rev \in Revisions /\ rev.completeness = row.evidence
  BY <1>4 DEF Revision, Revisions
<1> HIDE DEF closed, rev, c
<1>6. /\ interaction'[i] = row
      /\ \A j \in InteractionIds \ {i} : interaction'[j] = interaction[j]
  BY <1>1, <1>2
<1>7. ~Terminal(i) /\ Terminal(i)' = TRUE
  BY <1>6 DEF Terminal, Active
<1>8. \A j \in InteractionIds \ {i} : Terminal(j)' = Terminal(j)
  BY <1>6 DEF Terminal
<1>9. /\ Stage[i] = "active" /\ Stage' = [Stage EXCEPT ![i] = "ended"]
      /\ Limited' = [Limited EXCEPT ![i] = row.manifest.systemPartial]
      /\ Told' = [Told EXCEPT ![i] = row.evidence]
  <2>1. Stage[i] = "active"
    BY <1>7, Seen DEF Active
  <2>2. Stage' = [Stage EXCEPT ![i] = "ended"]
    BY <1>6, <1>7, <1>8 DEF Stage
  <2>3. Limited' = [Limited EXCEPT ![i] = row.manifest.systemPartial]
    BY <1>6 DEF Limited
  <2>4. Told' = [Told EXCEPT ![i] = row.evidence]
    BY <1>6, <1>7, <1>8 DEF Told
  <2> QED
    BY <2>1, <2>2, <2>3, <2>4
<1>10. row.evidence \in Promise!Verdicts(Promise!Said(i, Reports), row.manifest.systemPartial)
  <2>1. Lists(row.manifest, i, receipt)
    BY ListedAtEnd
  <2> QED
    BY <2>1, JudgedBySaid, ReportsAre
<1>11. Promise!Judge(i, row.evidence)
  <2>1. CASE sealing
    <3>1. Recorded' = [Recorded EXCEPT ![i] = Append(Recorded[i], row.evidence)]
      BY <1>1, <1>5, <2>1, RecordedGrows DEF IInv
    <3> QED
      BY <1>9, <2>1, <3>1 DEF Promise!Judge
  <2>2. CASE ~sealing
    BY <1>1, <1>9, <2>2, ViewsKept DEF Promise!Judge, Promise!Decided
  <2> QED
    BY <2>1, <2>2
<1>12. \/ UNCHANGED Standing
       \/ Standing' = [Standing EXCEPT ![c] = "over"]
  <2>1. CASE closing
    BY <1>1, <1>2, <1>3, <2>1 DEF Standing
  <2>2. CASE ~closing
    BY <1>1, <2>2, ViewsKept
  <2> QED
    BY <2>1, <2>2
<1>13. Promise!End(i)
  BY <1>9, <1>10, <1>11, <1>12, ViewsKept DEF Promise!End, c
<1> QED
  BY <1>13 DEF PromiseStep, Promise!Next

LEMMA TerminatePromise ==
    ASSUME IInv, NEW i \in InteractionIds, NEW status \in Outcomes, NEW command \in Commands,
           NEW systemPartial \in SystemPartial, NEW claims \in Claims, NEW now \in Nows,
           TerminateInteraction(i, status, command, systemPartial, claims, now)
    PROVE  PromiseStep
<1> DEFINE manifest(order) ==
              [receipts |-> order, deadline |-> AssemblerDeadline(i, command.deadline, now),
               systemPartial |-> systemPartial, claims |-> claims]
           evidence(order) == EvidenceAtTermination(manifest(order), receipt, now)
           row(order) == [interaction[i] EXCEPT
                             !.status = status, !.evidence = evidence(order),
                             !.manifest = manifest(order), !.command = command,
                             !.leaseVersion = @ + 1, !.rowVersion = @ + 1]
           trigger(order) == IF manifest(order).deadline # NoTime
                                /\ manifest(order).deadline <= now
                             THEN "deadline" ELSE "completion"
<1>1. PICK order \in Orders(Receipts(i)) :
         Finish(i, row(order), evidence(order) \in {"complete", "partial"}, trigger(order),
                conversation[i[1]].oneShot, now)
  BY DEF TerminateInteraction
<1>2. Active(i) /\ UNCHANGED receipt /\ now \in Nat
  BY CallTimes DEF TerminateInteraction, IInv
<1>3. manifest(order).receipts = order /\ manifest(order).systemPartial \in BOOLEAN
  BY SessionAssumption
<1>4. trigger(order) \in {"completion", "deadline", "late_receipt", "lease_expired"}
  OBVIOUS
<1>5. interaction[i] \in InteractionRows /\ conversation[i[1]].oneShot \in BOOLEAN
  BY Ids DEF IInv, TypeOK, ConversationRows
<1> HIDE DEF manifest, trigger
<1>6. /\ row(order).manifest = manifest(order) /\ row(order).evidence = evidence(order)
      /\ row(order).status \notin {"absent", "active"}
      /\ row(order).manifest.receipts \in Orders(Receipts(i))
      /\ row(order).manifest.systemPartial \in BOOLEAN
  BY <1>3, <1>5, SessionAssumption DEF InteractionRows
<1> DEFINE sealing == evidence(order) \in {"complete", "partial"}
           closing == conversation[i[1]].oneShot
<1>7. /\ Finish(i, row(order), sealing, trigger(order), closing, now)
      /\ sealing \in BOOLEAN
      /\ row(order).evidence \in {"complete", "partial"} => sealing
      /\ sealing => row(order).evidence # "assembling"
  BY <1>1, <1>6
<1>8. \E at : row(order).evidence = EvidenceAtTermination(row(order).manifest, receipt, at)
  BY <1>6
<1>9. closing \in BOOLEAN
  BY <1>5
<1> HIDE DEF row, sealing, closing, evidence
<1> QED
  BY <1>2, <1>4, <1>6, <1>7, <1>8, <1>9, EndPromise

LEMMA AbandonPromise ==
    ASSUME IInv, NEW p \in Replicas, AbandonExpiredInteraction(p)
    PROVE  PromiseStep
<1>1. PICK candidate \in reaper[p].todo :
         IF StillExpired(candidate[1], candidate[2], reaper[p].now)
         THEN Abandon(candidate[1], reaper[p].now)
         ELSE UNCHANGED <<conversation, interaction, revisions, outbox>>
  BY DEF AbandonExpiredInteraction
<1>2. UNCHANGED receipt
  BY DEF AbandonExpiredInteraction
<1> DEFINE i == candidate[1]
           now == reaper[p].now
<1>3. i \in InteractionIds /\ now \in Nat
  <2>1. reaper[p].pass = "abandon" /\ TypeOK
    BY DEF AbandonExpiredInteraction, IInv
  <2>2. reaper[p] \in Listings("abandon") /\ now \in Nat
    BY <2>1, ListingOf
  <2> QED
    BY <2>2 DEF Listings, Listed
<1> HIDE DEF i, now
<1>4. CASE ~StillExpired(i, candidate[2], now)
  BY <1>1, <1>2, <1>4, Stutters DEF i, now
<1>5. CASE StillExpired(i, candidate[2], now)
  <2> DEFINE manifest(order) == [NoManifest EXCEPT !.receipts = order,
                !.deadline = IF HasRequiredPendingReceipt(Receipts(i)) THEN now ELSE NoTime]
             evidence(order) == EvidenceAtTermination(manifest(order), receipt, now)
             row(order) == [interaction[i] EXCEPT
                               !.status = "abandoned", !.evidence = evidence(order),
                               !.manifest = manifest(order),
                               !.command = [NoCommand EXCEPT !.key = "lease-expired",
                                                             !.mode = "reaper"],
                               !.leaseVersion = @ + 1, !.rowVersion = @ + 1]
             closing == conversation[i[1]].oneShot /\ conversation[i[1]].status = "active"
  <2>1. Active(i) /\ Abandon(i, now)
    BY <1>1, <1>5 DEF StillExpired, i, now
  <2>2. PICK order \in Orders(Receipts(i)) :
           Finish(i, row(order), evidence(order) # "assembling", "lease_expired", closing, now)
    BY <2>1 DEF Abandon
  <2>3. manifest(order).receipts = order /\ manifest(order).systemPartial \in BOOLEAN
    BY DEF NoManifest
  <2>4. interaction[i] \in InteractionRows /\ closing \in BOOLEAN
    BY <1>3 DEF IInv, TypeOK
  <2> HIDE DEF manifest
  <2>5. /\ row(order).manifest = manifest(order) /\ row(order).evidence = evidence(order)
        /\ row(order).status = "abandoned"
        /\ row(order).manifest.receipts \in Orders(Receipts(i))
        /\ row(order).manifest.systemPartial \in BOOLEAN
    BY <2>3, <2>4 DEF InteractionRows
  <2> DEFINE sealing == evidence(order) # "assembling"
  <2>6. /\ Finish(i, row(order), sealing, "lease_expired", closing, now)
        /\ sealing \in BOOLEAN
        /\ row(order).evidence \in {"complete", "partial"} => sealing
        /\ sealing => row(order).evidence # "assembling"
    BY <2>2, <2>5
  <2>7. \E at : row(order).evidence = EvidenceAtTermination(row(order).manifest, receipt, at)
    BY <2>5
  <2> HIDE DEF row, sealing, evidence, closing
  <2> QED
    BY <1>2, <1>3, <2>1, <2>4, <2>5, <2>6, <2>7, EndPromise
<1> QED
  BY <1>4, <1>5

LEMMA AssemblePromise ==
    ASSUME IInv, NEW p \in Replicas, AssembleDueInteraction(p)
    PROVE  PromiseStep
<1> DEFINE rev == Revision("partial", "deadline")
<1>1. PICK i \in InteractionIds :
         /\ \/ /\ interaction[i].evidence = "assembling"
               /\ interaction' = [interaction EXCEPT ![i] = PartialRow(i)]
               /\ revisions' = [revisions EXCEPT ![i] = Append(revisions[i], rev)]
               /\ interaction[i].manifest.deadline # NoTime
            \/ UNCHANGED <<interaction, revisions>>
         /\ UNCHANGED <<conversation, receipt>>
  BY AssembleEffect
<1>2. CASE UNCHANGED <<interaction, revisions>>
  BY <1>1, <1>2, Stutters
<1>3. CASE /\ interaction[i].evidence = "assembling"
           /\ interaction' = [interaction EXCEPT ![i] = PartialRow(i)]
           /\ revisions' = [revisions EXCEPT ![i] = Append(revisions[i], rev)]
           /\ interaction[i].manifest.deadline # NoTime
  <2>1. Terminal(i)
    BY <1>3 DEF IInv, Endings, EndingOK, NoManifest
  <2>2. /\ interaction \in [InteractionIds -> InteractionRows]
        /\ PartialRow(i).status = interaction[i].status
        /\ PartialRow(i).manifest = interaction[i].manifest
        /\ PartialRow(i).evidence = "partial"
    BY DEF IInv, TypeOK, PartialRow, InteractionRows
  <2>3. /\ interaction'[i].status = interaction[i].status
        /\ interaction'[i].manifest = interaction[i].manifest
        /\ interaction'[i].evidence = "partial"
        /\ \A j \in InteractionIds \ {i} : interaction'[j] = interaction[j]
    BY <1>3, <2>2
  <2>4. UNCHANGED <<Stage, Limited>> /\ Told' = [Told EXCEPT ![i] = "partial"]
    BY <2>1, <2>3 DEF Stage, Limited, Told, Terminal
  <2>5. rev \in Revisions /\ rev.completeness = "partial"
    BY DEF Revision, Revisions, Evidence
  <2> HIDE DEF rev
  <2>6. Recorded' = [Recorded EXCEPT ![i] = Append(Recorded[i], "partial")]
    BY <1>3, <2>5, RecordedGrows DEF IInv
  <2>7. Told[i] = "assembling"
    BY <1>3, <2>1, Seen
  <2>8. Promise!Judge(i, "partial")
    BY <2>4, <2>6 DEF Promise!Judge
  <2>9. Promise!LosePatience(i)
    BY <1>1, <2>4, <2>7, <2>8, ViewsKept DEF Promise!LosePatience
  <2> QED
    BY <2>9 DEF PromiseStep, Promise!Next
<1> QED
  BY <1>1, <1>2, <1>3

-------------------------------------------------------------------------------
(* Operations.                                                                   *)

(* A call on an operation changes nothing of its interaction that readers are told.  *)
LEMMA CallsKeepViews ==
    ASSUME IInv, NEW i \in InteractionIds, Active(i), NEW row, row.status = "active",
           row.manifest = interaction[i].manifest,
           interaction' = [interaction EXCEPT ![i] = row],
           UNCHANGED <<conversation, revisions>>
    PROVE  UNCHANGED <<Standing, Stage, Limited, Told, Recorded>>
<1>1. DOMAIN interaction = InteractionIds
  BY DEF IInv, TypeOK
<1>2. /\ interaction'[i] = row
      /\ \A j \in InteractionIds \ {i} : interaction'[j] = interaction[j]
  BY <1>1
<1>3. \A j \in InteractionIds : /\ Terminal(j)' = Terminal(j)
                                /\ interaction'[j].status = interaction[j].status
                                /\ interaction'[j].manifest = interaction[j].manifest
                                /\ Terminal(j) => interaction'[j].evidence = interaction[j].evidence
  BY <1>2 DEF Active, Terminal
<1> QED
  BY <1>3, ViewsKept DEF Stage, Limited, Told

LEMMA ReplayOperationPromise ==
    ASSUME IInv, NEW o \in OperationIds, NEW now \in Nows, ReplayOperation(o, now)
    PROVE  PromiseStep
<1>1. /\ Active(o[1]) /\ interaction' = [interaction EXCEPT ![o[1]] = Renewed(o[1], now)]
      /\ UNCHANGED <<conversation, receipt, revisions>>
  BY DEF ReplayOperation, MayCall
<1>2. /\ o[1] \in InteractionIds
      /\ Renewed(o[1], now).status = "active"
      /\ Renewed(o[1], now).manifest = interaction[o[1]].manifest
  BY <1>1, Ids, RenewedRows DEF Active
<1>3. UNCHANGED <<Standing, Stage, Limited, Told, Recorded>>
  BY <1>1, <1>2, CallsKeepViews
<1> QED
  BY <1>1, <1>3, ViewsKept DEF PromiseStep, Promise!vars

LEMMA ClaimReadyAttemptPromise ==
    ASSUME IInv, NEW o \in OperationIds, NEW now \in Nows, ClaimReadyAttempt(o, now)
    PROVE  PromiseStep
<1> DEFINE r == Current(o)
           op == [operation[o] EXCEPT !.status = "pending", !.rowVersion = @ + 1]
           rcpt == [receipt[r] EXCEPT !.artifact = receipt[r].artifact \/ op.input = "referenced"]
<1>1. /\ Active(o[1]) /\ interaction' = [interaction EXCEPT ![o[1]] = Renewed(o[1], now)]
      /\ receipt' = [receipt EXCEPT ![r] = rcpt]
      /\ operation[o].status # "absent"
      /\ UNCHANGED <<conversation, revisions>>
  BY DEF ClaimReadyAttempt, MayCall, Claimable
<1>2. /\ o[1] \in InteractionIds
      /\ Renewed(o[1], now).status = "active"
      /\ Renewed(o[1], now).manifest = interaction[o[1]].manifest
  BY <1>1, Ids, RenewedRows DEF Active
<1>3. UNCHANGED <<Standing, Stage, Limited, Told, Recorded>>
  BY <1>1, <1>2, CallsKeepViews
<1>4. r \in ReceiptIds /\ receipt[r] \in ReceiptRows /\ DOMAIN receipt = ReceiptIds
  BY <1>1, AtAttempt DEF IInv, TypeOK
<1>5. rcpt.status = receipt[r].status /\ Verdict(rcpt) = Verdict(receipt[r])
  BY <1>4 DEF ReceiptRows, Verdict
<1> HIDE DEF rcpt, r
<1>6. \A s \in ReceiptIds : /\ receipt'[s].status = receipt[s].status
                            /\ Verdict(receipt'[s]) = Verdict(receipt[s])
  BY <1>1, <1>4, <1>5
<1>7. UNCHANGED Reports
  BY <1>6 DEF Reports
<1> QED
  BY <1>3, <1>7 DEF PromiseStep, Promise!vars

(* An attempt is made, the first or a further one.                                   *)
LEMMA IssuePromise ==
    ASSUME IInv, NEW r \in ReceiptIds, Active(r[1][1]), NEW row, row.status = "active",
           row.manifest = interaction[r[1][1]].manifest,
           interaction' = [interaction EXCEPT ![r[1][1]] = row],
           UNCHANGED <<conversation, revisions>>,
           receipt[r].status = "absent", NEW rcpt,
           rcpt.status = "pending", rcpt.durability = "pending",
           receipt' = [receipt EXCEPT ![r] = rcpt]
    PROVE  PromiseStep
<1> DEFINE i == r[1][1]
<1>1. i \in InteractionIds
  BY Ids
<1>2. UNCHANGED <<Standing, Stage, Limited, Told, Recorded>>
  BY <1>1, CallsKeepViews
<1>3. Stage[i] = "active" /\ Reports[r] = "absent"
  BY <1>1, Seen DEF Active, Terminal
<1>4. Verdict(rcpt) \in {"pending", "neutral"}
  BY DEF Verdict
<1>5. DOMAIN receipt = ReceiptIds
  BY DEF IInv, TypeOK
<1>6. /\ receipt'[r] = rcpt
      /\ \A s \in ReceiptIds \ {r} : receipt'[s] = receipt[s]
  BY <1>5
<1>7. Reports' = [Reports EXCEPT ![r] = Verdict(rcpt)]
  <2>1. rcpt.status # "absent"
    OBVIOUS
  <2> QED
    BY ONLY <1>6, <2>1 DEF Reports
<1>8. Promise!Issue(r)
  BY <1>2, <1>3, <1>4, <1>7 DEF Promise!Issue
<1> QED
  BY <1>8 DEF PromiseStep, Promise!Next

LEMMA CreateOperationPromise ==
    ASSUME IInv, NEW o \in OperationIds, NEW required \in BOOLEAN, NEW input \in Inputs,
           NEW now \in Nows, CreateOperation(o, required, input, now)
    PROVE  PromiseStep
<1> DEFINE rcpt == IssuedReceipt(required, input = "referenced")
           row == [Renewed(o[1], now) EXCEPT !.evidence = "assembling", !.rowVersion = @ + 1]
           r == <<o, 1>>
<1>1. /\ Active(o[1]) /\ operation[o].status = "absent"
      /\ receipt' = [receipt EXCEPT ![r] = rcpt]
      /\ interaction' = [interaction EXCEPT ![o[1]] = row]
      /\ UNCHANGED <<conversation, revisions>>
  BY DEF CreateOperation, MayCall
<1>2. /\ o[1] \in InteractionIds /\ r \in ReceiptIds /\ 1 \in 1..MaxAttempts
      /\ r[1] = o
  BY Ids, Bounds
<1>3. row.status = "active" /\ row.manifest = interaction[o[1]].manifest
  <2>1. /\ Renewed(o[1], now) \in InteractionRows
        /\ Renewed(o[1], now).status = "active"
        /\ Renewed(o[1], now).manifest = interaction[o[1]].manifest
    BY <1>1, <1>2, RenewedRows DEF Active
  <2> QED
    BY <2>1 DEF InteractionRows
<1>4. rcpt.status = "pending" /\ rcpt.durability = "pending"
  BY IssuedReceipts
<1>5. receipt[r].status = "absent"
  BY <1>1, <1>2, Bounds DEF IInv, Attempts, AttemptsOf
<1> HIDE DEF rcpt, row, r
<1> QED
  BY <1>1, <1>2, <1>3, <1>4, <1>5, IssuePromise

LEMMA StartOperationAttemptPromise ==
    ASSUME IInv, NEW o \in OperationIds, NEW now \in Nows, StartOperationAttempt(o, now)
    PROVE  PromiseStep
<1> DEFINE op == [operation[o] EXCEPT !.attempt = @ + 1, !.status = "ready",
                                      !.retryable = FALSE, !.rowVersion = @ + 1]
           last == operation[o].attempt
           r == <<o, op.attempt>>
           rcpt == IssuedReceipt(receipt[Current(o)].required, FALSE)
           row == Renewed(o[1], now)
<1>1. /\ Active(o[1]) /\ operation[o].status # "absent" /\ last < MaxAttempts
      /\ receipt' = [receipt EXCEPT ![r] = rcpt]
      /\ interaction' = [interaction EXCEPT ![o[1]] = row]
      /\ UNCHANGED <<conversation, revisions>>
  BY DEF StartOperationAttempt, MayCall
<1>2. o[1] \in InteractionIds
  BY Ids
<1>3. row.status = "active" /\ row.manifest = interaction[o[1]].manifest
  BY <1>1, <1>2, RenewedRows DEF Active
<1>4. /\ operation[o] \in OperationRows /\ last \in 1..MaxAttempts
      /\ receipt[Current(o)] \in ReceiptRows
  BY <1>1, AtAttempt
<1>5. r = <<o, last + 1>> /\ last + 1 \in 1..MaxAttempts
  BY <1>1, <1>4, Bounds DEF OperationRows
<1>6. r \in ReceiptIds /\ r[1] = o
  BY <1>5, Ids
<1>7. rcpt.status = "pending" /\ rcpt.durability = "pending"
  BY <1>4, IssuedReceipts DEF ReceiptRows
<1>8. receipt[r].status = "absent"
  BY <1>4, <1>5 DEF IInv, Attempts, AttemptsOf
<1> HIDE DEF rcpt, row, r
<1> QED
  BY <1>1, <1>3, <1>6, <1>7, <1>8, IssuePromise

LEMMA FinishOperationAttemptPromise ==
    ASSUME IInv, NEW r \in ReceiptIds, NEW result \in Results, NEW now \in Nows,
           FinishOperationAttempt(r, result, now)
    PROVE  PromiseStep
<1> DEFINE o == r[1]
           i == o[1]
           rcpt == FinishedReceipt(r, result, FinishedOperation(o, result).input)
           evidence == EvidenceAtTermination(interaction[i].manifest, receipt', now)
           row == RejudgedRow(i, receipt', now)
           rev == Revision(evidence, "late_receipt")
           said == Promise!Said(i, Reports')
<1>1. /\ receipt[r].status = "pending"
      /\ receipt' = [receipt EXCEPT ![r] = rcpt]
      /\ IF Rejudged(i, r, evidence)
         THEN /\ interaction' = [interaction EXCEPT ![i] = row]
              /\ revisions' = [revisions EXCEPT ![i] = Append(revisions[i], rev)]
         ELSE UNCHANGED <<interaction, revisions>>
      /\ UNCHANGED conversation
  BY FinishEffect
<1>2. /\ rcpt.status \notin {"absent", "pending"}
      /\ Verdict(receipt[r]) = "neutral" => Verdict(rcpt) = "neutral"
  BY FinishedRows
<1>3. i \in InteractionIds
  BY Ids
<1>4. /\ DOMAIN receipt = ReceiptIds
      /\ interaction \in [InteractionIds -> InteractionRows]
  BY DEF IInv, TypeOK
<1>5. evidence \in Evidence
  BY Judgements
<1>6. rev \in Revisions /\ rev.completeness = evidence
  BY <1>5 DEF Revision, Revisions
<1>7. /\ row.status = interaction[i].status /\ row.evidence = evidence
      /\ row.manifest = interaction[i].manifest
  <2>1. interaction[i] \in InteractionRows
    BY <1>3, <1>4
  <2> HIDE DEF evidence
  <2> QED
    BY <2>1 DEF RejudgedRow, InteractionRows, evidence
<1> HIDE DEF rcpt, row, rev, evidence, o, i, said
<1>8. /\ receipt'[r] = rcpt
      /\ \A s \in ReceiptIds \ {r} : receipt'[s] = receipt[s]
  BY <1>1, <1>4
<1>9. \/ Reports[r] = "neutral" /\ UNCHANGED Reports
      \/ /\ Reports[r] = "pending"
         /\ \E v \in {"pending", "neutral", "partial"} : Reports' = [Reports EXCEPT ![r] = v]
  <2>1. Verdict(receipt[r]) \in {"neutral", "pending"}
    BY <1>1 DEF IInv, Attempts, Undecided, Verdict
  <2>2. Reports[r] = Verdict(receipt[r])
    BY <1>1, Seen
  <2>3. Reports' = [Reports EXCEPT ![r] = Verdict(rcpt)]
    BY <1>2, <1>8 DEF Reports
  <2>4. CASE Verdict(receipt[r]) = "neutral"
    <3>1. Verdict(rcpt) = Reports[r]
      BY <1>2, <2>2, <2>4
    <3>2. Reports' = Reports
      BY <2>3, <3>1 DEF Reports
    <3> QED
      BY <2>2, <2>4, <3>2
  <2>5. CASE Verdict(receipt[r]) = "pending"
    BY <2>2, <2>3, <2>5, Verdicts
  <2> QED
    BY <2>1, <2>4, <2>5
<1>10. UNCHANGED <<Standing, Stage, Limited>>
       /\ (~Rejudged(i, r, evidence) => UNCHANGED <<Told, Recorded>>)
  <2>1. CASE Rejudged(i, r, evidence)
    <3>1. \A j \in InteractionIds : /\ interaction'[j].status = interaction[j].status
                                    /\ interaction'[j].manifest = interaction[j].manifest
      BY <1>1, <1>4, <1>7, <2>1
    <3> QED
      BY <1>1, <2>1, <3>1, ViewsKept DEF Stage, Limited, Terminal
  <2>2. CASE ~Rejudged(i, r, evidence)
    BY <1>1, <2>2, ViewsKept
  <2> QED
    BY <2>1, <2>2
<1>11. ASSUME Terminal(i)
       PROVE  /\ InManifest(i, r)
              /\ evidence \in Promise!Verdicts(said, Limited[i])
              /\ evidence = "assembling" => "pending" \in said
              /\ said # {}
  <2>1. /\ \A s \in Receipts(i) : InManifest(i, s)
        /\ \A n \in DOMAIN interaction[i].manifest.receipts :
              interaction[i].manifest.receipts[n] \in Receipts(i)
    BY <1>3, <1>11 DEF IInv, Endings, EndingOK
  <2>2. Having(i, receipt') = Receipts(i) /\ r \in Receipts(i)
    BY <1>1, <1>2, <1>8 DEF Having, Receipts, o, i
  <2>3. interaction[i].manifest \in Manifests
    BY <1>3, <1>4 DEF InteractionRows
  <2>4. Lists(interaction[i].manifest, i, receipt')
    <3>1. interaction[i].manifest.receipts \in Seq(ReceiptIds)
      BY <2>3 DEF Manifests
    <3> QED
      BY <2>1, <2>2, <3>1 DEF Lists, InManifest
  <2>5. said = Promise!Said(i, ReportsIn(receipt'))
    BY ReportsAre DEF said
  <2>6. said # {}
    BY <1>3, <2>2, <2>5, SaidIs
  <2>7. interaction[i].manifest.systemPartial \in BOOLEAN
        /\ Limited[i] = interaction[i].manifest.systemPartial
    BY <1>3, <2>3, Seen DEF Manifests
  <2>8. /\ evidence \in Promise!Verdicts(said, Limited[i])
        /\ evidence = "assembling" => "pending" \in said
    BY <1>3, <2>4, <2>5, <2>7, JudgedBySaid DEF evidence
  <2> QED
    BY <2>1, <2>2, <2>6, <2>8
<1>12. Stage[i] = "ended" <=> Terminal(i)
  BY <1>3, <1>4, Seen DEF Terminal, InteractionRows
<1>13. \/ Stage[i] # "ended" /\ UNCHANGED <<Told, Recorded>>
       \/ Stage[i] = "ended" /\ "pending" \in said /\ UNCHANGED <<Told, Recorded>>
       \/ /\ Stage[i] = "ended"
          /\ \E v \in Promise!Verdicts(said, Limited[i]) \intersect Promise!Decided :
                Promise!Judge(i, v)
  <2>1. CASE Rejudged(i, r, evidence)
    <3>1. Terminal(i) /\ evidence # "assembling"
      BY <2>1 DEF Rejudged
    <3>2. evidence \in Promise!Verdicts(said, Limited[i]) \intersect Promise!Decided
      BY <1>11, <3>1 DEF Promise!Verdicts, Promise!Decided
    <3>3. Recorded' = [Recorded EXCEPT ![i] = Append(Recorded[i], evidence)]
      BY <1>1, <1>3, <1>6, <2>1, RecordedGrows DEF IInv
    <3>4. /\ interaction'[i] = row
          /\ \A j \in InteractionIds \ {i} : interaction'[j] = interaction[j]
      BY <1>1, <1>3, <1>4, <2>1
    <3>5. Told' = [Told EXCEPT ![i] = evidence]
      BY <1>7, <3>1, <3>4 DEF Told, Terminal
    <3>6. Promise!Judge(i, evidence)
      BY <3>1, <3>3, <3>5 DEF Promise!Judge
    <3> QED
      BY <1>12, <3>1, <3>2, <3>6
  <2>2. CASE ~Rejudged(i, r, evidence) /\ ~Terminal(i)
    BY <1>10, <1>12, <2>2
  <2>3. CASE ~Rejudged(i, r, evidence) /\ Terminal(i)
    <3>1. evidence = "assembling"
      BY <1>11, <2>3 DEF Rejudged
    <3> QED
      BY <1>10, <1>11, <1>12, <2>3, <3>1
  <2> QED
    BY <2>1, <2>2, <2>3
<1>14. Promise!Answer(r)
  BY <1>9, <1>10, <1>13 DEF Promise!Answer, said, i, o
<1> QED
  BY <1>14 DEF PromiseStep, Promise!Next

-------------------------------------------------------------------------------
LEMMA InitPromise == Init => Promise!Init
<1> SUFFICES ASSUME Init PROVE Promise!Init
  OBVIOUS
<1>1. \A i \in InteractionIds : /\ interaction[i] = NoInteraction /\ revisions[i] = <<>>
                                /\ ~Terminal(i)
  BY DEF Init, Terminal, NoInteraction
<1>2. Recorded = [i \in InteractionIds |-> <<>>]
  <2>1. \A i \in InteractionIds : Len(revisions[i]) = 0
    BY <1>1
  <2>2. Recorded = [i \in InteractionIds |-> [n \in 1..0 |-> revisions[i][n].completeness]]
    BY <2>1 DEF Recorded
  <2> QED
    BY <2>2
<1>3. /\ Standing = [c \in ConversationIds |-> "absent"]
      /\ Reports = [r \in ReceiptIds |-> "absent"]
  BY DEF Init, Standing, Reports, NoConversation, NoReceipt
<1>4. /\ Stage = [i \in InteractionIds |-> "absent"]
      /\ Limited = [i \in InteractionIds |-> FALSE]
      /\ Told = [i \in InteractionIds |-> "none"]
  <2>1. NoInteraction.status = "absent" /\ NoInteraction.manifest.systemPartial = FALSE
    BY DEF NoInteraction, NoManifest
  <2> QED
    BY <1>1, <2>1 DEF Stage, Limited, Told
<1> QED
  BY <1>2, <1>3, <1>4 DEF Promise!Init

LEMMA NextPromise == IInv /\ [Next]_vars => PromiseStep
<1> SUFFICES ASSUME IInv, [Next]_vars PROVE PromiseStep
  OBVIOUS
<1>1. ASSUME NEW now \in Nows, NEW c \in ConversationIds, CloseConversation(c, now)
      PROVE  PromiseStep
  <2> DEFINE row == Ended(conversation[c], "closed", now)
  <2>1. /\ conversation[c].status = "active" /\ ~HasActiveInteraction(c)
        /\ conversation' = [conversation EXCEPT ![c] = row]
        /\ UNCHANGED <<interaction, receipt, revisions>>
    BY <1>1 DEF CloseConversation
  <2>2. conversation[c] \in ConversationRows /\ now \in Nat
    BY CallTimes DEF IInv, TypeOK
  <2>3. row.status = "closed"
    BY <2>2, EndedRows, Zenon
  <2> HIDE DEF row
  <2> QED
    BY <2>1, <2>3, ClosePromise
<1>2. ASSUME NEW now \in Nows, ConversationCall(now) PROVE PromiseStep
  BY <1>1, <1>2, EnsurePromise, CreateNewGenerationPromise DEF ConversationCall
<1>3. ASSUME NEW now \in Nows, InteractionCall(now) PROVE PromiseStep
  BY <1>3, StartPromise, TerminatePromise DEF InteractionCall
<1>4. ASSUME NEW now \in Nows, OperationCall(now) PROVE PromiseStep
  BY <1>4, CreateOperationPromise, ReplayOperationPromise, ClaimReadyAttemptPromise,
     StartOperationAttemptPromise, FinishOperationAttemptPromise DEF OperationCall
<1>5. ASSUME NEW p \in Replicas, NEW pass \in Passes, ReaperList(p, pass)
      PROVE  PromiseStep
  BY <1>5, Stutters DEF ReaperList, rows
<1>6. ASSUME NEW p \in Replicas, Reap(p) PROVE PromiseStep
  BY <1>5, <1>6, AbandonPromise, ExpirePromise, AssemblePromise DEF Reap
<1>7. CASE Tick
  BY <1>7, Stutters DEF Tick, rows
<1>8. CASE UNCHANGED vars
  BY <1>8, Stutters DEF vars, rows
<1> QED
  BY <1>2, <1>3, <1>4, <1>6, <1>7, <1>8 DEF Next

(* What readers of a trace see is what SessionPromise promises, whatever the leases, the  *)
(* stale clocks, the deadlines and the lists of reapers that race with the callers: one  *)
(* active conversation and interaction, a verdict that follows from the receipts of the  *)
(* interaction, all of them and not only those its client listed, and decisions that are *)
(* sealed as they are made and stand until a late receipt decides again.              *)
THEOREM KeepsThePromise == Spec => KeepsPromise
<1>1. IInv /\ [Next]_vars => [Promise!Next]_(Promise!vars)
  BY NextPromise DEF PromiseStep
<1> QED
  BY <1>1, InitPromise, Invariance, PTL DEF Spec, KeepsPromise, Promise!Spec
===============================================================================
