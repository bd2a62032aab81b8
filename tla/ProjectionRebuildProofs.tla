----------------------- MODULE ProjectionRebuildProofs -----------------------
(***************************************************************************)
(* What a rebuild loses, for any rows, documents, batch size, number of    *)
(* replicas, failures and replicas of the release before: nothing but what *)
(* one of these writes to the old index after a rebuild has gone past it.  *)
(*                                                                         *)
(* The inductive invariant is IInv: until the alias moves, whatever the    *)
(* old index shows or a worker wrote, and a rebuild has gone past, is      *)
(* copied or was overlooked.  Nothing is left to go past when the alias    *)
(* moves.  With it the rebuild is a behaviour of the promise that          *)
(* ProjectionDelivery makes to readers; this needs, besides, that what an  *)
(* index shows was committed: StoreIsAhead.                                *)
(***************************************************************************)
EXTENDS ProjectionRebuild, FiniteSetTheorems, TLAPS

\* The assumptions in the form the proofs use.
LEMMA Constants ==
  /\ Documents \subseteq Nat /\ Rows \subseteq Nat
  /\ DocumentOf \in [Rows -> Documents] /\ VersionOf \in [Rows -> Nat]
  /\ Versions \subseteq Nat /\ \A row \in Rows : VersionOf[row] \in Versions
  BY RebuildAssumption DEF Versions

\* A row is found by its document and its version, and no version is 0.
LEMMA VersionsDistinguish ==
  /\ \A row \in Rows : VersionOf[row] > 0
  /\ \A row, other \in Rows :
       DocumentOf[row] = DocumentOf[other] /\ VersionOf[row] = VersionOf[other] => row = other
<1>1. ASSUME NEW row \in Rows, NEW other \in Rows,
             DocumentOf[row] = DocumentOf[other], VersionOf[row] = VersionOf[other]
      PROVE  row = other
  <2>1. row \in Nat /\ other \in Nat /\ VersionOf[row] \in Nat /\ VersionOf[other] \in Nat
    BY Constants
  <2>2. /\ row < other <=> VersionOf[row] < VersionOf[other]
        /\ other < row <=> VersionOf[other] < VersionOf[row]
    BY <1>1, RebuildAssumption
  <2> QED
    BY <1>1, <2>1, <2>2
<1>2. \A row \in Rows : VersionOf[row] > 0
  BY RebuildAssumption
<1> QED
  BY <1>1, <1>2

\* How far a rebuild is, is told by numbers.
LEMMA CountersAreNat ==
  ASSUME TypeOK
  PROVE  \A r \in Replicas : cursor[r] \in Nat /\ checkpoint[r] \in Nat /\ highWatermark[r] \in Nat
<1> SUFFICES ASSUME NEW r \in Replicas
             PROVE  cursor[r] \in Nat /\ checkpoint[r] \in Nat /\ highWatermark[r] \in Nat
  OBVIOUS
<1>1. /\ cursor[r] \in {0} \union Documents
      /\ checkpoint[r] \in {0} \union Rows /\ highWatermark[r] \in {0} \union Rows
  BY DEF TypeOK
<1>2. \A d \in {0} \union Documents \union Rows : d \in Nat
  BY Constants
<1> QED
  BY <1>1, <1>2

\* Documents and the versions the store and the indexes have of them are numbers.
LEMMA NumbersAreNat ==
  ASSUME TypeOK
  PROVE  \A d \in Documents : /\ d \in Nat /\ authority[d] \in Nat
                              /\ \A i \in Indexes : index[i][d] \in Nat
<1> SUFFICES ASSUME NEW d \in Documents
             PROVE  /\ d \in Nat /\ authority[d] \in Nat
                    /\ \A i \in Indexes : index[i][d] \in Nat
  OBVIOUS
<1>1. authority[d] \in Versions /\ \A i \in Indexes : index[i][d] \in Versions
  BY DEF TypeOK
<1> QED
  BY <1>1, Constants

\* Writing a document never takes an index back.
LEMMA IndexGrows ==
  ASSUME TypeOK, NEW i \in Indexes, NEW item \in Items, IndexDocumentVersion(i, item)
  PROVE  /\ index' \in [Indexes -> [Documents -> Versions]]
         /\ \A j \in Indexes, d \in Documents : index'[j][d] >= index[j][d]
         /\ index'[i][item.document] >= item.version
         /\ \A j \in Indexes \ {i} : index'[j] = index[j]
<1> DEFINE d0 == item.document
           v0 == item.version
<1>1. d0 \in Documents /\ v0 \in Versions /\ Versions \subseteq Nat
  BY Constants DEF Items
<1>2. \A j \in Indexes, d \in Documents : index[j][d] \in Versions
  BY DEF TypeOK
<1>3. index' = [index EXCEPT ![i][d0] = IF v0 > index[i][d0] THEN v0 ELSE index[i][d0]]
  BY DEF IndexDocumentVersion
<1>4. index' \in [Indexes -> [Documents -> Versions]]
  BY <1>1, <1>2, <1>3 DEF TypeOK
<1>5. /\ \A j \in Indexes \ {i} : index'[j] = index[j]
      /\ \A d \in Documents \ {d0} : index'[i][d] = index[i][d]
      /\ index'[i][d0] = IF v0 > index[i][d0] THEN v0 ELSE index[i][d0]
  BY <1>1, <1>3 DEF TypeOK
<1>6. index[i][d0] \in Nat /\ v0 \in Nat
  BY <1>1, <1>2
<1>7. index'[i][d0] >= v0 /\ index'[i][d0] >= index[i][d0]
  <2> HIDE DEF d0, v0
  <2> QED
    BY <1>5, <1>6
<1>8. ASSUME NEW j \in Indexes, NEW d \in Documents PROVE index'[j][d] >= index[j][d]
  <2>1. index[j][d] \in Nat
    BY <1>1, <1>2
  <2>2. CASE j = i /\ d = d0
    BY <1>7, <2>2
  <2>3. CASE j # i \/ d # d0
    BY <1>5, <2>1, <2>3
  <2> QED
    BY <2>2, <2>3
<1> QED
  BY <1>4, <1>5, <1>7, <1>8

\* The rows and the documents of the store make items.
LEMMA ItemsOfStore ==
  ASSUME TypeOK
  PROVE  /\ \A d \in Documents : Item(d, authority[d]) \in Items
         /\ \A row \in Rows : ItemOf(row) \in Items
  BY Constants DEF TypeOK, Item, ItemOf, Items

-----------------------------------------------------------------------------
(* The types.                                                              *)

\* The numbers from m on are more than those from a greater n on.
LEMMA UpperPart ==
  ASSUME NEW S \in SUBSET Nat, NEW m \in S, NEW n \in S, n > m
  PROVE  /\ {x \in S : x >= n} \subseteq {x \in S : x >= m}
         /\ m \in {x \in S : x >= m} /\ m \notin {x \in S : x >= n}
<1>1. m \in Nat /\ n \in Nat /\ \A x \in S : x \in Nat
  OBVIOUS
<1>2. ASSUME NEW x \in S, x >= n PROVE x >= m
  <2>1. x \in Nat
    BY <1>1
  <2> QED
    BY <1>1, <1>2, <2>1
<1>3. m >= m /\ ~(m >= n)
  BY <1>1
<1> QED
  BY <1>2, <1>3

\* A finite set of numbers has a greatest one: the part from it on is the least.
LEMMA HasGreatest ==
  ASSUME NEW S \in SUBSET Nat, IsFiniteSet(S), S # {}
  PROVE  \E m \in S : \A n \in S : n <= m
<1> DEFINE from(m) == {n \in S : n >= m}
           T == {from(m) : m \in S}
<1>1. T \subseteq FiniteSubsetsOf(S) /\ T # {}
  <2>1. \A m \in S : from(m) \in SUBSET S /\ IsFiniteSet(from(m))
    BY FS_Subset
  <2> HIDE DEF from
  <2> QED
    BY <2>1 DEF FiniteSubsetsOf
<1>2. IsWellFoundedOn(StrictSubsetOrdering(S), FiniteSubsetsOf(S))
  BY FS_StrictSubsetOrderingWellFounded
<1>3. \E x \in T : \A y \in T : ~ (<<y, x>> \in StrictSubsetOrdering(S))
  <2> HIDE DEF T
  <2> QED
    BY <1>1, <1>2, WFMin
<1>4. PICK m \in S : \A n \in S : ~ (<<from(n), from(m)>> \in StrictSubsetOrdering(S))
  BY <1>3
<1>5. ASSUME NEW n \in S PROVE n <= m
  <2> SUFFICES ASSUME n > m PROVE FALSE
    OBVIOUS
  <2>1. from(n) \subseteq from(m) /\ m \in from(m) /\ m \notin from(n)
    BY UpperPart
  <2>2. from(n) \in SUBSET S /\ from(m) \in SUBSET S /\ from(n) # from(m)
    BY <2>1
  <2> HIDE DEF from
  <2>3. <<from(n), from(m)>> \in StrictSubsetOrdering(S)
    BY <2>1, <2>2 DEF StrictSubsetOrdering
  <2> QED
    BY <1>4, <2>3
<1> QED
  BY <1>5

\* No row that is committed is above the watermark.
LEMMA WatermarkIsHighest ==
  ASSUME Committed # {}
  PROVE  ProjectionHighWatermark \in Committed /\ \A row \in Committed : row <= ProjectionHighWatermark
<1>1. Committed \in SUBSET Rows /\ IsFiniteSet(Rows) /\ Committed \in SUBSET Nat
  BY RebuildAssumption DEF Committed
<1>2. IsFiniteSet(Committed)
  BY <1>1, FS_Subset
<1>3. \E row \in Committed : \A r \in Committed : r <= row
  BY <1>1, <1>2, HasGreatest
<1> QED
  BY <1>3 DEF ProjectionHighWatermark

\* The watermark is 0 or an outbox id, and no more documents are counted than there are.
LEMMA StoreNumbers ==
  ASSUME TypeOK
  PROVE  /\ ProjectionHighWatermark \in {0} \union Rows
         /\ Cardinality(Authoritative) \in 0..Cardinality(Documents)
         /\ 0 \in 0..Cardinality(Documents)
<1>1. ProjectionHighWatermark \in {0} \union Rows
  <2>1. CASE Committed = {}
    BY <2>1 DEF ProjectionHighWatermark
  <2>2. CASE Committed # {}
    BY <2>2, WatermarkIsHighest DEF Committed
  <2> QED
    BY <2>1, <2>2
<1>2. /\ Cardinality(Documents) \in Nat
      /\ Cardinality(Authoritative) \in Nat
      /\ Cardinality(Authoritative) <= Cardinality(Documents)
  <2>1. IsFiniteSet(Documents) /\ Authoritative \in SUBSET Documents
    BY RebuildAssumption DEF Authoritative
  <2>2. IsFiniteSet(Authoritative) /\ Cardinality(Authoritative) <= Cardinality(Documents)
    BY <2>1, FS_Subset
  <2> QED
    BY <2>1, <2>2, FS_CardinalityType
<1> QED
  BY <1>1, <1>2

\* The batch and the counters of an attempt that is over.
LEMMA LeaveType ==
  ASSUME TypeOK, NEW r \in Replicas, NEW to \in Steps, Leave(r, to),
         UNCHANGED <<authority, archived, phase, index, overlooked>>,
         written' \in [Replicas -> SUBSET Rows], alias' \in Indexes,
         older' \subseteq older, restarts' \in 0..MaxRestarts
  PROVE  TypeOK'
<1>1. 0 \in 0..Cardinality(Documents)
  BY StoreNumbers
<1>2. /\ step' \in [Replicas -> Steps]
      /\ items' \in [Replicas -> SUBSET Items] /\ todo' \in [Replicas -> SUBSET Items]
      /\ cursor' \in [Replicas -> {0} \union Documents]
      /\ checkpoint' \in [Replicas -> {0} \union Rows]
      /\ highWatermark' \in [Replicas -> {0} \union Rows]
      /\ expected' \in [Replicas -> 0..Cardinality(Documents)]
  BY <1>1 DEF TypeOK, Leave
<1>3. \A q \in Replicas : /\ todo'[q] \subseteq items'[q]
                          /\ items'[q] # {} => step'[q] \in {"snapshot", "history"}
  BY DEF TypeOK, Leave
<1> QED
  BY <1>2, <1>3 DEF TypeOK

\* The store an upgrade finds has its types, and no attempt is under way.
LEMMA TypeInit == Init => TypeOK
<1> SUFFICES ASSUME Init PROVE TypeOK
  OBVIOUS
<1>1. PICK old \in [Documents -> Versions] :
        index = [i \in Indexes |-> IF i = "new" THEN [d \in Documents |-> 0] ELSE old]
  BY DEF Init
<1>2. index \in [Indexes -> [Documents -> Versions]]
  BY <1>1 DEF Versions
<1>3. 0 \in 0..Cardinality(Documents) /\ 0 \in 0..MaxRestarts
  BY RebuildAssumption, FS_CardinalityType
<1> QED
  BY <1>2, <1>3 DEF Init, TypeOK, Indexes, Steps

\* The steps of the database and of the mark.
LEMMA StoreType ==
  ASSUME TypeOK,
         \/ \E row \in Rows : AppendProjection(row)
         \/ \E d \in Archivable : Purge(d)
         \/ \E r \in Replicas, row \in Rows : MarkDelivered(r, row)
  PROVE  TypeOK'
<1>1. ASSUME NEW row \in Rows, AppendProjection(row) PROVE TypeOK'
  <2>1. DocumentOf[row] \in Documents /\ VersionOf[row] \in Versions
    BY Constants
  <2> QED
    BY <1>1, <2>1
    DEF TypeOK, AppendProjection, sinkVars, rolloutVars, rebuildVars, attemptVars, batchVars
<1>2. ASSUME NEW d \in Archivable, Purge(d) PROVE TypeOK'
  BY <1>2, RebuildAssumption
  DEF TypeOK, Purge, sinkVars, rolloutVars, rebuildVars, attemptVars, batchVars
<1>3. ASSUME NEW r \in Replicas, NEW row \in Rows, MarkDelivered(r, row) PROVE TypeOK'
  BY <1>3 DEF TypeOK, MarkDelivered, sinkVars, rolloutVars, rebuildVars, attemptVars, batchVars
<1> QED
  BY <1>1, <1>2, <1>3

\* A batch that is scanned is made of items.
LEMMA BatchType ==
  ASSUME TypeOK, NEW r \in Replicas, NEW batch \in SUBSET Items, Batch(r, batch),
         step[r] \in {"snapshot", "history"}, step' = step,
         cursor' \in [Replicas -> {0} \union Documents],
         checkpoint' \in [Replicas -> {0} \union Rows],
         UNCHANGED <<storeVars, sinkVars, highWatermark, expected, written, rolloutVars>>
  PROVE  TypeOK'
<1>1. /\ items' = [items EXCEPT ![r] = batch] /\ todo' = [todo EXCEPT ![r] = batch]
      /\ UNCHANGED <<authority, archived, phase, index, alias, step, highWatermark, expected,
                     written, older, overlooked, restarts>>
  BY DEF Batch, storeVars, rolloutVars, sinkVars
<1>2. /\ items' \in [Replicas -> SUBSET Items] /\ todo' \in [Replicas -> SUBSET Items]
      /\ \A q \in Replicas : /\ todo'[q] \subseteq items'[q]
                             /\ items'[q] # {} => step'[q] \in {"snapshot", "history"}
  BY <1>1 DEF TypeOK
<1> QED
  BY <1>1, <1>2 DEF TypeOK

\* A snapshot's batch has the documents with their authoritative versions.
LEMMA ScanAuthoritativeType ==
  ASSUME TypeOK, NEW r \in Replicas, ScanAuthoritativeProjection(r)
  PROVE  TypeOK'
<1>1. /\ step[r] = "snapshot" /\ items[r] = {} /\ todo[r] = {}
      /\ UNCHANGED <<storeVars, sinkVars, highWatermark, expected, written, rolloutVars>>
  BY DEF ScanAuthoritativeProjection, Idle, TypeOK
<1>2. CASE /\ step' = [step EXCEPT ![r] = "history"]
           /\ checkpoint' = [checkpoint EXCEPT ![r] = highWatermark[r]]
           /\ cursor' = [cursor EXCEPT ![r] = 0]
           /\ UNCHANGED batchVars
  BY <1>1, <1>2 DEF TypeOK, Steps, storeVars, rolloutVars, sinkVars, batchVars
<1>3. ASSUME NEW last \in Documents,
             Batch(r, {Item(d, authority[d]) : d \in {x \in Unscanned(r) : x <= last}}),
             cursor' = [cursor EXCEPT ![r] = last],
             UNCHANGED <<step, checkpoint>>
      PROVE  TypeOK'
  <2> DEFINE batch == {Item(d, authority[d]) : d \in {x \in Unscanned(r) : x <= last}}
  <2>1. batch \in SUBSET Items
    BY ItemsOfStore DEF TypeOK, Unscanned, Authoritative
  <2>2. cursor' \in [Replicas -> {0} \union Documents] /\ checkpoint' \in [Replicas -> {0} \union Rows]
    BY <1>3 DEF TypeOK
  <2>3. Batch(r, batch)
    BY <1>3
  <2> HIDE DEF batch
  <2> QED
    BY <1>1, <1>3, <2>1, <2>2, <2>3, BatchType
<1> QED
  BY <1>2, <1>3 DEF ScanAuthoritativeProjection

\* A batch of the history has what the rows carry.
LEMMA ScanHistoryType ==
  ASSUME TypeOK, NEW r \in Replicas, ScanProjectionHistory(r)
  PROVE  TypeOK'
<1>1. /\ step[r] = "history"
      /\ UNCHANGED <<storeVars, sinkVars, step, cursor, highWatermark, expected, written, rolloutVars>>
  BY DEF ScanProjectionHistory
<1>2. PICK last \in Rows, scan \in SUBSET Rows :
        /\ Batch(r, {ItemOf(row) : row \in {x \in scan : x <= last}})
        /\ checkpoint' = [checkpoint EXCEPT ![r] = last]
  <2> DEFINE scan == {row \in Committed : checkpoint[r] < row /\ row <= highWatermark[r]}
  <2>1. PICK last \in Rows :
          /\ Batch(r, {ItemOf(row) : row \in {x \in scan : x <= last}})
          /\ checkpoint' = [checkpoint EXCEPT ![r] = last]
    BY DEF ScanProjectionHistory
  <2>2. scan \in SUBSET Rows
    BY DEF Committed
  <2> HIDE DEF scan
  <2> QED
    BY <2>1, <2>2
<1> DEFINE batch == {ItemOf(row) : row \in {x \in scan : x <= last}}
<1>3. batch \in SUBSET Items
  BY ItemsOfStore DEF TypeOK
<1>4. cursor' \in [Replicas -> {0} \union Documents] /\ checkpoint' \in [Replicas -> {0} \union Rows]
  BY <1>1, <1>2 DEF TypeOK
<1>5. Batch(r, batch)
  BY <1>2
<1> HIDE DEF batch
<1> QED
  BY <1>1, <1>3, <1>4, <1>5, BatchType

\* The steps of an attempt that move its counters or end it.
LEMMA AttemptType ==
  ASSUME TypeOK, NEW r \in Replicas,
         \/ Begin(r) \/ ValidateVersion(r) \/ CheckWatermark(r)
         \/ CountAuthoritativeProjection(r) \/ CountVersion(r) \/ SwitchAlias(r)
  PROVE  TypeOK'
<1>1. CASE Begin(r)
  <2>1. step[r] = "begin" => items[r] = {}
    BY DEF TypeOK
  <2> QED
    BY <1>1, <2>1, StoreNumbers DEF TypeOK, Begin, Steps, storeVars, rolloutVars, sinkVars, batchVars
<1>2. CASE ValidateVersion(r)
  <2>1. CASE Leave(r, "begin")
    BY <1>2, <2>1, LeaveType
    DEF ValidateVersion, Steps, TypeOK, storeVars, rolloutVars, sinkVars
  <2>2. CASE /\ items' = [items EXCEPT ![r] = {}]
             /\ UNCHANGED <<step, todo, cursor, checkpoint, highWatermark, expected>>
    BY <1>2, <2>2 DEF TypeOK, ValidateVersion, storeVars, rolloutVars, sinkVars
  <2> QED
    BY <1>2, <2>1, <2>2 DEF ValidateVersion
<1>3. CASE CheckWatermark(r)
  <2>1. /\ UNCHANGED <<authority, archived, phase, index, alias, items, todo, cursor, checkpoint,
                       expected, written, rolloutVars>>
        /\ items[r] = {}
    BY <1>3 DEF CheckWatermark, Idle, TypeOK, storeVars, rolloutVars, sinkVars, batchVars
  <2>2. PICK to \in Steps : step' = [step EXCEPT ![r] = to]
    BY <1>3 DEF CheckWatermark, Continue, Steps
  <2>3. highWatermark' \in [Replicas -> {0} \union Rows]
    BY <1>3, StoreNumbers DEF CheckWatermark, Continue, TypeOK
  <2>4. /\ step' \in [Replicas -> Steps]
        /\ \A q \in Replicas : items'[q] # {} => step'[q] \in {"snapshot", "history"}
    BY <2>1, <2>2 DEF TypeOK
  <2> QED
    BY <2>1, <2>3, <2>4 DEF TypeOK, rolloutVars
<1>4. CASE CountAuthoritativeProjection(r)
  <2>1. items[r] = {}
    BY <1>4 DEF CountAuthoritativeProjection, TypeOK
  <2>2. Cardinality(Authoritative) \in 0..Cardinality(Documents)
    BY StoreNumbers
  <2> QED
    BY <1>4, <2>1, <2>2
    DEF TypeOK, CountAuthoritativeProjection, Steps, storeVars, rolloutVars, sinkVars, batchVars
<1>5. CASE CountVersion(r)
  <2>1. step[r] = "compare" /\ items[r] = {}
    BY <1>5 DEF CountVersion, TypeOK
  <2>2. CASE Leave(r, "begin")
    BY <1>5, <2>2, LeaveType DEF CountVersion, Steps, TypeOK, storeVars, rolloutVars, sinkVars
  <2>3. CASE /\ step' = [step EXCEPT ![r] = "recheck"]
             /\ expected' = [expected EXCEPT ![r] = 0]
             /\ UNCHANGED <<batchVars, cursor, checkpoint, highWatermark>>
    BY <1>5, <2>1, <2>3, StoreNumbers
    DEF TypeOK, CountVersion, Steps, storeVars, rolloutVars, sinkVars, batchVars
  <2> QED
    BY <1>5, <2>2, <2>3 DEF CountVersion
<1>6. CASE SwitchAlias(r)
  BY <1>6, LeaveType DEF SwitchAlias, Steps, Indexes, TypeOK, storeVars, rolloutVars
<1> QED
  BY <1>1, <1>2, <1>3, <1>4, <1>5, <1>6

\* A document is written by a rebuild or by a worker.
LEMMA WriteType ==
  ASSUME TypeOK, NEW r \in Replicas,
         ProjectVersion(r) \/ \E row \in Rows : Project(r, row)
  PROVE  TypeOK'
<1>1. CASE ProjectVersion(r)
  <2>1. PICK item \in todo[r] :
          /\ IndexDocumentVersion("new", item) /\ todo' = [todo EXCEPT ![r] = @ \ {item}]
          /\ UNCHANGED <<storeVars, alias, step, items, cursor, checkpoint, highWatermark,
                         expected, written, rolloutVars>>
    BY <1>1 DEF ProjectVersion
  <2>2. item \in Items /\ "new" \in Indexes
    BY DEF TypeOK, Indexes
  <2>3. index' \in [Indexes -> [Documents -> Versions]]
    BY <2>1, <2>2, IndexGrows DEF TypeOK
  <2> QED
    BY <2>1, <2>3 DEF TypeOK, storeVars, rolloutVars
<1>2. ASSUME NEW row \in Rows, Project(r, row) PROVE TypeOK'
  <2>1. ItemOf(row) \in Items /\ alias \in Indexes
    BY ItemsOfStore DEF TypeOK
  <2>2. index' \in [Indexes -> [Documents -> Versions]]
    BY <1>2, <2>1, IndexGrows DEF TypeOK, Project
  <2>3. /\ written' \in [Replicas -> SUBSET Rows] /\ overlooked' \subseteq Rows
        /\ UNCHANGED <<authority, archived, phase, alias, rebuildVars, older, restarts>>
    BY <1>2 DEF TypeOK, Project, Overlook, storeVars
  <2> QED
    BY <2>2, <2>3 DEF TypeOK, rebuildVars, attemptVars, batchVars
<1> QED
  BY <1>1, <1>2

\* A process that starts again counts against the bound.
LEMMA RestartType ==
  ASSUME TypeOK, NEW r \in Replicas, Restart(r) \/ Replace(r)
  PROVE  TypeOK'
<1>1. restarts' \in 0..MaxRestarts
  BY RebuildAssumption DEF TypeOK, Restart, Replace
<1>2. /\ written' \in [Replicas -> SUBSET Rows] /\ older' \subseteq older
      /\ UNCHANGED <<authority, archived, phase, index, alias, overlooked>>
  BY DEF TypeOK, Restart, Replace, storeVars, rolloutVars, sinkVars
<1>3. CASE UNCHANGED rebuildVars
  BY <1>1, <1>2, <1>3 DEF TypeOK, rebuildVars, attemptVars, batchVars
<1>4. CASE Leave(r, "begin")
  BY <1>1, <1>2, <1>4, LeaveType DEF TypeOK, Steps
<1> QED
  BY <1>3, <1>4 DEF Restart, Replace

\* Every step keeps the types, whatever replicas serve.
LEMMA NextType == TypeOK /\ [Next]_vars => TypeOK'
<1> SUFFICES ASSUME TypeOK, [Next]_vars PROVE TypeOK'
  OBVIOUS
<1>1. CASE UNCHANGED vars
  BY <1>1 DEF TypeOK, vars, storeVars, rolloutVars, sinkVars, rebuildVars, attemptVars, batchVars
<1>2. CASE Next
  BY <1>2, StoreType, ScanAuthoritativeType, ScanHistoryType, AttemptType, WriteType, RestartType
  DEF Next, Rebuild
<1> QED
  BY <1>1, <1>2

-----------------------------------------------------------------------------
(* The store is ahead.                                                     *)

\* A step that commits nothing keeps the store ahead if it writes, and takes up to
\* be written, only what comes from the store.
LEMMA SilentStepAhead ==
  ASSUME TypeOK, CommittedInOrder, StoreIsAhead, Committed' = Committed, authority' = authority,
         overlooked' \subseteq overlooked \union Committed,
         \A r \in Replicas : written'[r] \subseteq written[r] \union Committed,
         \/ index' = index
         \/ \E i \in Indexes, item \in Items :
              /\ IndexDocumentVersion(i, item)
              /\ ComesFromStore(item.document, item.version),
         \A r \in Replicas : \A item \in todo'[r] :
           item \in todo[r] \/ ComesFromStore(item.document, item.version)
  PROVE  CommittedInOrder' /\ StoreIsAhead'
<1>1. ASSUME NEW j \in Indexes, NEW d \in Documents PROVE ComesFromStore(d, index'[j][d])
  <2>1. ComesFromStore(d, index[j][d])
    BY DEF StoreIsAhead
  <2>2. ASSUME NEW i \in Indexes, NEW item \in Items, IndexDocumentVersion(i, item),
               ComesFromStore(item.document, item.version)
        PROVE  ComesFromStore(d, index'[j][d])
    <3>1. \/ index'[j][d] = index[j][d]
          \/ d = item.document /\ index'[j][d] = item.version
      BY <2>2 DEF TypeOK, IndexDocumentVersion
    <3> QED
      BY <2>1, <2>2, <3>1
  <2> QED
    BY <2>1, <2>2
<1>2. \A r \in Replicas : \A item \in todo'[r] : ComesFromStore(item.document, item.version)
  BY DEF StoreIsAhead
<1>3. StoreIsAhead'
  BY <1>1, <1>2 DEF StoreIsAhead, ComesFromStore
<1>4. CommittedInOrder'
  BY DEF CommittedInOrder, ComesFromStore
<1> QED
  BY <1>3, <1>4

\* A row that is committed is newer than those of its document before it.
LEMMA AppendAhead ==
  ASSUME TypeOK, CommittedInOrder, StoreIsAhead, NEW row \in Rows, AppendProjection(row)
  PROVE  CommittedInOrder' /\ StoreIsAhead'
<1> DEFINE doc == DocumentOf[row]
<1>1. /\ phase[row] = "absent" /\ phase' = [phase EXCEPT ![row] = "due"]
      /\ authority' = [authority EXCEPT ![doc] = VersionOf[row]]
      /\ \A r \in Rows : DocumentOf[r] = doc /\ VersionOf[r] < VersionOf[row] => phase[r] # "absent"
      /\ UNCHANGED <<index, todo, written, overlooked>>
  BY DEF AppendProjection, sinkVars, rebuildVars, attemptVars, batchVars, rolloutVars
<1>2. Committed' = Committed \union {row} /\ row \notin Committed
  BY <1>1 DEF Committed, TypeOK
<1>3. /\ authority'[doc] = VersionOf[row] /\ doc \in Documents
      /\ \A d \in Documents \ {doc} : authority'[d] = authority[d]
  BY <1>1, Constants DEF TypeOK
<1>4. ASSUME NEW r \in Committed' PROVE VersionOf[r] <= authority'[DocumentOf[r]]
  <2>1. r \in Rows /\ VersionOf[r] \in Nat /\ VersionOf[row] \in Nat /\ DocumentOf[r] \in Documents
    BY Constants DEF Committed
  <2>2. CASE r = row
    BY <1>3, <2>1, <2>2
  <2>3. CASE r # row /\ DocumentOf[r] = doc
    <3>1. ~(VersionOf[row] < VersionOf[r])
      BY <1>2, <2>3 DEF CommittedInOrder
    <3> QED
      BY <1>3, <2>1, <2>3, <3>1
  <2>4. CASE r # row /\ DocumentOf[r] # doc
    BY <1>2, <1>3, <2>1, <2>4 DEF StoreIsAhead
  <2> QED
    BY <2>2, <2>3, <2>4
<1>5. \A d \in Documents, i \in Indexes : ComesFromStore(d, index[i][d])'
  BY <1>1, <1>2 DEF StoreIsAhead, ComesFromStore
<1>6. \A r \in Replicas : \A item \in todo[r] : ComesFromStore(item.document, item.version)'
  BY <1>1, <1>2 DEF StoreIsAhead, ComesFromStore
<1>7. \A r \in Committed', q \in Rows :
        DocumentOf[q] = DocumentOf[r] /\ VersionOf[q] < VersionOf[r] => q \in Committed'
  BY <1>1, <1>2 DEF CommittedInOrder, Committed
<1>8. \A d \in Documents : ComesFromStore(d, authority[d])'
  BY <1>2, <1>3 DEF CommittedInOrder, ComesFromStore
<1>9. CommittedInOrder'
  BY <1>1, <1>2, <1>7, <1>8 DEF CommittedInOrder
<1> QED
  BY <1>1, <1>4, <1>5, <1>6, <1>9 DEF StoreIsAhead

\* What an upgrade finds was written from rows that are committed.
LEMMA InitAhead == Init => CommittedInOrder /\ StoreIsAhead
<1> SUFFICES ASSUME Init PROVE CommittedInOrder /\ StoreIsAhead
  OBVIOUS
<1>1. PICK applied \in SUBSET Committed, old \in [Documents -> Versions] :
        /\ \A d \in Documents : IsNewest(old[d], RowsOf(d) \intersect applied)
        /\ index = [i \in Indexes |-> IF i = "new" THEN [d \in Documents |-> 0] ELSE old]
  BY DEF Init
<1>2. ASSUME NEW row \in Committed PROVE VersionOf[row] <= authority[DocumentOf[row]]
  <2>1. row \in RowsOf(DocumentOf[row]) \intersect Committed /\ DocumentOf[row] \in Documents
    BY Constants DEF RowsOf, Committed
  <2>2. IsNewest(authority[DocumentOf[row]], RowsOf(DocumentOf[row]) \intersect Committed)
    BY <2>1 DEF Init
  <2> QED
    BY <2>1, <2>2 DEF IsNewest
<1>3. ASSUME NEW i \in Indexes, NEW d \in Documents PROVE ComesFromStore(d, index[i][d])
  <2>1. index[i][d] = 0 \/ index[i][d] = old[d]
    BY <1>1
  <2>2. ComesFromStore(d, old[d])
    BY <1>1 DEF IsNewest, RowsOf, ComesFromStore
  <2> QED
    BY <2>1, <2>2 DEF ComesFromStore
<1>4. \A r \in Replicas : todo[r] = {} /\ written[r] = {}
  BY DEF Init
<1>5. CommittedInOrder
  <2>1. \A d \in Documents : IsNewest(authority[d], RowsOf(d) \intersect Committed)
    BY DEF Init
  <2>2. \A d \in Documents : ComesFromStore(d, authority[d])
    BY <2>1 DEF IsNewest, RowsOf, ComesFromStore
  <2> QED
    BY <1>4, <2>2 DEF Init, CommittedInOrder
<1> QED
  BY <1>2, <1>3, <1>4, <1>5 DEF StoreIsAhead

\* Every step keeps the store ahead.
LEMMA NextAhead ==
  ASSUME TypeOK, CommittedInOrder, StoreIsAhead, [Next]_vars
  PROVE  CommittedInOrder' /\ StoreIsAhead'
<1>1. ASSUME NEW row \in Rows, AppendProjection(row) PROVE  CommittedInOrder' /\ StoreIsAhead'
  BY <1>1, AppendAhead
\* The steps that take nothing up and write nothing.
<1>2. ASSUME UNCHANGED <<authority, phase, index, overlooked>>,
             \A r \in Replicas : todo'[r] \subseteq todo[r] /\ written'[r] \subseteq written[r]
      PROVE  CommittedInOrder' /\ StoreIsAhead'
  BY <1>2, SilentStepAhead DEF Committed
<1>3. ASSUME NEW r \in Replicas, NEW to, Leave(r, to),
             UNCHANGED <<authority, phase, index, overlooked>>,
             \A q \in Replicas : written'[q] \subseteq written[q]
      PROVE  CommittedInOrder' /\ StoreIsAhead'
  <2>1. \A q \in Replicas : todo'[q] \subseteq todo[q]
    BY <1>3 DEF Leave, TypeOK
  <2> QED
    BY <1>2, <1>3, <2>1
<1>4. ASSUME NEW r \in Replicas,
             \/ Begin(r) \/ CheckWatermark(r) \/ CountAuthoritativeProjection(r)
      PROVE  CommittedInOrder' /\ StoreIsAhead'
  <2>1. UNCHANGED <<authority, phase, index, overlooked, todo, written>>
    BY <1>4
    DEF Begin, CheckWatermark, CountAuthoritativeProjection, storeVars, sinkVars, batchVars,
        rolloutVars
  <2> QED
    BY <1>2, <2>1
<1>5. ASSUME NEW r \in Replicas,
             ValidateVersion(r) \/ CountVersion(r) \/ SwitchAlias(r) \/ Restart(r) \/ Replace(r)
      PROVE  CommittedInOrder' /\ StoreIsAhead'
  <2>1. /\ UNCHANGED <<authority, phase, index, overlooked>>
        /\ \A q \in Replicas : written'[q] \subseteq written[q]
    BY <1>5
    DEF ValidateVersion, CountVersion, SwitchAlias, Restart, Replace, storeVars, sinkVars,
        rolloutVars, TypeOK
  <2>2. UNCHANGED todo \/ \E to \in {"begin", "serve"} : Leave(r, to)
    BY <1>5
    DEF ValidateVersion, CountVersion, SwitchAlias, Restart, Replace, batchVars, rebuildVars,
        attemptVars
  <2> QED
    BY <1>2, <1>3, <2>1, <2>2
<1>6. ASSUME NEW r \in Replicas, ScanAuthoritativeProjection(r) PROVE  CommittedInOrder' /\ StoreIsAhead'
  <2>1. UNCHANGED <<authority, phase, index, overlooked, written>>
    BY <1>6 DEF ScanAuthoritativeProjection, storeVars, sinkVars, rolloutVars
  <2>2. CASE UNCHANGED todo
    BY <1>2, <2>1, <2>2
  <2>3. ASSUME NEW last \in Documents,
               Batch(r, {Item(d, authority[d]) : d \in {x \in Unscanned(r) : x <= last}})
        PROVE  CommittedInOrder' /\ StoreIsAhead'
    <3> DEFINE batch == {Item(d, authority[d]) : d \in {x \in Unscanned(r) : x <= last}}
    <3>1. \A item \in batch : ComesFromStore(item.document, item.version)
      <4> SUFFICES ASSUME NEW d \in Unscanned(r)
                   PROVE  ComesFromStore(Item(d, authority[d]).document, Item(d, authority[d]).version)
        OBVIOUS
      <4>1. d \in Documents
        BY DEF Unscanned, Authoritative
      <4> QED
        BY <4>1 DEF Item, ComesFromStore, CommittedInOrder
    <3>2. todo' = [todo EXCEPT ![r] = batch]
      BY <2>3 DEF Batch
    <3> HIDE DEF batch
    <3>3. \A q \in Replicas : todo'[q] = todo[q] \/ todo'[q] = batch
      BY <3>2 DEF TypeOK
    <3> QED
      BY <2>1, <3>1, <3>3, SilentStepAhead DEF Committed
  <2> QED
    BY <1>6, <2>2, <2>3 DEF ScanAuthoritativeProjection, batchVars
<1>7. ASSUME NEW r \in Replicas, ScanProjectionHistory(r) PROVE  CommittedInOrder' /\ StoreIsAhead'
  <2>1. UNCHANGED <<authority, phase, index, overlooked, written>>
    BY <1>7 DEF ScanProjectionHistory, storeVars, sinkVars, rolloutVars
  <2>2. PICK scan \in SUBSET Committed : Batch(r, {ItemOf(row) : row \in scan})
    <3>1. PICK last \in Rows :
            LET scan == {row \in Committed : checkpoint[r] < row /\ row <= highWatermark[r]} IN
            Batch(r, {ItemOf(row) : row \in {x \in scan : x <= last}})
      BY <1>7 DEF ScanProjectionHistory
    <3> DEFINE scan == {row \in Committed : checkpoint[r] < row /\ row <= highWatermark[r]}
    <3>2. {x \in scan : x <= last} \in SUBSET Committed
      OBVIOUS
    <3> QED
      BY <3>1, <3>2
  <2> DEFINE batch == {ItemOf(row) : row \in scan}
  <2>3. \A item \in batch : ComesFromStore(item.document, item.version)
    BY DEF ItemOf, Item, ComesFromStore
  <2>4. todo' = [todo EXCEPT ![r] = batch]
    BY <2>2 DEF Batch
  <2> HIDE DEF batch
  <2>5. \A q \in Replicas : todo'[q] = todo[q] \/ todo'[q] = batch
    BY <2>4 DEF TypeOK
  <2> QED
    BY <2>1, <2>3, <2>5, SilentStepAhead DEF Committed
<1>8. ASSUME NEW r \in Replicas, ProjectVersion(r) PROVE  CommittedInOrder' /\ StoreIsAhead'
  <2>1. PICK item \in todo[r] :
          /\ IndexDocumentVersion("new", item) /\ todo' = [todo EXCEPT ![r] = @ \ {item}]
          /\ UNCHANGED <<authority, phase, overlooked, written>>
    BY <1>8 DEF ProjectVersion, storeVars, rolloutVars
  <2>2. item \in Items /\ ComesFromStore(item.document, item.version) /\ "new" \in Indexes
    BY DEF TypeOK, StoreIsAhead, Indexes
  <2>3. \A q \in Replicas : todo'[q] \subseteq todo[q]
    BY <2>1 DEF TypeOK
  <2> QED
    BY <2>1, <2>2, <2>3, SilentStepAhead DEF Committed
<1>9. ASSUME NEW r \in Replicas, NEW row \in Rows, Project(r, row) PROVE  CommittedInOrder' /\ StoreIsAhead'
  <2>1. /\ IndexDocumentVersion(alias, ItemOf(row)) /\ phase[row] = "due"
        /\ UNCHANGED <<authority, phase, todo>>
        /\ overlooked' \subseteq overlooked \union {row}
        /\ \A q \in Replicas : written'[q] \subseteq written[q] \union {row}
    BY <1>9 DEF Project, Overlook, TypeOK, storeVars, rebuildVars, attemptVars, batchVars
  <2>2. ItemOf(row) \in Items /\ alias \in Indexes
    BY ItemsOfStore DEF TypeOK
  <2>3. row \in Committed /\ ComesFromStore(ItemOf(row).document, ItemOf(row).version)
    BY <2>1 DEF ItemOf, Item, ComesFromStore, Committed
  <2> QED
    BY <2>1, <2>2, <2>3, SilentStepAhead DEF Committed
<1>10. ASSUME NEW r \in Replicas, NEW row \in Rows, MarkDelivered(r, row) PROVE  CommittedInOrder' /\ StoreIsAhead'
  <2>1. /\ phase[row] # "absent" /\ phase' = [phase EXCEPT ![row] = "delivered"]
        /\ UNCHANGED <<authority, index, todo, overlooked>>
        /\ \A q \in Replicas : written'[q] \subseteq written[q]
    BY <1>10
    DEF MarkDelivered, sinkVars, rebuildVars, attemptVars, batchVars, rolloutVars, TypeOK,
        CommittedInOrder, Committed
  <2>2. Committed' = Committed
    BY <2>1 DEF Committed, TypeOK
  <2> QED
    BY <2>1, <2>2, SilentStepAhead
<1>11. ASSUME NEW d \in Archivable, Purge(d) PROVE  CommittedInOrder' /\ StoreIsAhead'
  BY <1>2, <1>11 DEF Purge, sinkVars, rebuildVars, attemptVars, batchVars, rolloutVars
<1>12. CASE UNCHANGED vars
  BY <1>2, <1>12 DEF vars, storeVars, sinkVars, rebuildVars, attemptVars, batchVars, rolloutVars
<1> QED
  BY <1>1, <1>4, <1>5, <1>6, <1>7, <1>8, <1>9, <1>10, <1>11, <1>12 DEF Next, Rebuild

-----------------------------------------------------------------------------
(* The rebuild covers what is in use.                                      *)

\* A row that was live is live as long as the index behind the alias only grows.
LEMMA LiveStays ==
  ASSUME TypeOK, TypeOK', alias' = alias, NEW row \in Rows, Live(row),
         \A d \in Documents : index'[alias][d] >= index[alias][d]
  PROVE  Live(row)'
<1>1. DocumentOf[row] \in Documents /\ VersionOf[row] \in Nat /\ alias \in Indexes
  BY Constants DEF TypeOK
<1>2. index[alias][DocumentOf[row]] \in Versions /\ index'[alias][DocumentOf[row]] \in Versions
  BY <1>1 DEF TypeOK
<1>3. index[alias][DocumentOf[row]] \in Nat /\ index'[alias][DocumentOf[row]] \in Nat
  BY <1>2, Constants
<1> QED
  BY <1>1, <1>3 DEF Live

\* A step of one replica that writes nothing.
OwnStep(r) ==
  /\ UNCHANGED <<authority, archived, phase, index, alias, overlooked>>
  /\ \A q \in Replicas : written'[q] \subseteq written[q]
  /\ \A q \in Replicas \ {r} :
       /\ step'[q] = step[q] /\ todo'[q] = todo[q] /\ cursor'[q] = cursor[q]
       /\ checkpoint'[q] = checkpoint[q] /\ highWatermark'[q] = highWatermark[q]

\* What the old index shows stays in use, and it only has to answer for what it has
\* gone past by then.
LEMMA OwnStepCovers ==
  ASSUME IInv, NEW r \in Replicas, OwnStep(r),
         step'[r] = "begin" => cursor'[r] = 0,
         step'[r] \in {"count", "compare", "recheck"} => checkpoint'[r] >= highWatermark'[r],
         alias = "old" =>
           \A row \in Committed :
             Used(row) /\ Past(r, row)' /\ DocumentOf[row] \notin archived
               => Copied(r, row)' \/ row \in overlooked
  PROVE  /\ \A q \in Replicas : Covers(q)'
         /\ WrittenIsLive' /\ DeliveredIsLive'
<1>1. \A row \in Rows : Used(row)' => Used(row)
  BY DEF OwnStep, Used
<1>2. Committed' = Committed
  BY DEF OwnStep, Committed
<1>3. ASSUME NEW q \in Replicas PROVE Covers(q)'
  <2>1. CASE q = r
    BY <1>1, <1>2, <2>1 DEF OwnStep, Covers, Committed
  <2>2. CASE q # r
    <3>1. \A row \in Rows : (Past(q, row)' <=> Past(q, row)) /\ (Copied(q, row)' <=> Copied(q, row))
      BY <2>2 DEF OwnStep, Past, Copied
    <3>2. Covers(q)
      BY DEF IInv
    <3> QED
      BY <1>1, <1>2, <2>2, <3>1, <3>2 DEF OwnStep, Covers, Committed
  <2> QED
    BY <2>1, <2>2
<1>4. WrittenIsLive' /\ DeliveredIsLive'
  BY DEF IInv, OwnStep, WrittenIsLive, DeliveredIsLive, Live
<1> QED
  BY <1>3, <1>4

\* The facts of the invariant that the lemmas below prove of the next state.
StaysCovered ==
  /\ \A r \in Replicas : Covers(r)'
  /\ WrittenIsLive' /\ DeliveredIsLive'

\* An attempt that is given up, or a replica that starts again, has gone past nothing.
LEMMA LeaveCovers ==
  ASSUME IInv, NEW r \in Replicas, Leave(r, "begin"),
         UNCHANGED <<authority, archived, phase, index, alias, overlooked>>,
         \A q \in Replicas : written'[q] \subseteq written[q]
  PROVE  StaysCovered
<1>1. OwnStep(r) /\ step'[r] = "begin" /\ cursor'[r] = 0
  BY DEF IInv, TypeOK, Leave, OwnStep
<1>2. \A row \in Rows : ~Past(r, row)'
  BY <1>1 DEF Past
<1> QED
  BY <1>1, <1>2, OwnStepCovers DEF StaysCovered, Committed

\* A step that keeps a rebuild's counters and its batch goes past nothing.
LEMMA SameCounters ==
  ASSUME IInv, NEW r \in Replicas, NEW to \in Steps, step' = [step EXCEPT ![r] = to],
         \/ to = step[r]
         \/ /\ step[r] \in {"history", "count", "compare", "recheck"}
            /\ to \in {"history", "count", "compare", "recheck"},
         to \in {"count", "compare", "recheck"} => checkpoint[r] >= highWatermark'[r],
         \A q \in Replicas \ {r} : highWatermark'[q] = highWatermark[q],
         to = "snapshot" => highWatermark'[r] = highWatermark[r],
         UNCHANGED <<authority, archived, phase, index, alias, overlooked, written, todo, cursor,
                     checkpoint>>
  PROVE  StaysCovered
<1>1. OwnStep(r) /\ step'[r] = to
  BY DEF IInv, TypeOK, OwnStep
<1>2. ASSUME NEW row \in Rows, Past(r, row)' PROVE Past(r, row)
  BY <1>1, <1>2 DEF Past
<1>3. Covers(r)
  BY DEF IInv
<1>4. step'[r] = "begin" => cursor'[r] = 0
  BY <1>1, <1>3 DEF Covers
<1>5. ASSUME alias = "old", NEW row \in Committed, Used(row), Past(r, row)',
             DocumentOf[row] \notin archived
      PROVE  Copied(r, row)' \/ row \in overlooked
  <2>1. Past(r, row)
    BY <1>2, <1>5 DEF Committed
  <2>2. Copied(r, row) \/ row \in overlooked
    BY <1>3, <1>5, <2>1 DEF Covers
  <2> QED
    BY <2>2 DEF Copied
<1>6. step'[r] \in {"count", "compare", "recheck"} => checkpoint'[r] >= highWatermark'[r]
  BY <1>1
<1> QED
  BY <1>1, <1>4, <1>5, <1>6, OwnStepCovers DEF StaysCovered

\* A new attempt has scanned nothing.
LEMMA BeginCovers ==
  ASSUME IInv, NEW r \in Replicas, Begin(r)
  PROVE  StaysCovered
<1>1. /\ step[r] = "begin" /\ step' = [step EXCEPT ![r] = "snapshot"]
      /\ highWatermark' = [highWatermark EXCEPT ![r] = ProjectionHighWatermark]
      /\ UNCHANGED <<authority, archived, phase, index, alias, items, todo, cursor, checkpoint,
                     written, overlooked>>
  BY DEF Begin, storeVars, sinkVars, batchVars, rolloutVars
<1>2. OwnStep(r) /\ step'[r] = "snapshot" /\ cursor'[r] = 0
  BY <1>1 DEF IInv, TypeOK, OwnStep, Covers
<1>3. \A row \in Rows : ~Past(r, row)'
  <2> SUFFICES ASSUME NEW row \in Rows PROVE ~(DocumentOf[row] <= 0)
    BY <1>2 DEF Past
  <2>1. DocumentOf[row] \in Nat \ {0}
    BY RebuildAssumption
  <2> QED
    BY <2>1
<1> QED
  BY <1>2, <1>3, OwnStepCovers DEF StaysCovered, Committed

\* When there is nothing to project, what a rebuild has gone past is in the new index.
LEMMA NothingToDo ==
  ASSUME IInv, NEW r \in Replicas, items[r] = {}
  PROVE  /\ todo[r] = {}
         /\ \A row \in Rows :
              Copied(r, row) => index["new"][DocumentOf[row]] >= VersionOf[row]
<1>1. todo[r] = {}
  BY DEF IInv, TypeOK
<1> QED
  BY <1>1 DEF Copied

\* A batch of the scan is the documents up to the last one, all of them to do.
LEMMA ScanAuthoritativeCovers ==
  ASSUME IInv, NEW r \in Replicas, ScanAuthoritativeProjection(r)
  PROVE  StaysCovered
<1>1. /\ step[r] = "snapshot" /\ items[r] = {} /\ todo[r] = {}
      /\ UNCHANGED <<authority, archived, phase, index, alias, written, overlooked, highWatermark>>
  BY NothingToDo DEF ScanAuthoritativeProjection, Idle, storeVars, sinkVars, rolloutVars
<1>2. cursor[r] \in Nat /\ \A d \in Documents : d \in Nat /\ authority[d] \in Nat
  BY NumbersAreNat, CountersAreNat DEF IInv
\* A row that is in use and up to the watermark is copied, or its document is scanned.
<1>3. ASSUME alias = "old", NEW row \in Committed, Used(row), DocumentOf[row] \notin archived,
             row <= highWatermark[r], row \notin overlooked, DocumentOf[row] \notin Unscanned(r)
      PROVE  index["new"][DocumentOf[row]] >= VersionOf[row]
  <2>1. row \in Rows /\ DocumentOf[row] \in Documents /\ VersionOf[row] \in Nat /\ VersionOf[row] > 0
    BY Constants, VersionsDistinguish DEF Committed
  <2>2. authority[DocumentOf[row]] >= VersionOf[row]
    BY <1>2, <2>1 DEF IInv, StoreIsAhead
  <2>3. DocumentOf[row] \in Authoritative
    BY <1>2, <1>3, <2>1, <2>2 DEF Authoritative
  <2>4. DocumentOf[row] <= cursor[r]
    BY <1>2, <1>3, <2>1, <2>3 DEF Unscanned
  <2>5. Past(r, row)
    BY <1>1, <1>3, <2>4 DEF Past
  <2>6. Copied(r, row)
    BY <1>3, <2>5 DEF IInv, Covers
  <2> QED
    BY <1>1, <2>1, <2>6, NothingToDo
<1>4. CASE /\ Unscanned(r) = {} /\ step' = [step EXCEPT ![r] = "history"]
           /\ checkpoint' = [checkpoint EXCEPT ![r] = highWatermark[r]]
           /\ cursor' = [cursor EXCEPT ![r] = 0] /\ UNCHANGED <<items, todo>>
  <2>1. OwnStep(r) /\ step'[r] = "history" /\ checkpoint'[r] = highWatermark[r]
    BY <1>1, <1>4 DEF IInv, TypeOK, OwnStep
  <2>2. ASSUME alias = "old", NEW row \in Committed,
               Used(row), Past(r, row)', DocumentOf[row] \notin archived
        PROVE  Copied(r, row)' \/ row \in overlooked
    <3>1. row <= highWatermark[r]
      BY <2>1, <2>2 DEF Past
    <3> QED
      BY <1>1, <1>3, <1>4, <2>2, <3>1 DEF Copied
  <2> QED
    BY <2>1, <2>2, OwnStepCovers DEF StaysCovered
<1>5. ASSUME NEW last \in Documents,
             Batch(r, {Item(d, authority[d]) : d \in {x \in Unscanned(r) : x <= last}}),
             cursor' = [cursor EXCEPT ![r] = last], step' = step, checkpoint' = checkpoint
      PROVE  StaysCovered
  <2> DEFINE batch == {Item(d, authority[d]) : d \in {x \in Unscanned(r) : x <= last}}
  <2>1. todo' = [todo EXCEPT ![r] = batch]
    BY <1>5 DEF Batch
  <2>2. OwnStep(r) /\ step'[r] = "snapshot" /\ cursor'[r] = last /\ todo'[r] = batch
    <3> HIDE DEF batch
    <3> QED
      BY <1>1, <1>5, <2>1 DEF IInv, TypeOK, OwnStep
  <2>3. ASSUME alias = "old", NEW row \in Committed,
               Used(row), Past(r, row)', DocumentOf[row] \notin archived
        PROVE  Copied(r, row)' \/ row \in overlooked
    <3>1. DocumentOf[row] <= last /\ row <= highWatermark[r]
      BY <1>1, <2>2, <2>3 DEF Past
    <3>2. CASE DocumentOf[row] \in Unscanned(r)
      <4>1. Item(DocumentOf[row], authority[DocumentOf[row]]) \in todo'[r]
        BY <2>2, <3>1, <3>2
      <4>2. DocumentOf[row] \in Documents /\ VersionOf[row] \in Nat
        BY Constants DEF Committed
      <4>3. authority[DocumentOf[row]] >= VersionOf[row]
        BY <1>2, <4>2 DEF IInv, StoreIsAhead
      <4> QED
        BY <4>1, <4>3 DEF Copied, Item
    <3>3. CASE DocumentOf[row] \notin Unscanned(r)
      BY <1>1, <1>3, <2>3, <3>1, <3>3 DEF Copied
    <3> QED
      BY <3>2, <3>3
  <2> QED
    BY <2>2, <2>3, OwnStepCovers DEF StaysCovered
<1> QED
  BY <1>4, <1>5 DEF ScanAuthoritativeProjection, batchVars

\* A batch of the history is the rows up to the last one, all of them to do.
LEMMA ScanHistoryCovers ==
  ASSUME IInv, NEW r \in Replicas, ScanProjectionHistory(r)
  PROVE  StaysCovered
<1> DEFINE scan == {row \in Committed : checkpoint[r] < row /\ row <= highWatermark[r]}
<1>1. PICK last \in scan :
        /\ Batch(r, {ItemOf(row) : row \in {x \in scan : x <= last}})
        /\ checkpoint' = [checkpoint EXCEPT ![r] = last]
  BY DEF ScanProjectionHistory, IsLimit
<1>2. /\ step[r] = "history" /\ items[r] = {} /\ todo[r] = {}
      /\ UNCHANGED <<authority, archived, phase, index, alias, step, cursor, highWatermark, written,
                     overlooked>>
  BY NothingToDo DEF ScanProjectionHistory, Idle, storeVars, sinkVars, rolloutVars
<1> DEFINE batch == {ItemOf(row) : row \in {x \in scan : x <= last}}
<1>3. todo' = [todo EXCEPT ![r] = batch]
  BY <1>1 DEF Batch
<1>4. OwnStep(r) /\ step'[r] = "history" /\ checkpoint'[r] = last /\ todo'[r] = batch
  <2> HIDE DEF batch, scan
  <2> QED
    BY <1>1, <1>2, <1>3 DEF IInv, TypeOK, OwnStep
<1>5. ASSUME alias = "old", NEW row \in Committed,
             Used(row), Past(r, row)', DocumentOf[row] \notin archived
      PROVE  Copied(r, row)' \/ row \in overlooked
  <2>1. row <= last
    BY <1>4, <1>5 DEF Past
  <2>2. CASE row <= checkpoint[r]
    <3>1. Past(r, row)
      BY <1>2, <2>2 DEF Past
    <3>2. Copied(r, row) \/ row \in overlooked
      BY <1>5, <3>1 DEF IInv, Covers
    <3> QED
      BY <1>2, <3>2 DEF Copied
  <2>3. CASE ~(row <= checkpoint[r])
    <3>1. /\ row \in Nat /\ last \in Nat /\ last <= highWatermark[r] /\ VersionOf[row] \in Nat
          /\ checkpoint[r] \in Nat /\ highWatermark[r] \in Nat
      BY Constants, CountersAreNat DEF IInv, Committed
    <3>2. row \in {x \in scan : x <= last}
      BY <2>1, <2>3, <3>1
    <3>3. ItemOf(row) \in todo'[r]
      BY <1>4, <3>2
    <3>4. ItemOf(row).document = DocumentOf[row] /\ ItemOf(row).version >= VersionOf[row]
      BY <3>1 DEF ItemOf, Item
    <3> QED
      BY <3>3, <3>4 DEF Copied
  <2> QED
    BY <2>2, <2>3
<1> QED
  BY <1>2, <1>4, <1>5, OwnStepCovers DEF StaysCovered

\* A batch is validated only when none of it is left to project.
LEMMA ValidateVersionCovers ==
  ASSUME IInv, NEW r \in Replicas, ValidateVersion(r)
  PROVE  StaysCovered
<1>1. /\ UNCHANGED <<authority, archived, phase, index, alias, overlooked, written>>
      /\ \/ UNCHANGED <<step, todo, cursor, checkpoint, highWatermark>>
         \/ Leave(r, "begin")
  BY DEF ValidateVersion, storeVars, sinkVars, rolloutVars
<1>2. CASE UNCHANGED <<step, todo, cursor, checkpoint, highWatermark>>
  <2>1. step' = [step EXCEPT ![r] = step[r]] /\ step[r] \in Steps
    BY <1>2 DEF IInv, TypeOK
  <2>2. step[r] \in {"count", "compare", "recheck"} => checkpoint[r] >= highWatermark'[r]
    BY <1>2 DEF IInv, Covers
  <2> QED
    BY <1>1, <1>2, <2>1, <2>2, SameCounters
<1>3. CASE Leave(r, "begin")
  BY <1>1, <1>3, LeaveCovers
<1> QED
  BY <1>1, <1>2, <1>3

\* The alias is about to move only when no row is above the watermark that the
\* rebuild is past.
LEMMA CheckWatermarkCovers ==
  ASSUME IInv, NEW r \in Replicas, CheckWatermark(r)
  PROVE  StaysCovered
<1>1. /\ UNCHANGED <<authority, archived, phase, index, alias, overlooked, written, todo, cursor,
                     checkpoint>>
      /\ step[r] \in {"history", "recheck"} /\ items[r] = {}
      /\ checkpoint[r] >= highWatermark[r]
  BY DEF CheckWatermark, Idle, IInv, TypeOK, Covers, storeVars, sinkVars, batchVars, rolloutVars
<1>2. CASE /\ ProjectionHighWatermark > highWatermark[r]
           /\ highWatermark' = [highWatermark EXCEPT ![r] = ProjectionHighWatermark]
           /\ step' = [step EXCEPT ![r] = "history"]
  <2>1. \A q \in Replicas \ {r} : highWatermark'[q] = highWatermark[q]
    BY <1>2 DEF IInv, TypeOK
  <2> QED
    BY <1>1, <1>2, <2>1, SameCounters DEF Steps
<1>3. CASE step' = [step EXCEPT ![r] = "count"] /\ UNCHANGED highWatermark
  BY <1>1, <1>3, SameCounters DEF Steps
<1>4. CASE /\ ~(ProjectionHighWatermark > highWatermark[r]) /\ step[r] = "recheck"
           /\ step' = [step EXCEPT ![r] = "switch"] /\ UNCHANGED highWatermark
  <2>1. OwnStep(r) /\ step'[r] = "switch"
    BY <1>1, <1>4 DEF IInv, TypeOK, OwnStep
  <2>2. ASSUME alias = "old", NEW row \in Committed, Used(row), DocumentOf[row] \notin archived
        PROVE  Copied(r, row)' \/ row \in overlooked
    <3>1. row <= ProjectionHighWatermark /\ ProjectionHighWatermark \in Committed
      BY WatermarkIsHighest
    <3>2. /\ row \in Nat /\ ProjectionHighWatermark \in Nat
          /\ checkpoint[r] \in Nat /\ highWatermark[r] \in Nat
      BY <3>1, Constants, CountersAreNat DEF IInv, Committed
    <3>3. row <= checkpoint[r]
      BY <1>1, <1>4, <3>1, <3>2
    <3>4. Past(r, row)
      BY <1>4, <3>3 DEF Past
    <3>5. Copied(r, row) \/ row \in overlooked
      BY <2>2, <3>4 DEF IInv, Covers
    <3> QED
      BY <1>1, <3>5 DEF Copied
  <2> QED
    BY <2>1, <2>2, OwnStepCovers DEF StaysCovered
<1> QED
  BY <1>1, <1>2, <1>3, <1>4 DEF CheckWatermark, Continue

\* Counting goes past nothing.
LEMMA CountCovers ==
  ASSUME IInv, NEW r \in Replicas, CountAuthoritativeProjection(r) \/ CountVersion(r)
  PROVE  StaysCovered
<1>1. /\ step[r] \in {"count", "compare"} /\ checkpoint[r] >= highWatermark[r]
      /\ UNCHANGED <<authority, archived, phase, index, alias, overlooked, written>>
  BY DEF CountAuthoritativeProjection, CountVersion, IInv, Covers, storeVars, sinkVars, rolloutVars
<1>2. ASSUME NEW to \in {"compare", "recheck"}, step' = [step EXCEPT ![r] = to],
             UNCHANGED <<batchVars, cursor, checkpoint, highWatermark>>
      PROVE  StaysCovered
  <2>1. to \in Steps /\ todo' = todo
    BY <1>2 DEF Steps, batchVars
  <2> QED
    BY <1>1, <1>2, <2>1, SameCounters
<1>3. CASE Leave(r, "begin")
  BY <1>1, <1>3, LeaveCovers
<1> QED
  BY <1>2, <1>3 DEF CountAuthoritativeProjection, CountVersion

\* A new release starts with its rebuild, an old one goes on.
LEMMA RestartCovers ==
  ASSUME IInv, NEW r \in Replicas, Restart(r) \/ Replace(r)
  PROVE  StaysCovered
<1>1. /\ UNCHANGED <<authority, archived, phase, index, alias, overlooked>>
      /\ \A q \in Replicas : written'[q] \subseteq written[q]
      /\ UNCHANGED rebuildVars \/ Leave(r, "begin")
  BY DEF Restart, Replace, IInv, TypeOK, storeVars, sinkVars
<1>2. CASE UNCHANGED rebuildVars
  <2>1. OwnStep(r) /\ UNCHANGED <<step, todo, cursor, checkpoint, highWatermark>>
    BY <1>1, <1>2 DEF OwnStep, rebuildVars, attemptVars, batchVars
  <2>2. \A row \in Rows : (Past(r, row)' <=> Past(r, row)) /\ (Copied(r, row)' <=> Copied(r, row))
    BY <2>1 DEF OwnStep, Past, Copied
  <2>3. Covers(r)
    BY DEF IInv
  <2>4. /\ step'[r] = "begin" => cursor'[r] = 0
        /\ step'[r] \in {"count", "compare", "recheck"} => checkpoint'[r] >= highWatermark'[r]
    BY <2>1, <2>3 DEF Covers
  <2>5. alias = "old" =>
          \A row \in Committed :
            Used(row) /\ Past(r, row)' /\ DocumentOf[row] \notin archived
              => Copied(r, row)' \/ row \in overlooked
    BY <2>2, <2>3 DEF Covers, Committed
  <2> QED
    BY <2>1, <2>4, <2>5, OwnStepCovers DEF StaysCovered
<1>3. CASE Leave(r, "begin")
  BY <1>1, <1>3, LeaveCovers
<1> QED
  BY <1>1, <1>2, <1>3

\* What is written need no longer be to do.
LEMMA ProjectVersionCovers ==
  ASSUME IInv, TypeOK', NEW r \in Replicas, ProjectVersion(r)
  PROVE  /\ StaysCovered
         /\ \A d \in Documents : index'[alias][d] >= index[alias][d]
<1>1. PICK item \in todo[r] :
        /\ IndexDocumentVersion("new", item)
        /\ todo' = [todo EXCEPT ![r] = @ \ {item}]
        /\ UNCHANGED <<authority, archived, phase, alias, step, cursor, checkpoint, highWatermark,
                       written, overlooked>>
  BY DEF ProjectVersion, storeVars, rolloutVars
<1>2. item \in Items /\ "new" \in Indexes /\ "old" \in Indexes /\ alias \in Indexes
  BY DEF IInv, TypeOK, Indexes
<1>3. /\ \A j \in Indexes, d \in Documents : index'[j][d] >= index[j][d]
      /\ index'["new"][item.document] >= item.version
      /\ index'["old"] = index["old"]
  BY <1>1, <1>2, IndexGrows DEF IInv, Indexes
<1>4. todo'[r] = todo[r] \ {item} /\ \A q \in Replicas \ {r} : todo'[q] = todo[q]
  BY <1>1 DEF IInv, TypeOK
<1>5. ASSUME NEW q \in Replicas, NEW row \in Rows, Copied(q, row) PROVE Copied(q, row)'
  <2> DEFINE d == DocumentOf[row]
  <2>1. d \in Documents /\ VersionOf[row] \in Nat /\ item.version \in Nat
    BY <1>2, Constants DEF Items
  <2>2. index["new"][d] \in Nat /\ index'["new"][d] \in Nat
    <3>1. /\ index \in [Indexes -> [Documents -> Versions]]
          /\ index' \in [Indexes -> [Documents -> Versions]]
      BY DEF IInv, TypeOK
    <3> HIDE DEF d
    <3>2. index["new"][d] \in Versions /\ index'["new"][d] \in Versions
      BY <1>2, <2>1, <3>1
    <3> QED
      BY <3>2, Constants
  <2>3. index'["new"][d] >= index["new"][d]
    BY <1>2, <1>3, <2>1
  <2> HIDE DEF d
  <2>4. CASE index["new"][d] >= VersionOf[row]
    <3>1. index'["new"][d] >= VersionOf[row]
      BY <2>1, <2>2, <2>3, <2>4
    <3> QED
      BY <3>1 DEF Copied, d
  <2>5. ASSUME NEW i \in todo[q], i.document = d, i.version >= VersionOf[row]
        PROVE  Copied(q, row)'
    <3>1. CASE i \in todo'[q]
      BY <2>5, <3>1 DEF Copied, d
    <3>2. CASE i \notin todo'[q]
      <4>1. i = item
        BY <1>4, <3>2
      <4>2. index'["new"][d] >= VersionOf[row]
        BY <1>3, <2>1, <2>2, <2>5, <4>1
      <4> QED
        BY <4>2 DEF Copied, d
    <3> QED
      BY <3>1, <3>2
  <2> QED
    BY <1>5, <2>4, <2>5 DEF Copied, d
<1>6. ASSUME NEW q \in Replicas PROVE Covers(q)'
  <2>1. \A row \in Rows : (Past(q, row)' <=> Past(q, row)) /\ (Used(row)' <=> Used(row))
    BY <1>1, <1>3 DEF Past, Used
  <2>2. Covers(q) /\ Committed' = Committed
    BY <1>1 DEF IInv, Committed
  <2> QED
    BY <1>1, <1>5, <2>1, <2>2 DEF Covers, Committed
<1>7. \A row \in Rows : Live(row) => Live(row)'
  BY <1>1, <1>2, <1>3, LiveStays DEF IInv
<1>8. WrittenIsLive' /\ DeliveredIsLive'
  BY <1>1, <1>7 DEF IInv, TypeOK, WrittenIsLive, DeliveredIsLive
<1> QED
  BY <1>2, <1>3, <1>6, <1>8 DEF StaysCovered

\* What a worker of the old release writes behind a rebuild's back is overlooked, and
\* everything else is copied.
LEMMA ProjectCovers ==
  ASSUME IInv, TypeOK', NEW r \in Replicas, NEW row \in Rows, Project(r, row)
  PROVE  /\ StaysCovered
         /\ \A d \in Documents : index'[alias][d] >= index[alias][d]
<1>1. /\ phase[row] = "due" /\ IndexDocumentVersion(alias, ItemOf(row)) /\ Overlook(row)
      /\ written' = [written EXCEPT ![r] = @ \union {row}]
      /\ UNCHANGED <<authority, archived, phase, alias, step, items, todo, cursor, checkpoint,
                     highWatermark>>
  BY DEF Project, storeVars, rebuildVars, attemptVars, batchVars
<1>2. /\ ItemOf(row) \in Items /\ alias \in Indexes
      /\ ItemOf(row).document = DocumentOf[row] /\ ItemOf(row).version = VersionOf[row]
  BY ItemsOfStore DEF IInv, TypeOK, ItemOf, Item
<1>3. /\ \A j \in Indexes, d \in Documents : index'[j][d] >= index[j][d]
      /\ index'[alias][DocumentOf[row]] >= VersionOf[row]
      /\ \A j \in Indexes \ {alias} : index'[j] = index[j]
  BY <1>1, <1>2, IndexGrows DEF IInv
<1>4. /\ overlooked \subseteq overlooked'
      /\ \A q \in Replicas : written'[q] \subseteq written[q] \union {row}
      /\ row \in Committed /\ Committed' = Committed
  BY <1>1 DEF IInv, TypeOK, Overlook, Committed
<1>5. ASSUME alias = "old", NEW q \in Replicas, NEW other \in Committed, Used(other)',
             Past(q, other)', DocumentOf[other] \notin archived
      PROVE  Copied(q, other)' \/ other \in overlooked'
  <2>1. Past(q, other) /\ (Copied(q, other)' <=> Copied(q, other))
    BY <1>1, <1>3, <1>5 DEF Past, Copied, Indexes
  <2>2. CASE other = row
    BY <1>1, <1>5, <2>1, <2>2 DEF Overlook
  <2>3. CASE other # row
    <3>1. index'["old"][DocumentOf[other]] = VersionOf[other]
            => index["old"][DocumentOf[other]] = VersionOf[other]
      <4>1. /\ index' = [index EXCEPT !["old"][DocumentOf[row]] =
                           IF VersionOf[row] > @ THEN VersionOf[row] ELSE @]
            /\ other \in Rows /\ DocumentOf[other] \in Documents /\ "old" \in Indexes
        BY <1>1, <1>2, <1>5, Constants DEF IndexDocumentVersion, Committed, Indexes
      <4>2. \/ index'["old"][DocumentOf[other]] = index["old"][DocumentOf[other]]
            \/ /\ DocumentOf[other] = DocumentOf[row]
               /\ index'["old"][DocumentOf[other]] = VersionOf[row]
        BY <4>1 DEF IInv, TypeOK
      <4> QED
        BY <2>3, <4>1, <4>2, VersionsDistinguish
    <3>2. Used(other)
      BY <1>1, <1>4, <1>5, <2>3, <3>1 DEF Used
    <3>3. Copied(q, other) \/ other \in overlooked
      BY <1>5, <2>1, <3>2 DEF IInv, Covers
    <3> QED
      BY <1>4, <2>1, <3>3
  <2> QED
    BY <2>2, <2>3
<1>6. ASSUME NEW q \in Replicas PROVE Covers(q)'
  <2>1. Covers(q)
    BY DEF IInv
  <2>2. /\ step'[q] = "begin" => cursor'[q] = 0
        /\ step'[q] \in {"count", "compare", "recheck"} => checkpoint'[q] >= highWatermark'[q]
    BY <1>1, <2>1 DEF Covers
  <2> QED
    BY <1>1, <1>4, <1>5, <2>2 DEF Covers
<1>7. \A other \in Rows : Live(other) => Live(other)'
  BY <1>1, <1>2, <1>3, LiveStays DEF IInv
<1>8. Live(row)'
  BY <1>1, <1>3 DEF Live
<1>9. WrittenIsLive'
  <2> SUFFICES ASSUME NEW q \in Replicas, NEW other \in written'[q]
               PROVE  Live(other)' \/ DocumentOf[other] \in archived' \/ other \in overlooked'
    BY DEF WrittenIsLive
  <2>1. other = row \/ (other \in written[q] /\ other \in Rows)
    BY <1>4 DEF IInv, TypeOK
  <2> QED
    BY <1>1, <1>4, <1>7, <1>8, <2>1 DEF IInv, WrittenIsLive
<1>10. DeliveredIsLive'
  BY <1>1, <1>4, <1>7 DEF IInv, DeliveredIsLive
<1> QED
  BY <1>2, <1>3, <1>6, <1>9, <1>10 DEF StaysCovered

\* A row that is committed is not in use yet.
LEMMA AppendCovers ==
  ASSUME IInv, NEW row \in Rows, AppendProjection(row)
  PROVE  StaysCovered
<1>1. /\ phase[row] = "absent" /\ phase' = [phase EXCEPT ![row] = "due"]
      /\ UNCHANGED <<archived, index, alias, step, todo, cursor, checkpoint, highWatermark, written,
                     overlooked>>
  BY DEF AppendProjection, sinkVars, rebuildVars, attemptVars, batchVars, rolloutVars
<1>2. /\ Committed' = Committed \union {row} /\ row \notin Committed
      /\ phase'[row] = "due" /\ \A other \in Rows \ {row} : phase'[other] = phase[other]
  BY <1>1 DEF Committed, IInv, TypeOK
<1>3. ~Used(row)'
  <2>1. \A q \in Replicas : row \notin written'[q]
    BY <1>1, <1>2 DEF IInv, CommittedInOrder
  <2>2. index["old"][DocumentOf[row]] # VersionOf[row]
    <3>1. /\ DocumentOf[row] \in Documents /\ "old" \in Indexes
          /\ VersionOf[row] \in Nat /\ VersionOf[row] > 0
      BY Constants, VersionsDistinguish DEF Indexes
    <3>2. ComesFromStore(DocumentOf[row], index["old"][DocumentOf[row]])
      BY <3>1 DEF IInv, StoreIsAhead
    <3>3. \A other \in Committed :
            ~(DocumentOf[other] = DocumentOf[row] /\ VersionOf[other] = VersionOf[row])
      BY <1>2, VersionsDistinguish DEF Committed
    <3> QED
      BY <3>1, <3>2, <3>3 DEF ComesFromStore
  <2> QED
    BY <1>1, <1>2, <2>1, <2>2 DEF Used
<1>4. ASSUME NEW q \in Replicas PROVE Covers(q)'
  <2>1. Covers(q)
    BY DEF IInv
  <2>2. ASSUME alias = "old", NEW other \in Committed', Used(other)', Past(q, other)',
               DocumentOf[other] \notin archived
        PROVE  Copied(q, other)' \/ other \in overlooked
    <3>1. other \in Committed /\ other \in Rows \ {row}
      BY <1>2, <1>3, <2>2 DEF Committed
    <3>2. Used(other) /\ Past(q, other)
      BY <1>1, <1>2, <2>2, <3>1 DEF Used, Past
    <3>3. Copied(q, other) \/ other \in overlooked
      BY <2>1, <2>2, <3>1, <3>2 DEF Covers
    <3> QED
      BY <1>1, <3>3 DEF Copied
  <2>3. /\ step'[q] = "begin" => cursor'[q] = 0
        /\ step'[q] \in {"count", "compare", "recheck"} => checkpoint'[q] >= highWatermark'[q]
    BY <1>1, <2>1 DEF Covers
  <2> QED
    BY <1>1, <2>2, <2>3 DEF Covers
<1>5. WrittenIsLive' /\ DeliveredIsLive'
  BY <1>1, <1>2 DEF IInv, WrittenIsLive, DeliveredIsLive, Live
<1> QED
  BY <1>4, <1>5 DEF StaysCovered

\* What is archived need not be covered any more.
LEMMA PurgeCovers ==
  ASSUME IInv, NEW d \in Archivable, Purge(d)
  PROVE  StaysCovered
<1>1. /\ archived \subseteq archived'
      /\ UNCHANGED <<phase, index, alias, step, todo, cursor, checkpoint, highWatermark, written,
                     overlooked>>
  BY DEF Purge, sinkVars, rebuildVars, attemptVars, batchVars, rolloutVars
<1>2. Committed' = Committed
  BY <1>1 DEF Committed
<1>3. ASSUME NEW q \in Replicas PROVE Covers(q)'
  <2>1. \A row \in Rows : /\ Used(row)' <=> Used(row)
                          /\ Past(q, row)' <=> Past(q, row)
                          /\ Copied(q, row)' <=> Copied(q, row)
    BY <1>1 DEF Used, Past, Copied
  <2>2. Covers(q)
    BY DEF IInv
  <2> QED
    BY <1>1, <1>2, <2>1, <2>2 DEF Covers, Committed
<1>4. WrittenIsLive' /\ DeliveredIsLive'
  BY <1>1 DEF IInv, WrittenIsLive, DeliveredIsLive, Live
<1> QED
  BY <1>3, <1>4 DEF StaysCovered

\* What is marked was written.
LEMMA MarkDeliveredCovers ==
  ASSUME IInv, NEW r \in Replicas, NEW row \in Rows, MarkDelivered(r, row)
  PROVE  StaysCovered
<1>1. /\ row \in written[r] /\ phase' = [phase EXCEPT ![row] = "delivered"]
      /\ written' = [written EXCEPT ![r] = @ \ {row}]
      /\ UNCHANGED <<archived, index, alias, step, todo, cursor, checkpoint, highWatermark, overlooked>>
  BY DEF MarkDelivered, sinkVars, rebuildVars, attemptVars, batchVars, rolloutVars
<1>2. \A q \in Replicas : written'[q] \subseteq written[q]
  BY <1>1 DEF IInv, TypeOK
<1>3. /\ row \in Committed /\ Committed' = Committed
      /\ \A other \in Rows \ {row} : phase'[other] = phase[other]
  BY <1>1 DEF IInv, TypeOK, CommittedInOrder, Committed
<1>4. ASSUME NEW q \in Replicas PROVE Covers(q)'
  <2>1. \A other \in Rows : /\ Used(other)' => Used(other)
                            /\ Past(q, other)' <=> Past(q, other)
                            /\ Copied(q, other)' <=> Copied(q, other)
    BY <1>1, <1>2, <1>3 DEF Used, Past, Copied
  <2>2. Covers(q)
    BY DEF IInv
  <2> QED
    BY <1>1, <1>3, <2>1, <2>2 DEF Covers, Committed
<1>5. WrittenIsLive' /\ DeliveredIsLive'
  BY <1>1, <1>2, <1>3 DEF IInv, WrittenIsLive, DeliveredIsLive, Live
<1> QED
  BY <1>4, <1>5 DEF StaysCovered

\* A rebuild that is about to move the alias has gone past everything.
LEMMA CopiedAtSwitch ==
  ASSUME IInv, NEW r \in Replicas, step[r] = "switch", alias = "old",
         NEW row \in Committed, Used(row), DocumentOf[row] \notin archived
  PROVE  index["new"][DocumentOf[row]] >= VersionOf[row] \/ row \in overlooked
<1>1. items[r] = {} /\ Past(r, row)
  BY DEF IInv, TypeOK, Past
<1>2. Copied(r, row) \/ row \in overlooked
  BY <1>1 DEF IInv, Covers
<1> QED
  BY <1>1, <1>2, NothingToDo DEF Committed

\* The new index shows what is delivered and what is written when the alias moves.
LEMMA SwitchAliasCovers ==
  ASSUME IInv, NEW r \in Replicas, SwitchAlias(r)
  PROVE  StaysCovered
<1>1. /\ step[r] = "switch" /\ alias' = "new" /\ Leave(r, "serve")
      /\ UNCHANGED <<archived, phase, index, written, overlooked>>
  BY DEF SwitchAlias, storeVars, rolloutVars
<1>2. ASSUME NEW q \in Replicas PROVE Covers(q)'
  <2>1. Covers(q)
    BY DEF IInv
  <2>2. CASE q = r
    BY <1>1, <2>2 DEF Leave, Covers, IInv, TypeOK
  <2>3. CASE q # r
    BY <1>1, <2>1, <2>3 DEF Leave, Covers, IInv, TypeOK
  <2> QED
    BY <2>2, <2>3
<1>3. ASSUME NEW row \in Committed, Used(row),
             Live(row) \/ DocumentOf[row] \in archived \/ row \in overlooked
      PROVE  Live(row)' \/ DocumentOf[row] \in archived \/ row \in overlooked
  <2>1. CASE alias = "old"
    BY <1>1, <1>3, <2>1, CopiedAtSwitch DEF Live
  <2>2. CASE alias = "new"
    BY <1>1, <1>3, <2>2 DEF Live
  <2> QED
    BY <2>1, <2>2 DEF IInv, TypeOK, Indexes
<1>4. WrittenIsLive'
  <2> SUFFICES ASSUME NEW q \in Replicas, NEW row \in written[q]
               PROVE  Live(row)' \/ DocumentOf[row] \in archived' \/ row \in overlooked'
    BY <1>1 DEF WrittenIsLive
  <2>1. row \in Committed /\ Used(row)
    BY DEF IInv, CommittedInOrder, Used
  <2> QED
    BY <1>1, <1>3, <2>1 DEF IInv, WrittenIsLive
<1>5. DeliveredIsLive'
  <2> SUFFICES ASSUME NEW row \in Rows, phase[row] = "delivered"
               PROVE  Live(row)' \/ DocumentOf[row] \in archived' \/ row \in overlooked'
    BY <1>1 DEF DeliveredIsLive
  <2>1. row \in Committed /\ Used(row)
    BY DEF Committed, Used
  <2> QED
    BY <1>1, <1>3, <2>1 DEF IInv, DeliveredIsLive
<1> QED
  BY <1>2, <1>4, <1>5 DEF StaysCovered

\* What an upgrade finds delivered the old index shows, and no rebuild has begun.
LEMMA InitIInv == Init => IInv
<1> SUFFICES ASSUME Init PROVE IInv
  OBVIOUS
<1>1. TypeOK /\ CommittedInOrder /\ StoreIsAhead
  BY TypeInit, InitAhead
<1>2. ASSUME NEW r \in Replicas PROVE Covers(r)
  BY DEF Init, Covers, Past
<1>3. DeliveredIsLive
  <2> SUFFICES ASSUME NEW row \in Rows, phase[row] = "delivered" PROVE Live(row)
    BY DEF DeliveredIsLive
  <2>1. PICK applied \in SUBSET Committed, old \in [Documents -> Versions] :
          /\ {x \in Rows : phase[x] = "delivered"} \subseteq applied
          /\ \A d \in Documents : IsNewest(old[d], RowsOf(d) \intersect applied)
          /\ index = [i \in Indexes |-> IF i = "new" THEN [d \in Documents |-> 0] ELSE old]
    BY DEF Init
  <2>2. DocumentOf[row] \in Documents /\ row \in RowsOf(DocumentOf[row]) \intersect applied
    BY <2>1, Constants DEF RowsOf
  <2>3. VersionOf[row] <= old[DocumentOf[row]]
    BY <2>1, <2>2 DEF IsNewest
  <2>4. index[alias] = old
    BY <2>1 DEF Init, Indexes
  <2>5. VersionOf[row] \in Nat /\ old[DocumentOf[row]] \in Nat
    BY <2>1, <2>2, Constants
  <2> QED
    BY <2>3, <2>4, <2>5 DEF Live
<1>4. WrittenIsLive
  BY DEF Init, WrittenIsLive
<1> QED
  BY <1>1, <1>2, <1>3, <1>4 DEF IInv

\* Every step keeps the invariant.
LEMMA NextIInv == IInv /\ [Next]_vars => IInv'
<1> SUFFICES ASSUME IInv, [Next]_vars PROVE IInv'
  OBVIOUS
<1>1. TypeOK' /\ CommittedInOrder' /\ StoreIsAhead'
  BY NextType, NextAhead DEF IInv
<1>2. ASSUME NEW r \in Replicas, Rebuild(r) PROVE StaysCovered
  BY <1>1, <1>2, BeginCovers, ScanAuthoritativeCovers, ScanHistoryCovers, ProjectVersionCovers,
     ValidateVersionCovers, CheckWatermarkCovers, CountCovers, SwitchAliasCovers
  DEF Rebuild
<1>3. ASSUME UNCHANGED vars PROVE StaysCovered
  <2>1. UNCHANGED <<archived, phase, index, alias, step, todo, cursor, checkpoint, highWatermark,
                    written, overlooked>>
    BY <1>3 DEF vars, storeVars, sinkVars, rebuildVars, attemptVars, batchVars, rolloutVars
  <2>2. ASSUME NEW r \in Replicas PROVE Covers(r)'
    <3>1. \A row \in Rows : /\ Used(row)' <=> Used(row)
                            /\ Past(r, row)' <=> Past(r, row)
                            /\ Copied(r, row)' <=> Copied(r, row)
      BY <2>1 DEF Used, Past, Copied
    <3>2. Covers(r)
      BY DEF IInv
    <3> QED
      BY <2>1, <3>1, <3>2 DEF Covers, Committed
  <2>3. WrittenIsLive' /\ DeliveredIsLive'
    BY <2>1 DEF IInv, WrittenIsLive, DeliveredIsLive, Live
  <2> QED
    BY <2>2, <2>3 DEF StaysCovered
<1>4. ASSUME NEW row \in Rows, AppendProjection(row) PROVE StaysCovered
  BY <1>4, AppendCovers
<1>5. ASSUME NEW d \in Archivable, Purge(d) PROVE StaysCovered
  BY <1>5, PurgeCovers
<1>6. ASSUME NEW r \in Replicas, Restart(r) \/ Replace(r) PROVE StaysCovered
  BY <1>6, RestartCovers
<1>7. ASSUME NEW r \in Replicas, NEW row \in Rows, Project(r, row) \/ MarkDelivered(r, row)
      PROVE  StaysCovered
  BY <1>1, <1>7, ProjectCovers, MarkDeliveredCovers
<1>8. StaysCovered
  BY <1>2, <1>3, <1>4, <1>5, <1>6, <1>7 DEF Next
<1> QED
  BY <1>1, <1>8 DEF IInv, StaysCovered

-----------------------------------------------------------------------------
(* Refinement.                                                             *)

\* What is archived or overlooked stays so, and but for the switch of the alias the
\* index that readers find only grows.
LEMMA StepGrows ==
  ASSUME IInv, [Next]_vars
  PROVE  /\ overlooked \subseteq overlooked' /\ archived \subseteq archived'
         /\ \/ \E r \in Replicas : SwitchAlias(r)
            \/ alias' = alias /\ \A d \in Documents : index'[alias][d] >= index[alias][d]
<1>1. TypeOK'
  BY NextType DEF IInv
<1>2. ASSUME index' = index, alias' = alias
      PROVE  alias' = alias /\ \A d \in Documents : index'[alias][d] >= index[alias][d]
  <2>1. alias \in Indexes /\ \A d \in Documents : index[alias][d] \in Nat
    BY NumbersAreNat DEF IInv, TypeOK
  <2> QED
    BY <1>2, <2>1
<1>3. ASSUME NEW r \in Replicas, Rebuild(r)
      PROVE  /\ UNCHANGED <<overlooked, archived>>
             /\ \/ SwitchAlias(r)
                \/ ProjectVersion(r) /\ alias' = alias
                \/ UNCHANGED <<index, alias>>
  <2>1. CASE Begin(r) \/ ScanAuthoritativeProjection(r) \/ ScanProjectionHistory(r)
    BY <2>1
    DEF Begin, ScanAuthoritativeProjection, ScanProjectionHistory, storeVars, sinkVars, rolloutVars
  <2>2. CASE ProjectVersion(r)
    BY <2>2 DEF ProjectVersion, storeVars, rolloutVars
  <2>3. CASE SwitchAlias(r)
    BY <2>3 DEF SwitchAlias, storeVars, rolloutVars
  <2>4. CASE ValidateVersion(r) \/ CountVersion(r)
    BY <2>4 DEF ValidateVersion, CountVersion, storeVars, sinkVars, rolloutVars
  <2>5. CASE CheckWatermark(r) \/ CountAuthoritativeProjection(r)
    BY <2>5 DEF CheckWatermark, CountAuthoritativeProjection, storeVars, sinkVars, rolloutVars
  <2> QED
    BY <1>3, <2>1, <2>2, <2>3, <2>4, <2>5 DEF Rebuild
<1>4. ASSUME NEW r \in Replicas, NEW row \in Rows, Project(r, row)
      PROVE  overlooked \subseteq overlooked' /\ archived' = archived /\ alias' = alias
  BY <1>4 DEF Project, Overlook, storeVars
<1>5. ASSUME \/ \E row \in Rows : AppendProjection(row) \/ \E r \in Replicas : MarkDelivered(r, row)
             \/ \E d \in Archivable : Purge(d)
             \/ \E r \in Replicas : Restart(r) \/ Replace(r)
             \/ UNCHANGED vars
      PROVE  /\ overlooked' = overlooked /\ archived \subseteq archived'
             /\ UNCHANGED <<index, alias>>
  BY <1>5
  DEF AppendProjection, MarkDelivered, Purge, Restart, Replace, vars, storeVars, sinkVars,
      rolloutVars
<1> QED
  BY <1>1, <1>2, <1>3, <1>4, <1>5, ProjectVersionCovers, ProjectCovers DEF Next

\* A reader who counts in what was overlooked finds each version he found, or a newer one.
LEMMA SeenGrows ==
  ASSUME IInv, IInv', [Next]_vars, NEW d \in Documents \ archived, NEW v \in Seen(d)
  PROVE  \E w \in Seen(d)' : v <= w
<1>1. /\ \A row \in Rows : VersionOf[row] \in Nat
      /\ alias \in Indexes /\ alias' \in Indexes
      /\ \A i \in Indexes : index[i][d] \in Nat /\ index'[i][d] \in Nat
  <2>1. \A i \in Indexes : index[i][d] \in Versions /\ index'[i][d] \in Versions
    BY DEF IInv, TypeOK
  <2> QED
    BY <2>1, Constants DEF IInv, TypeOK
<1>2. ASSUME NEW row \in overlooked, DocumentOf[row] = d
      PROVE  \E w \in Seen(d)' : VersionOf[row] <= w
  <2>1. row \in overlooked' /\ VersionOf[row] \in Nat
    BY <1>1, StepGrows DEF IInv, TypeOK
  <2> QED
    BY <1>2, <2>1 DEF Seen
<1>3. CASE v = index[alias][d]
  <2>1. CASE alias' = alias /\ index'[alias][d] >= index[alias][d]
    BY <1>1, <1>3, <2>1 DEF Seen
  <2>2. ASSUME NEW r \in Replicas, SwitchAlias(r) PROVE \E w \in Seen(d)' : v <= w
    <3>1. step[r] = "switch" /\ index' = index /\ alias' = "new"
      BY <2>2 DEF SwitchAlias
    <3>2. CASE alias = "new"
      BY <1>1, <1>3, <3>1, <3>2 DEF Seen
    <3>3. CASE alias = "old" /\ v = 0
      BY <1>1, <3>1, <3>3 DEF Seen
    <3>4. CASE alias = "old" /\ v # 0
      <4>1. PICK row \in Committed : DocumentOf[row] = d /\ VersionOf[row] = index["old"][d]
        BY <1>1, <1>3, <3>4 DEF IInv, StoreIsAhead, ComesFromStore
      <4>2. index["new"][d] >= VersionOf[row] \/ row \in overlooked
        BY <3>1, <3>4, <4>1, CopiedAtSwitch DEF Used
      <4> QED
        BY <1>1, <1>2, <1>3, <3>1, <3>4, <4>1, <4>2 DEF Seen, Committed
    <3> QED
      BY <1>1, <3>2, <3>3, <3>4 DEF Indexes
  <2> QED
    BY <2>1, <2>2, StepGrows
<1> QED
  BY <1>2, <1>3 DEF Seen

\* Of what was overlooked of a document, the row with the highest number has the
\* newest version.
LEMMA NewestIsSeen ==
  ASSUME TypeOK, NEW d \in Documents
  PROVE  /\ \A v \in Seen(d) : v \in Nat
         /\ Newest(d) \in Seen(d) /\ \A v \in Seen(d) : v <= Newest(d)
<1> DEFINE missed == {x \in overlooked : DocumentOf[x] = d}
<1>1. /\ index[alias][d] \in Nat
      /\ missed \in SUBSET Rows /\ missed \in SUBSET Nat /\ IsFiniteSet(missed)
  <2>1. missed \in SUBSET Rows /\ IsFiniteSet(Rows) /\ Rows \subseteq Nat
    BY RebuildAssumption DEF TypeOK
  <2>2. IsFiniteSet(missed)
    BY <2>1, FS_Subset
  <2> QED
    BY <2>1, <2>2, NumbersAreNat DEF TypeOK
<1>2. \A v \in Seen(d) : v \in Nat
  BY <1>1, Constants DEF Seen
<1>3. \E v \in Seen(d) : \A w \in Seen(d) : w <= v
  <2>1. CASE missed = {}
    BY <1>1, <2>1 DEF Seen
  <2>2. CASE missed # {}
    <3>1. PICK last \in missed : \A row \in missed : row <= last
      BY <1>1, <2>2, HasGreatest
    <3>2. \A row \in missed : VersionOf[row] <= VersionOf[last]
      <4> SUFFICES ASSUME NEW row \in missed PROVE VersionOf[row] <= VersionOf[last]
        OBVIOUS
      <4>1. row \in Rows /\ last \in Rows /\ VersionOf[row] \in Nat /\ VersionOf[last] \in Nat
        BY <1>1, Constants
      <4>2. row \in Nat /\ last \in Nat /\ row <= last
        BY <1>1, <3>1
      <4>3. last < row <=> VersionOf[last] < VersionOf[row]
        BY <4>1, RebuildAssumption
      <4> QED
        BY <4>1, <4>2, <4>3
    <3>3. VersionOf[last] \in Nat /\ VersionOf[last] \in Seen(d)
      BY <1>1, Constants DEF Seen
    <3>4. \A w \in Seen(d) : w = index[alias][d] \/ w <= VersionOf[last]
      BY <3>2 DEF Seen
    <3>5. index[alias][d] \in Seen(d)
      BY DEF Seen
    <3> HIDE DEF missed
    <3>6. CASE index[alias][d] <= VersionOf[last]
      BY <3>3, <3>4, <3>6
    <3>7. CASE ~(index[alias][d] <= VersionOf[last])
      BY <1>1, <1>2, <3>3, <3>4, <3>5, <3>7
    <3> QED
      BY <3>6, <3>7
  <2> QED
    BY <2>1, <2>2
<1> QED
  BY <1>2, <1>3 DEF Newest

\* Readers find committed versions only, and none that the store is behind.
ShownIsKnown ==
  /\ Shown \in [Documents -> Nat]
  /\ \A d \in Documents : ComesFromStore(d, Shown[d])
  /\ \A d \in Documents : \A v \in Seen(d) : v \in Nat /\ v <= Shown[d]

\* Both indexes, what was overlooked and the authoritative rows come from the store.
LEMMA KnownIsShown == IInv => ShownIsKnown
<1> SUFFICES ASSUME IInv PROVE ShownIsKnown
  OBVIOUS
<1>1. ASSUME NEW d \in Documents
      PROVE  Shown[d] \in Nat /\ ComesFromStore(d, Shown[d]) /\ \A v \in Seen(d) : v \in Nat /\ v <= Shown[d]
  <2>1. authority[d] \in Nat /\ ComesFromStore(d, authority[d])
    BY NumbersAreNat DEF IInv, CommittedInOrder
  <2>2. /\ \A v \in Seen(d) : v \in Nat
        /\ Newest(d) \in Seen(d) /\ \A v \in Seen(d) : v <= Newest(d)
    BY NewestIsSeen DEF IInv
  <2>3. ASSUME NEW v \in Seen(d) PROVE ComesFromStore(d, v)
    <3>1. CASE v = index[alias][d]
      BY <3>1 DEF IInv, TypeOK, StoreIsAhead
    <3>2. ASSUME NEW row \in overlooked, DocumentOf[row] = d, v = VersionOf[row]
          PROVE  ComesFromStore(d, v)
      BY <3>2 DEF IInv, CommittedInOrder, ComesFromStore
    <3> QED
      BY <3>1, <3>2 DEF Seen
  <2>4. ASSUME NEW v \in Seen(d) PROVE v <= authority[d]
    <3>1. CASE v = 0
      BY <2>1, <3>1
    <3>2. CASE v # 0
      BY <2>3, <3>2 DEF IInv, StoreIsAhead, ComesFromStore
    <3> QED
      BY <3>1, <3>2
  <2>5. Shown[d] = IF d \in archived THEN authority[d] ELSE Newest(d)
    BY DEF Shown
  <2> QED
    BY <2>1, <2>2, <2>3, <2>4, <2>5
<1> QED
  BY <1>1 DEF Shown, ShownIsKnown

\* A row that is committed is due, and readers find no other version.
LEMMA CommitRefines ==
  ASSUME IInv, NEW row \in Rows, AppendProjection(row)
  PROVE  Delivery!Next
<1>1. /\ phase[row] = "absent" /\ phase' = [phase EXCEPT ![row] = "due"]
      /\ DocumentOf[row] \notin archived
      /\ authority' = [authority EXCEPT ![DocumentOf[row]] = VersionOf[row]]
      /\ UNCHANGED <<archived, index, alias, overlooked>>
  BY DEF AppendProjection, sinkVars, rolloutVars
<1>2. \A d \in archived : authority'[d] = authority[d]
  BY <1>1 DEF IInv, TypeOK
<1>3. Shown' = Shown
  BY <1>1, <1>2 DEF Shown, Newest, Seen
<1> QED
  BY <1>1, <1>3 DEF Delivery!Next, Delivery!Commit

\* A row that is marked was due, and readers find it, or it was marked before.
LEMMA MarkRefines ==
  ASSUME IInv, NEW r \in Replicas, NEW row \in Rows, MarkDelivered(r, row)
  PROVE  [Delivery!Next]_Delivery!vars
<1>1. /\ row \in written[r] /\ phase' = [phase EXCEPT ![row] = "delivered"]
      /\ UNCHANGED <<authority, archived, index, alias, overlooked>>
  BY DEF MarkDelivered, sinkVars, rolloutVars
<1>2. Shown' = Shown
  BY <1>1 DEF Shown, Newest, Seen
<1>3. row \in Committed /\ (Live(row) \/ DocumentOf[row] \in archived \/ row \in overlooked)
  BY <1>1 DEF IInv, WrittenIsLive, CommittedInOrder
<1>4. Shown[DocumentOf[row]] >= VersionOf[row]
  <2>1. DocumentOf[row] \in Documents /\ VersionOf[row] \in Nat
    BY Constants
  <2>2. ShownIsKnown
    BY KnownIsShown
  <2>3. CASE DocumentOf[row] \in archived
    BY <1>3, <2>1, <2>3 DEF Shown, IInv, StoreIsAhead
  <2>4. CASE row \in overlooked
    <3>1. VersionOf[row] \in Seen(DocumentOf[row])
      BY <2>4 DEF Seen
    <3> QED
      BY <2>1, <2>2, <3>1 DEF ShownIsKnown
  <2>5. CASE Live(row)
    <3>1. index[alias][DocumentOf[row]] \in Seen(DocumentOf[row])
      BY DEF Seen
    <3>2. /\ index[alias][DocumentOf[row]] \in Nat /\ Shown[DocumentOf[row]] \in Nat
          /\ index[alias][DocumentOf[row]] <= Shown[DocumentOf[row]]
      BY <2>1, <2>2, <3>1 DEF ShownIsKnown
    <3> QED
      BY <2>1, <2>5, <3>2 DEF Live
  <2> QED
    BY <1>3, <2>3, <2>4, <2>5
<1>5. CASE phase[row] = "due"
  BY <1>1, <1>2, <1>4, <1>5 DEF Delivery!Next, Delivery!Deliver
<1>6. CASE phase[row] = "delivered"
  <2>1. phase' = phase
    BY <1>1, <1>6 DEF IInv, TypeOK
  <2> QED
    BY <1>2, <2>1 DEF Delivery!vars
<1> QED
  BY <1>3, <1>5, <1>6 DEF IInv, TypeOK, Committed

\* Whatever else happens readers go from committed versions to newer ones.
LEMMA SilentStepRefines ==
  ASSUME IInv, [Next]_vars, UNCHANGED <<authority, phase>>
  PROVE  [Delivery!Next]_Delivery!vars
<1>1. IInv'
  BY NextIInv
<1>2. ShownIsKnown
  BY KnownIsShown
<1>3. ShownIsKnown'
  BY <1>1, KnownIsShown, PTL
<1>4. archived \subseteq archived'
  BY StepGrows
<1>5. ASSUME NEW d \in Documents PROVE Shown'[d] >= Shown[d] /\ Delivery!Known(d, Shown'[d])
  <2>1. /\ Shown[d] = IF d \in archived THEN authority[d] ELSE Newest(d)
        /\ Shown'[d] = IF d \in archived' THEN authority[d] ELSE Newest(d)'
        /\ Shown[d] \in Nat /\ Shown'[d] \in Nat
    BY <1>2, <1>3 DEF Shown, ShownIsKnown
  <2>2. Shown'[d] >= Shown[d]
    <3>1. CASE d \in archived
      BY <1>4, <2>1, <3>1
    <3>2. CASE d \notin archived /\ d \in archived'
      <4>1. ComesFromStore(d, Shown[d]) /\ authority[d] \in Nat
        BY <1>2, NumbersAreNat DEF ShownIsKnown, IInv
      <4>2. Shown[d] <= authority[d]
        BY <4>1 DEF IInv, StoreIsAhead, ComesFromStore
      <4> QED
        BY <2>1, <3>2, <4>1, <4>2
    <3>3. CASE d \notin archived /\ d \notin archived'
      <4>1. Shown[d] \in Seen(d)
        BY <2>1, <3>3, NewestIsSeen DEF IInv
      <4>2. PICK w \in Seen(d)' : Shown[d] <= w
        BY <1>1, <3>3, <4>1, SeenGrows
      <4>3. w \in Nat /\ w <= Shown'[d]
        BY <1>3, <4>2 DEF ShownIsKnown
      <4> QED
        BY <2>1, <4>2, <4>3
    <3> QED
      BY <1>4, <3>1, <3>2, <3>3
  <2>3. ComesFromStore(d, Shown[d])'
    BY <1>3 DEF ShownIsKnown
  <2> QED
    BY <2>2, <2>3 DEF ComesFromStore, Committed, Delivery!Known
<1>6. Delivery!Apply
  <2>1. Shown' \in [Documents -> Nat] /\ \A d \in Documents : Shown[d] \in Nat /\ Shown'[d] \in Nat
    BY <1>2, <1>3 DEF ShownIsKnown
  <2>2. \A d \in Documents : Shown'[d] = Shown[d] \/ Shown'[d] > Shown[d]
    BY <1>5, <2>1
  <2> QED
    BY <1>5, <2>1, <2>2 DEF Delivery!Apply
<1> QED
  BY <1>6 DEF Delivery!Next

\* What an upgrade finds keeps the promise.
LEMMA InitRefines == Init => Delivery!Init
<1> SUFFICES ASSUME Init PROVE Delivery!Init
  OBVIOUS
<1>1. IInv
  BY InitIInv
<1>2. ShownIsKnown
  BY <1>1, KnownIsShown
<1>3. \A d \in Documents : Delivery!Known(d, Shown[d])
  BY <1>2 DEF ShownIsKnown, ComesFromStore, Committed, Delivery!Known
<1>4. ASSUME NEW row \in Rows, phase[row] = "delivered"
      PROVE  Shown[DocumentOf[row]] >= VersionOf[row]
  <2>1. Live(row) /\ DocumentOf[row] \in Documents /\ VersionOf[row] \in Nat
    BY <1>1, <1>4, Constants DEF Init, IInv, DeliveredIsLive
  <2>2. index[alias][DocumentOf[row]] \in Seen(DocumentOf[row])
    BY DEF Seen
  <2>3. /\ index[alias][DocumentOf[row]] \in Nat /\ Shown[DocumentOf[row]] \in Nat
        /\ index[alias][DocumentOf[row]] <= Shown[DocumentOf[row]]
    BY <1>2, <2>1, <2>2 DEF ShownIsKnown
  <2> QED
    BY <2>1, <2>3 DEF Live
<1>5. phase \in [Rows -> {"absent", "due", "delivered", "dead"}]
  BY DEF Init
<1> QED
  BY <1>2, <1>3, <1>4, <1>5 DEF Delivery!Init, ShownIsKnown

\* Every step of the rebuild, its workers and the archive is one of the promise.
LEMMA NextRefines ==
  ASSUME IInv, [Next]_vars
  PROVE  [Delivery!Next]_Delivery!vars
<1>1. ASSUME NEW row \in Rows, AppendProjection(row) PROVE Delivery!Next
  BY <1>1, CommitRefines
<1>2. ASSUME NEW r \in Replicas, NEW row \in Rows, MarkDelivered(r, row)
      PROVE  [Delivery!Next]_Delivery!vars
  BY <1>2, MarkRefines
<1>3. ASSUME UNCHANGED <<authority, phase>> PROVE [Delivery!Next]_Delivery!vars
  BY <1>3, SilentStepRefines
<1>4. ASSUME NEW d \in Archivable, Purge(d) PROVE UNCHANGED <<authority, phase>>
  BY <1>4 DEF Purge
<1>5. ASSUME NEW r \in Replicas, Rebuild(r) \/ Restart(r) \/ Replace(r)
      PROVE  UNCHANGED <<authority, phase>>
  BY <1>5
  DEF Rebuild, Begin, ScanAuthoritativeProjection, ScanProjectionHistory, ProjectVersion,
      ValidateVersion, CheckWatermark, CountAuthoritativeProjection, CountVersion, SwitchAlias,
      Restart, Replace, storeVars
<1>6. ASSUME NEW r \in Replicas, NEW row \in Rows, Project(r, row) PROVE UNCHANGED <<authority, phase>>
  BY <1>6 DEF Project, storeVars
<1>7. CASE UNCHANGED vars
  BY <1>3, <1>7 DEF vars, storeVars
<1> QED
  BY <1>1, <1>2, <1>3, <1>4, <1>5, <1>6, <1>7 DEF Next

-----------------------------------------------------------------------------
(* The theorems.                                                           *)

\* Every variable has its type: a scanned watermark is an outbox id, no count exceeds
\* the number of documents, and only a snapshot or a history holds a batch.
THEOREM TypeCorrect == Spec => []TypeOK
  BY TypeInit, NextType, PTL DEF Spec

\* IInv holds in every state, whatever replicas of the old release serve and whenever
\* they are replaced.
THEOREM Invariance == Spec => []IInv
  BY InitIInv, NextIInv, PTL DEF Spec

\* Whatever rebuilds fail, race or start over, in a rolling update too, readers see
\* every row that the outbox counts as delivered, unless its document is archived or
\* a worker wrote it to the old index behind a rebuild's back.
THEOREM RebuildLosesNothing == Spec => []DeliveredIsLive
<1>1. IInv => DeliveredIsLive
  BY DEF IInv
<1> QED
  BY <1>1, Invariance, PTL

\* No index shows, and no rebuild is about to write, a version that was not committed.
THEOREM Provenance == Spec => []StoreIsAhead
<1>1. IInv => StoreIsAhead
  BY DEF IInv
<1> QED
  BY <1>1, Invariance, PTL

\* But for what was overlooked readers do not notice the rebuild: with the switch of
\* the alias in it, it is a behaviour of the promise that the pipeline keeps on one
\* index.
THEOREM RebuildKeepsPromise == Spec => DeliveryPromise
<1>1. Init => Delivery!Init
  BY InitRefines
<1>2. IInv /\ [Next]_vars => [Delivery!Next]_Delivery!vars
  BY NextRefines
<1> QED
  BY <1>1, <1>2, Invariance, PTL DEF Spec, DeliveryPromise, Delivery!Spec

\* Until the alias moves no replica has a worker but those of the old release.
OnlyOldServe == alias = "old" => \A r \in Replicas : step[r] = "serve" => r \in older

\* A replica starts its worker by moving the alias.
LEMMA NextOnlyOldServe == TypeOK /\ OnlyOldServe /\ [Next]_vars => OnlyOldServe'
<1> SUFFICES ASSUME TypeOK, OnlyOldServe, [Next]_vars PROVE OnlyOldServe'
  OBVIOUS
\* The steps that start no worker and replace no replica.
<1>1. ASSUME NEW r \in Replicas, NEW to, to # "serve", UNCHANGED <<alias, older>>,
             step' = [step EXCEPT ![r] = to]
      PROVE  OnlyOldServe'
  BY <1>1 DEF TypeOK, OnlyOldServe
<1>2. ASSUME UNCHANGED <<alias, older, step>> PROVE OnlyOldServe'
  BY <1>2 DEF OnlyOldServe
<1>3. ASSUME NEW r \in Replicas, Rebuild(r) PROVE OnlyOldServe'
  <2>1. CASE SwitchAlias(r)
    BY <2>1 DEF SwitchAlias, OnlyOldServe
  <2>2. CASE Begin(r) \/ CheckWatermark(r) \/ CountAuthoritativeProjection(r)
    <3>1. UNCHANGED <<alias, older>>
      BY <2>2
      DEF Begin, CheckWatermark, CountAuthoritativeProjection, sinkVars, rolloutVars
    <3>2. \E to \in Steps \ {"serve"} : step' = [step EXCEPT ![r] = to]
      BY <2>2 DEF Begin, CheckWatermark, Continue, CountAuthoritativeProjection, Steps
    <3> QED
      BY <1>1, <3>1, <3>2
  <2>3. CASE ScanAuthoritativeProjection(r) \/ ScanProjectionHistory(r) \/ ProjectVersion(r)
    <3>1. UNCHANGED <<alias, older>>
      BY <2>3
      DEF ScanAuthoritativeProjection, ScanProjectionHistory, ProjectVersion, sinkVars, rolloutVars
    <3>2. UNCHANGED step \/ step' = [step EXCEPT ![r] = "history"]
      BY <2>3 DEF ScanAuthoritativeProjection, ScanProjectionHistory, ProjectVersion
    <3> QED
      BY <1>1, <1>2, <3>1, <3>2
  <2>4. CASE ValidateVersion(r) \/ CountVersion(r)
    <3>1. UNCHANGED <<alias, older>>
      BY <2>4 DEF ValidateVersion, CountVersion, sinkVars, rolloutVars
    <3>2. \/ UNCHANGED step \/ step' = [step EXCEPT ![r] = "begin"]
          \/ step' = [step EXCEPT ![r] = "recheck"]
      BY <2>4 DEF ValidateVersion, CountVersion, Leave
    <3> QED
      BY <1>1, <1>2, <3>1, <3>2
  <2> QED
    BY <1>3, <2>1, <2>2, <2>3, <2>4 DEF Rebuild
<1>4. ASSUME NEW r \in Replicas, Restart(r) PROVE OnlyOldServe'
  <2>1. UNCHANGED <<alias, older>>
    BY <1>4 DEF Restart, sinkVars
  <2>2. UNCHANGED step \/ step' = [step EXCEPT ![r] = "begin"]
    BY <1>4 DEF Restart, Leave, rebuildVars
  <2> QED
    BY <1>1, <1>2, <2>1, <2>2
<1>5. ASSUME NEW r \in Replicas, Replace(r) PROVE OnlyOldServe'
  BY <1>5 DEF Replace, Leave, sinkVars, TypeOK, OnlyOldServe
<1>6. ASSUME \/ \E row \in Rows : AppendProjection(row)
             \/ \E d \in Archivable : Purge(d)
             \/ \E r \in Replicas, row \in Rows : Project(r, row) \/ MarkDelivered(r, row)
             \/ UNCHANGED vars
      PROVE  OnlyOldServe'
  BY <1>2, <1>6
  DEF AppendProjection, Purge, Project, MarkDelivered, vars, sinkVars, rebuildVars, rolloutVars
<1> QED
  BY <1>3, <1>4, <1>5, <1>6 DEF Next

\* Nobody but a replica of the old release makes a rebuild overlook a row: nothing is
\* overlooked once the rollout is over, and nothing at all when the old release is
\* stopped before the new one starts.
THEOREM OnlyOldWorkersOverlook == Spec => [][overlooked' # overlooked => older # {}]_vars
<1>1. Init => OnlyOldServe
  BY DEF Init, OnlyOldServe
<1>2. TypeOK /\ OnlyOldServe /\ [Next]_vars => (overlooked' # overlooked => older # {})
  <2> SUFFICES ASSUME OnlyOldServe, [Next]_vars, overlooked' # overlooked PROVE older # {}
    OBVIOUS
  <2>1. ASSUME NEW r \in Replicas, NEW row \in Rows, Project(r, row) PROVE older # {}
    BY <2>1 DEF Project, Overlook, OnlyOldServe
  <2>2. ~(\E r \in Replicas : Rebuild(r))
    BY DEF Rebuild, Begin, ScanAuthoritativeProjection, ScanProjectionHistory, ProjectVersion,
           ValidateVersion, CheckWatermark, CountAuthoritativeProjection, CountVersion,
           SwitchAlias, rolloutVars
  <2>3. /\ \A row \in Rows : ~AppendProjection(row) /\ \A r \in Replicas : ~MarkDelivered(r, row)
        /\ \A d \in Archivable : ~Purge(d)
        /\ \A r \in Replicas : ~Restart(r) /\ ~Replace(r)
    BY DEF AppendProjection, MarkDelivered, Purge, Restart, Replace, rolloutVars
  <2>4. ~UNCHANGED vars
    BY DEF vars, rolloutVars
  <2> QED
    BY <2>1, <2>2, <2>3, <2>4 DEF Next
<1> QED
  BY <1>1, <1>2, NextOnlyOldServe, TypeCorrect, PTL DEF Spec
=============================================================================
