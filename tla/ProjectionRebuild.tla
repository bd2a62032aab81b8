-------------------------- MODULE ProjectionRebuild --------------------------
(***************************************************************************)
(* Rebuilding the OpenSearch projection into a new index while rows are    *)
(* committed and delivered.  A replica that is configured to rebuild       *)
(* copies the authoritative state, catches up with the outbox, validates   *)
(* and counts, and moves the alias; it tries again until it succeeds, and  *)
(* only then runs its projection worker.  Workers write through the alias. *)
(* Meanwhile trace archiving may delete the rows of a finished interaction *)
(* from the database; no index loses its documents.                        *)
(*                                                                         *)
(* In a rolling update replicas of the release before, which does not      *)
(* rebuild, still serve: a worker of theirs writes the old index until the *)
(* alias moves, and the rebuild does not know what it writes there.        *)
(*                                                                         *)
(* A worker is reduced to what ProjectionDelivery promises of it: it       *)
(* writes a row that is due, then marks it.  The number of an outbox row   *)
(* is assigned when the row is inserted, so rows become visible in any     *)
(* order, but those of one document in the order of its versions.          *)
(*                                                                         *)
(* Left out: rows the rebuild skips because they are notices for other     *)
(* consumers, the checkpoint table (it is written and never read), and     *)
(* the contents of documents beyond their version.  Variables of a rebuild *)
(* are reset where the code does not read them any more.                   *)
(***************************************************************************)
EXTENDS Integers, FiniteSets

CONSTANTS
  Rows,         \* outbox ids
  Documents,    \* projected aggregates, numbered in the order they are scanned
  DocumentOf,   \* the document a row projects
  VersionOf,    \* aggregate_version of a row
  Replicas,     \* processes
  Serving,      \* those that may be of the release before, and serve already
  Archivable,   \* documents of interactions that trace archiving may purge
  BatchSize,    \* Options.BatchSize
  MaxRestarts   \* bound: rebuilds and workers that fail, crash or are replaced

ASSUME RebuildAssumption ==
  /\ Rows \subseteq Nat \ {0} /\ IsFiniteSet(Rows)
  /\ Documents \subseteq Nat \ {0} /\ IsFiniteSet(Documents)
  /\ DocumentOf \in [Rows -> Documents] /\ VersionOf \in [Rows -> Nat \ {0}]
  /\ \A row, other \in Rows :
       DocumentOf[row] = DocumentOf[other]
         => (row < other <=> VersionOf[row] < VersionOf[other])
  /\ Serving \subseteq Replicas /\ Archivable \subseteq Documents
  /\ BatchSize \in Nat \ {0} /\ MaxRestarts \in Nat

VARIABLES
  authority,  \* version in the authoritative row of each document, or 0
  archived,   \* documents whose authoritative row was deleted, with this last version
  phase,      \* outbox row: "absent" until committed, then "due" or "delivered"
  index,      \* version of each document in the old and the new index, or 0
  alias,      \* the index readers and workers use
  step,       \* what a replica is at
  items,      \* the batch a rebuild is at: documents with the versions read
  todo,       \* those of them that are still to be projected
  cursor,     \* the last document scanned
  checkpoint, \* the last outbox row caught up with
  highWatermark,
  expected,   \* the number of documents counted in the database
  written,    \* rows a worker wrote and has not marked yet
  older,      \* replicas that are of the release before, which does not rebuild
  overlooked, \* history: rows written to the old index behind a rebuild's back
  restarts

storeVars == <<authority, archived, phase>>
sinkVars == <<index, alias>>
batchVars == <<items, todo>>
attemptVars == <<batchVars, cursor, checkpoint, highWatermark, expected>>
rebuildVars == <<step, attemptVars>>
rolloutVars == <<older, overlooked, restarts>>
vars == <<storeVars, sinkVars, rebuildVars, written, rolloutVars>>

Indexes == {"old", "new"}
Steps == {"begin", "snapshot", "history", "count", "compare", "recheck", "switch", "serve"}

-----------------------------------------------------------------------------
(* The database.                                                           *)

Committed == {row \in Rows : phase[row] # "absent"}

ProjectionHighWatermark ==
  IF Committed = {} THEN 0 ELSE CHOOSE row \in Committed : \A r \in Committed : r <= row

\* The row is committed with the change it describes.
AppendProjection(row) ==
  /\ phase[row] = "absent" /\ DocumentOf[row] \notin archived
  /\ \A r \in Rows : DocumentOf[r] = DocumentOf[row] /\ VersionOf[r] < VersionOf[row]
                       => phase[r] # "absent"
  /\ phase' = [phase EXCEPT ![row] = "due"]
  /\ authority' = [authority EXCEPT ![DocumentOf[row]] = VersionOf[row]]
  /\ UNCHANGED <<archived, sinkVars, rebuildVars, written, rolloutVars>>

\* The archived interaction's rows go, those of the outbox and the index stay.
Purge(d) ==
  /\ authority[d] > 0 /\ d \notin archived
  /\ archived' = archived \union {d}
  /\ UNCHANGED <<authority, phase, sinkVars, rebuildVars, written, rolloutVars>>

\* Mutant of Authoritative: the rebuild reads the rows that are still to be delivered.
Undelivered == {d \in Documents : \E row \in Rows : DocumentOf[row] = d /\ phase[row] = "due"}

\* The documents there are.
Authoritative == {d \in Documents \ archived : authority[d] > 0}

-----------------------------------------------------------------------------
(* OpenSearch.                                                             *)

Item(d, v) == [document |-> d, version |-> v]
ItemOf(row) == Item(DocumentOf[row], VersionOf[row])

\* Mutant of IndexDocumentVersion: the last write wins.
OverwriteDocument(i, item) == index' = [index EXCEPT ![i][item.document] = item.version]

\* External versioning: an older version, or the same one, is a conflict, which
\* the sink takes for success.
IndexDocumentVersion(i, item) ==
  index' = [index EXCEPT ![i][item.document] =
              IF item.version > @ THEN item.version ELSE @]

-----------------------------------------------------------------------------
(* The rebuild.                                                            *)

\* Mutant of Leave: the next attempt starts with what is left of this one.
LeaveBatch(r, to) ==
  /\ step' = [step EXCEPT ![r] = to]
  /\ UNCHANGED attemptVars

\* An attempt is over, and with it its variables.
Leave(r, to) ==
  /\ step' = [step EXCEPT ![r] = to]
  /\ items' = [items EXCEPT ![r] = {}]
  /\ todo' = [todo EXCEPT ![r] = {}]
  /\ cursor' = [cursor EXCEPT ![r] = 0]
  /\ checkpoint' = [checkpoint EXCEPT ![r] = 0]
  /\ highWatermark' = [highWatermark EXCEPT ![r] = 0]
  /\ expected' = [expected EXCEPT ![r] = 0]

Begin(r) ==
  /\ step[r] = "begin"
  /\ step' = [step EXCEPT ![r] = "snapshot"]
  /\ highWatermark' = [highWatermark EXCEPT ![r] = ProjectionHighWatermark]
  /\ UNCHANGED <<storeVars, sinkVars, batchVars, cursor, checkpoint, expected, written, rolloutVars>>

\* The batch up to last is what ORDER BY ... LIMIT BatchSize gives.
IsLimit(scan, last) == LET batch == {x \in scan : x <= last} IN
  /\ last \in scan
  /\ Cardinality(batch) <= BatchSize
  /\ batch = scan \/ Cardinality(batch) = BatchSize

Batch(r, batch) ==
  /\ items' = [items EXCEPT ![r] = batch]
  /\ todo' = [todo EXCEPT ![r] = batch]

Idle(r) == items[r] = {}

\* Mutant of Unscanned: the next document is passed over.
UnscannedButNext(r) == {d \in Authoritative : d > cursor[r] + 1}

Unscanned(r) == {d \in Authoritative : d > cursor[r]}

\* When nothing is left, history starts at the watermark taken first.
ScanAuthoritativeProjection(r) ==
  /\ step[r] = "snapshot" /\ Idle(r)
  /\ \/ /\ Unscanned(r) = {}
        /\ step' = [step EXCEPT ![r] = "history"]
        /\ checkpoint' = [checkpoint EXCEPT ![r] = highWatermark[r]]
        /\ cursor' = [cursor EXCEPT ![r] = 0]
        /\ UNCHANGED batchVars
     \/ \E last \in Documents :
        /\ IsLimit(Unscanned(r), last)
        /\ Batch(r, {Item(d, authority[d]) : d \in {x \in Unscanned(r) : x <= last}})
        /\ cursor' = [cursor EXCEPT ![r] = last]
        /\ UNCHANGED <<step, checkpoint>>
  /\ UNCHANGED <<storeVars, sinkVars, highWatermark, expected, written, rolloutVars>>

ScanProjectionHistory(r) ==
  /\ step[r] = "history" /\ Idle(r) /\ checkpoint[r] < highWatermark[r]
  /\ \E last \in Rows :
       LET scan == {row \in Committed : checkpoint[r] < row /\ row <= highWatermark[r]} IN
       /\ IsLimit(scan, last)
       /\ Batch(r, {ItemOf(row) : row \in {x \in scan : x <= last}})
       /\ checkpoint' = [checkpoint EXCEPT ![r] = last]
  /\ UNCHANGED <<storeVars, sinkVars, step, cursor, highWatermark, expected, written, rolloutVars>>

ProjectVersion(r) == \E item \in todo[r] :
  /\ \A i \in todo[r] : i.document = item.document => i.version >= item.version
  /\ IndexDocumentVersion("new", item)
  /\ todo' = [todo EXCEPT ![r] = @ \ {item}]
  /\ UNCHANGED <<storeVars, alias, step, items, cursor, checkpoint, highWatermark, expected,
                 written, rolloutVars>>

\* Every document of the batch is in the index exactly as the batch last has it.
Valid(r) ==
  \A item \in items[r] :
    (\A i \in items[r] : i.document = item.document => i.version <= item.version)
      => index["new"][item.document] = item.version

ValidateVersion(r) ==
  /\ items[r] # {} /\ todo[r] = {}
  /\ IF Valid(r)
     THEN /\ items' = [items EXCEPT ![r] = {}]
          /\ UNCHANGED <<step, todo, cursor, checkpoint, highWatermark, expected>>
     ELSE Leave(r, "begin")
  /\ UNCHANGED <<storeVars, sinkVars, written, rolloutVars>>

\* The watermark has risen: there is more history.
Continue(r, otherwise) ==
  IF ProjectionHighWatermark > highWatermark[r]
  THEN /\ highWatermark' = [highWatermark EXCEPT ![r] = ProjectionHighWatermark]
       /\ step' = [step EXCEPT ![r] = "history"]
  ELSE /\ step' = [step EXCEPT ![r] = otherwise]
       /\ UNCHANGED highWatermark

CheckWatermark(r) ==
  /\ \/ step[r] = "history" /\ Idle(r) /\ checkpoint[r] >= highWatermark[r]
        /\ Continue(r, "count")
     \/ step[r] = "recheck" /\ Continue(r, "switch")
  /\ UNCHANGED <<storeVars, sinkVars, batchVars, cursor, checkpoint, expected, written, rolloutVars>>

CountAuthoritativeProjection(r) ==
  /\ step[r] = "count"
  /\ step' = [step EXCEPT ![r] = "compare"]
  /\ expected' = [expected EXCEPT ![r] = Cardinality(Authoritative)]
  /\ UNCHANGED <<storeVars, sinkVars, batchVars, cursor, checkpoint, highWatermark, written,
                 rolloutVars>>

CountVersion(r) ==
  /\ step[r] = "compare"
  /\ IF Cardinality({d \in Documents : index["new"][d] > 0}) = expected[r]
     THEN /\ step' = [step EXCEPT ![r] = "recheck"]
          /\ expected' = [expected EXCEPT ![r] = 0]
          /\ UNCHANGED <<batchVars, cursor, checkpoint, highWatermark>>
     ELSE Leave(r, "begin")
  /\ UNCHANGED <<storeVars, sinkVars, written, rolloutVars>>

\* The rebuild is done, and the replica starts its worker.
SwitchAlias(r) ==
  /\ step[r] = "switch"
  /\ alias' = "new"
  /\ Leave(r, "serve")
  /\ UNCHANGED <<storeVars, index, written, rolloutVars>>

Rebuild(r) ==
  \/ Begin(r) \/ ScanAuthoritativeProjection(r) \/ ScanProjectionHistory(r)
  \/ ProjectVersion(r) \/ ValidateVersion(r) \/ CheckWatermark(r)
  \/ CountAuthoritativeProjection(r) \/ CountVersion(r) \/ SwitchAlias(r)

-----------------------------------------------------------------------------
(* The workers, failures and the rollout.                                  *)

\* The rebuild of r does not read the row any more: its document is scanned, and
\* history starts, or goes on, after it.
Past(r, row) ==
  \/ step[r] = "snapshot" /\ DocumentOf[row] <= cursor[r] /\ row <= highWatermark[r]
  \/ step[r] \in {"history", "count", "compare", "recheck"} /\ row <= checkpoint[r]
  \/ step[r] = "switch"

\* The new index has the row's version, or a newer one, or is about to get it.
Copied(r, row) ==
  \/ index["new"][DocumentOf[row]] >= VersionOf[row]
  \/ \E item \in todo[r] :
       item.document = DocumentOf[row] /\ item.version >= VersionOf[row]

\* History only: the row is written to the old index when a rebuild has gone past it
\* without it.
Overlook(row) ==
  overlooked' = IF alias = "old" /\ \E r \in Replicas : Past(r, row) /\ ~Copied(r, row)
                THEN overlooked \union {row} ELSE overlooked

Project(r, row) ==
  /\ step[r] = "serve" /\ phase[row] = "due" /\ row \notin written[r]
  /\ IndexDocumentVersion(alias, ItemOf(row))
  /\ written' = [written EXCEPT ![r] = @ \union {row}]
  /\ Overlook(row)
  /\ UNCHANGED <<storeVars, alias, rebuildVars, older, restarts>>

MarkDelivered(r, row) ==
  /\ row \in written[r]
  /\ phase' = [phase EXCEPT ![row] = "delivered"]
  /\ written' = [written EXCEPT ![r] = @ \ {row}]
  /\ UNCHANGED <<authority, archived, sinkVars, rebuildVars, rolloutVars>>

\* A call of the rebuild fails, or the process starts again; a process that is
\* configured to rebuild rebuilds again.
Restart(r) ==
  /\ restarts < MaxRestarts /\ restarts' = restarts + 1
  /\ IF r \in older THEN UNCHANGED rebuildVars ELSE Leave(r, "begin")
  /\ written' = [written EXCEPT ![r] = {}]
  /\ UNCHANGED <<storeVars, sinkVars, older, overlooked>>

\* The rollout replaces a replica of the release before by one that rebuilds.
Replace(r) ==
  /\ restarts < MaxRestarts /\ restarts' = restarts + 1
  /\ r \in older
  /\ older' = older \ {r}
  /\ Leave(r, "begin")
  /\ written' = [written EXCEPT ![r] = {}]
  /\ UNCHANGED <<storeVars, sinkVars, overlooked>>

-----------------------------------------------------------------------------
\* v is the newest of the versions that the rows carry.
IsNewest(v, rows) ==
  \/ rows = {} /\ v = 0
  \/ \E row \in rows : v = VersionOf[row] /\ \A r \in rows : VersionOf[r] <= v

RowsOf(d) == {row \in Rows : DocumentOf[row] = d}
Versions == {0} \union {VersionOf[row] : row \in Rows}

\* The outbox has been in use: rows are committed, written and delivered.  A rollout
\* may be under way, or over.
Init ==
  /\ phase \in [Rows -> {"absent", "due", "delivered"}]
  /\ \A row \in Committed, r \in Rows :
       DocumentOf[r] = DocumentOf[row] /\ VersionOf[r] < VersionOf[row] => r \in Committed
  /\ authority \in [Documents -> Versions]
  /\ \A d \in Documents : IsNewest(authority[d], RowsOf(d) \intersect Committed)
  /\ \E applied \in SUBSET Committed, old \in [Documents -> Versions] :
       /\ {row \in Rows : phase[row] = "delivered"} \subseteq applied
       /\ \A d \in Documents : IsNewest(old[d], RowsOf(d) \intersect applied)
       /\ index = [i \in Indexes |-> IF i = "new" THEN [d \in Documents |-> 0] ELSE old]
  /\ archived = {} /\ alias = "old"
  /\ older \in SUBSET Serving
  /\ step = [r \in Replicas |-> IF r \in older THEN "serve" ELSE "begin"]
  /\ items = [r \in Replicas |-> {}] /\ todo = [r \in Replicas |-> {}]
  /\ cursor = [r \in Replicas |-> 0] /\ checkpoint = [r \in Replicas |-> 0]
  /\ highWatermark = [r \in Replicas |-> 0] /\ expected = [r \in Replicas |-> 0]
  /\ written = [r \in Replicas |-> {}]
  /\ overlooked = {} /\ restarts = 0

Next ==
  \/ \E row \in Rows : AppendProjection(row)
  \/ \E d \in Archivable : Purge(d)
  \/ \E r \in Replicas : Rebuild(r) \/ Restart(r) \/ Replace(r)
  \/ \E r \in Replicas, row \in Rows : Project(r, row) \/ MarkDelivered(r, row)

\* One loop in a replica: the supervisor repeats the rebuild, then the worker ticks.
Fairness ==
  \A r \in Replicas :
    WF_vars(Rebuild(r) \/ \E row \in Rows : Project(r, row) \/ MarkDelivered(r, row))

Spec == Init /\ [][Next]_vars /\ Fairness

-----------------------------------------------------------------------------
(* Properties.                                                             *)

Items == [document : Documents, version : Versions]

\* Every variable has its type, what is to be projected is in the batch, and only a
\* snapshot and a history have a batch.
TypeOK ==
  /\ authority \in [Documents -> Versions] /\ archived \subseteq Archivable
  /\ phase \in [Rows -> {"absent", "due", "delivered"}]
  /\ index \in [Indexes -> [Documents -> Versions]] /\ alias \in Indexes
  /\ step \in [Replicas -> Steps]
  /\ items \in [Replicas -> SUBSET Items] /\ todo \in [Replicas -> SUBSET Items]
  /\ cursor \in [Replicas -> {0} \union Documents]
  /\ checkpoint \in [Replicas -> {0} \union Rows]
  /\ highWatermark \in [Replicas -> {0} \union Rows]
  /\ expected \in [Replicas -> 0..Cardinality(Documents)]
  /\ written \in [Replicas -> SUBSET Rows] /\ overlooked \subseteq Rows
  /\ older \subseteq Serving /\ restarts \in 0..MaxRestarts
  /\ \A r \in Replicas : /\ todo[r] \subseteq items[r]
                         /\ items[r] # {} => step[r] \in {"snapshot", "history"}

Live(row) == index[alias][DocumentOf[row]] >= VersionOf[row]

\* What the outbox counts as delivered, and will not deliver again, readers see: a
\* switch of the alias takes only away what is archived and what was overlooked.
DeliveredIsLive ==
  \A row \in Rows :
    phase[row] = "delivered"
      => Live(row) \/ DocumentOf[row] \in archived \/ row \in overlooked

\* The versions of a document that readers find, or were overlooked.
Seen(d) ==
  {index[alias][d]} \union {VersionOf[row] : row \in {x \in overlooked : DocumentOf[x] = d}}

Newest(d) == CHOOSE v \in Seen(d) : \A w \in Seen(d) : w <= v

\* What a reader finds of a document: what the index behind the alias shows, and
\* when it is archived the last version, from the archive.  What was overlooked is
\* counted in: it is the one thing a reader may miss.
Shown == [d \in Documents |-> IF d \in archived THEN authority[d] ELSE Newest(d)]

Delivery == INSTANCE ProjectionDelivery WITH
  Aggregates <- Documents, AggregateOf <- DocumentOf, document <- Shown

\* But for what was overlooked readers do not notice the rebuild: across the switch of
\* the alias they are promised what the pipeline promises on one index (see
\* ProjectionDelivery).  They see committed versions only, no document goes back to
\* an older one, and what is marked delivered they see.
DeliveryPromise == Delivery!Spec

\* As long as nothing is archived, what is committed and was not overlooked reaches
\* the new index and the readers, again and again: rebuilds that fail validation,
\* race each other or are cut short come to an end, and the workers start.
CommittedGoesLive ==
  []<>(\/ archived # {}
       \/ alias = "new" /\ \A row \in Committed : Live(row) \/ row \in overlooked)

\* A rebuild that fails is retried until it succeeds, whatever is archived: the
\* changes of the other documents reach the readers.
RebuildOutlivesArchiving ==
  \A row \in Rows : phase[row] # "absent" ~> Live(row) \/ DocumentOf[row] \in archived

-----------------------------------------------------------------------------
(* The inductive invariant.                                                *)

\* v is a version of d that was committed, or none.
ComesFromStore(d, v) ==
  v = 0 \/ \E row \in Committed : DocumentOf[row] = d /\ VersionOf[row] = v

\* The store is not behind anything: no index shows, and no rebuild is about to
\* write, a version that was not committed before.
StoreIsAhead ==
  /\ \A row \in Committed : VersionOf[row] <= authority[DocumentOf[row]]
  /\ \A i \in Indexes, d \in Documents : ComesFromStore(d, index[i][d])
  /\ \A r \in Replicas : \A item \in todo[r] : ComesFromStore(item.document, item.version)

\* Versions are committed in order, the authoritative row has the last one, and what
\* a worker wrote is committed.
CommittedInOrder ==
  /\ \A row \in Committed, r \in Rows :
       DocumentOf[r] = DocumentOf[row] /\ VersionOf[r] < VersionOf[row] => r \in Committed
  /\ \A d \in Documents : ComesFromStore(d, authority[d])
  /\ overlooked \subseteq Committed /\ \A r \in Replicas : written[r] \subseteq Committed

\* A worker wrote the row, or the old index shows it.
Used(row) ==
  \/ phase[row] = "delivered" \/ \E r \in Replicas : row \in written[r]
  \/ index["old"][DocumentOf[row]] = VersionOf[row]

\* A snapshot starts with the first document; what is counted is caught up with the
\* watermark; and what is in use and passed has been copied, or was overlooked.
Covers(r) ==
  /\ step[r] = "begin" => cursor[r] = 0
  /\ step[r] \in {"count", "compare", "recheck"} => checkpoint[r] >= highWatermark[r]
  /\ alias = "old" =>
       \A row \in Committed :
         Used(row) /\ Past(r, row) /\ DocumentOf[row] \notin archived
           => Copied(r, row) \/ row \in overlooked

\* What a worker has written is live, as what is delivered.
WrittenIsLive ==
  \A r \in Replicas : \A row \in written[r] :
    Live(row) \/ DocumentOf[row] \in archived \/ row \in overlooked

IInv ==
  /\ TypeOK /\ CommittedInOrder /\ StoreIsAhead /\ \A r \in Replicas : Covers(r)
  /\ WrittenIsLive /\ DeliveredIsLive
=============================================================================
