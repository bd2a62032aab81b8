------------------------------ MODULE BuildTasks ------------------------------
(* The build tasks of VEGA: the rows of a table resource are copied in batches  *)
(* into a local OpenSearch index, which the resource then serves its queries    *)
(* from.                                                                         *)
(*                                                                               *)
(* One process holds four kinds of actors over the same two tables and the same  *)
(* indexes: HTTP handlers that create, start, stop and delete tasks and that      *)
(* edit or delete the resource, each of which reads first and writes later; one   *)
(* poller and several workers, which share the set of tasks in flight; and the    *)
(* hourly cleanup of obsolete indexes. A transaction that reads the resource      *)
(* without FOR UPDATE and then writes it is two steps: MariaDB does not hold the  *)
(* row between them. The deployment runs one replica and replaces it by Recreate, *)
(* so a crash stops every actor at once and recovery runs alone.                  *)
(*                                                                               *)
(* The module is one resource and its tasks. Rows of the source are numbered by   *)
(* their cursor; rows are only added, at the end. The index of a full build is    *)
(* named after its task, that of an incremental one is the published index.       *)
EXTENDS Integers, Sequences, FiniteSetsExt

CONSTANTS
    Tasks,        \* ids of build tasks, in the order of their creation
    Workers,      \* goroutines of the batch pool
    TaskCallers,  \* HTTP handlers of the build task API in progress
    Editors,      \* HTTP handlers of the resource API and discovery workers
    Configs,      \* index configurations: [mapping, keys]
    FirstConfig,  \* the configuration the resource is created with
    BatchSize,    \* rows read by one query
    MaxRows,      \* bound: rows of the source table
    MaxEdits,     \* bound: changes of the index configuration
    MaxStarts,    \* bound: accepted starts of a stopped or failed task
    MaxRestarts,  \* bound: crashes of the process
    NoTask

ASSUME TasksAssumption == Tasks \subseteq Nat /\ IsFiniteSet(Tasks) /\ NoTask \notin Tasks
ASSUME ConfigsAssumption ==
    /\ \A config \in Configs : DOMAIN config = {"mapping", "keys"}
    /\ FirstConfig \in Configs
ASSUME BoundsAssumption ==
    /\ {MaxRows, MaxEdits, MaxStarts, MaxRestarts} \subseteq Nat
    /\ BatchSize \in Nat \ {0}

Callers == TaskCallers \cup Editors

VARIABLES
    source,     \* rows 1..source are in the source table
    resource,   \* the row of the resource: configuration and local index state
    task,       \* the rows of the build tasks
    index,      \* the OpenSearch indexes, by the task they are named after
    queue,      \* batchQueue
    inFlight,   \* inFlight of the worker pool
    worker,     \* what each worker is doing and what it has read
    call,       \* what each handler has read before its write
    cleaner,    \* the cleanup of one index
    starts, restarts,
    overtaken   \* history: a write of the local index state missed another one

vars == <<source, resource, task, index, queue, inFlight, worker, call, cleaner,
          starts, restarts, overtaken>>

NoMark == -1    \* the empty checkpoint; 0 is the checkpoint of an empty table
Marks == {NoMark} \cup 0..MaxRows

Active == {"pending", "running", "stopping"}
Startable == {"stopped", "failed"}
Terminal == Startable \cup {"completed", "cancelled"}
Statuses == Active \cup Terminal \cup {"absent", "deleted"}

Resources ==
    [exists : BOOLEAN, config : Configs, version : 0..MaxEdits,
     status : {"unavailable", "available", "stale"},
     index : Tasks \cup {NoTask}, mark : Marks]

NewResource ==
    [exists |-> TRUE, config |-> FirstConfig, version |-> 0,
     status |-> "unavailable", index |-> NoTask, mark |-> NoMark]
DeletedResource == [NewResource EXCEPT !.exists = FALSE]

TaskRows ==
    [status : Statuses, incremental : BOOLEAN, config : Configs,
     index : Tasks \cup {NoTask}, mark : Marks]
NewTask == [status |-> "absent", incremental |-> FALSE, config |-> FirstConfig,
            index |-> NoTask, mark |-> NoMark]

(* managed: the index carries the metadata that names its task.                  *)
Indexes == [exists : BOOLEAN, managed : BOOLEAN, rows : SUBSET (1..MaxRows)]
NoIndex == [exists |-> FALSE, managed |-> FALSE, rows |-> {}]

(* The steps of a worker's run and of the cleanup of an index; what they remember *)
(* of what they read, the resource among it.                                     *)
Working == {"claim", "prepare", "read", "write", "progress", "commit", "complete",
            "publish"}
Jobs ==
    [step : Working \cup {"idle", "leaving"}, task : Tasks \cup {NoTask}, mark : Marks,
     upto : 0..MaxRows, last : BOOLEAN, seen : Resources]
Idle == [step |-> "idle", task |-> NoTask, mark |-> NoMark, upto |-> 0,
         last |-> FALSE, seen |-> NewResource]

Requests ==
    [op : {"none", "full", "incremental", "start", "reset", "stop", "halt", "delete",
           "edit", "drop"},
     task : Tasks \cup {NoTask}, config : Configs, seen : Resources]
NoCall == [op |-> "none", task |-> NoTask, config |-> FirstConfig, seen |-> NewResource]

Sweeps == [step : {"asleep", "listed", "candidate", "unreferenced", "doomed"},
           index : Tasks \cup {NoTask}, exists : BOOLEAN]
Asleep == [step |-> "asleep", index |-> NoTask, exists |-> FALSE]

(* HasAvailableLocalIndex and a committed checkpoint: what an incremental build  *)
(* starts from.                                                                  *)
HasAvailableLocalIndex(r) == r.exists /\ r.status = "available" /\ r.index # NoTask
HasBaseline(r) == HasAvailableLocalIndex(r) /\ r.mark # NoMark

(* The task was made for the configuration the resource has.                     *)
\* Mutant of FingerprintMatches: the mapping is not part of the fingerprint.
FingerprintOfKeysMatches(r, row) == r.config.keys = row.config.keys
FingerprintMatches(r, row) == r.config = row.config

Published(r) == IF HasAvailableLocalIndex(r) THEN r.index ELSE NoTask

(* What a write of the local index state can overwrite without having read it.   *)
LocalIndexState(r) == <<r.exists, r.config, r.status, r.index, r.mark>>

(* The guarded UPDATEs of the task table: they change nothing when the status is *)
(* another one by now.                                                           *)
Marked(rows, t, from, to) ==
    IF rows[t].status \in from THEN [rows EXCEPT ![t].status = to] ELSE rows

MarkFailed(rows, t) == Marked(rows, t, Active, "failed")
MarkCancelled(rows, t) == Marked(rows, t, Active, "cancelled")
MarkStopped(rows, t) == Marked(rows, t, {"pending", "stopping"}, "stopped")
SetProgress(rows, t, mark) ==
    IF rows[t].status \in {"running", "stopping"}
    THEN [rows EXCEPT ![t].mark = mark] ELSE rows

Init ==
    /\ source \in 0..MaxRows
    /\ resource = NewResource
    /\ task = [t \in Tasks |-> NewTask]
    /\ index = [t \in Tasks |-> NoIndex]
    /\ queue = <<>>
    /\ inFlight = {}
    /\ worker = [w \in Workers |-> Idle]
    /\ call = [c \in Callers |-> NoCall]
    /\ cleaner = Asleep
    /\ starts = 0
    /\ restarts = 0
    /\ overtaken = FALSE

(* A row is added to the source table, behind all the others.                    *)
AddRow ==
    /\ source < MaxRows
    /\ source' = source + 1
    /\ UNCHANGED <<resource, task, index, queue, inFlight, worker, call, cleaner,
                   starts, restarts, overtaken>>

-------------------------------------------------------------------------------
(* Handlers. Each reads and decides in one step and writes in another.           *)

HasActiveTask(except) == \E t \in Tasks \ {except} : task[t].status \in Active

Ask(c, request) ==
    /\ call[c] = NoCall
    /\ call' = [call EXCEPT ![c] = request]
    /\ UNCHANGED <<source, resource, task, index, queue, inFlight, worker, cleaner,
                   starts, restarts, overtaken>>

Answered(c) == call' = [call EXCEPT ![c] = NoCall]

Absent == {t \in Tasks : task[t].status = "absent"}

(* Create reads the resource and looks for an active task of it ...              *)
AskCreate(c, incremental) ==
    /\ Absent # {}
    /\ resource.exists
    /\ incremental => HasBaseline(resource)
    /\ ~HasActiveTask(NoTask)
    /\ Ask(c, [NoCall EXCEPT !.op = IF incremental THEN "incremental" ELSE "full",
                 !.seen = [NewResource EXCEPT !.config = resource.config,
                              !.index = IF incremental THEN resource.index ELSE NoTask]])

(* ... and inserts the row with what it read of the resource.                    *)
Create(c) ==
    LET request == call[c]
        incremental == request.op = "incremental"
    IN /\ request.op \in {"full", "incremental"}
       /\ \E t \in Absent :
             /\ \A other \in Absent : t <= other
             /\ task' = [task EXCEPT ![t] =
                    [status |-> "pending", incremental |-> incremental,
                     config |-> request.seen.config,
                     index |-> IF incremental THEN request.seen.index ELSE t,
                     mark |-> NoMark]]
       /\ Answered(c)
       /\ UNCHANGED <<source, resource, index, queue, inFlight, worker, cleaner,
                      starts, restarts, overtaken>>

(* Start checks the status, the other tasks and whether the snapshot of the task *)
(* is still the configuration of the resource ...                                *)
AskStart(c, t, reset) ==
    /\ starts < MaxStarts
    /\ task[t].status \in Startable
    /\ reset => ~task[t].incremental
    /\ ~HasActiveTask(t)
    /\ resource.exists /\ FingerprintMatches(resource, task[t])
    /\ task[t].incremental => HasBaseline(resource)
    /\ Ask(c, [NoCall EXCEPT !.op = IF reset THEN "reset" ELSE "start", !.task = t])

(* ... and queues it again, unless its status has changed meanwhile.             *)
Start(c) ==
    LET t == call[c].task
    IN /\ call[c].op \in {"start", "reset"}
       /\ starts < MaxStarts
       /\ IF task[t].status \in Startable
          THEN /\ task' = [task EXCEPT ![t].status = "pending",
                      ![t].mark = IF call[c].op = "reset" THEN NoMark ELSE @]
               /\ starts' = starts + 1
          ELSE UNCHANGED <<task, starts>>
       /\ Answered(c)
       /\ UNCHANGED <<source, resource, index, queue, inFlight, worker, cleaner,
                      restarts, overtaken>>

(* Stop decides between the two transitions by the status it has read.           *)
AskStop(c, t) ==
    /\ task[t].status \in {"pending", "running"}
    /\ Ask(c, [NoCall EXCEPT !.task = t,
                   !.op = IF task[t].status = "pending" THEN "stop" ELSE "halt"])

Stop(c) ==
    LET t == call[c].task
    IN /\ \/ call[c].op = "stop" /\ task' = MarkStopped(task, t)
          \/ call[c].op = "halt" /\ task' = Marked(task, t, {"running"}, "stopping")
       /\ Answered(c)
       /\ UNCHANGED <<source, resource, index, queue, inFlight, worker, cleaner,
                      starts, restarts, overtaken>>

(* DeleteByIDs checks the status it has read; its DELETE names only the id.      *)
AskDelete(c, t) ==
    /\ task[t].status \in Terminal
    /\ Ask(c, [NoCall EXCEPT !.op = "delete", !.task = t])

DeleteByIDs(c) ==
    /\ call[c].op = "delete"
    /\ task' = [task EXCEPT ![call[c].task].status = "deleted"]
    /\ Answered(c)
    /\ UNCHANGED <<source, resource, index, queue, inFlight, worker, cleaner,
                   starts, restarts, overtaken>>

(* The resource is edited by a user, who is refused while a task is active, or   *)
(* by discovery, which looks at no task and only finds another mapping.          *)
AskEdit(c, config, byDiscovery) ==
    /\ resource.exists
    /\ resource.version < MaxEdits
    /\ config # resource.config
    /\ IF byDiscovery THEN config.keys = resource.config.keys
                      ELSE ~HasActiveTask(NoTask)
    /\ Ask(c, [NoCall EXCEPT !.op = "edit", !.config = config, !.seen = resource])

(* Update and InternalUpdateDiscoveryMetadata: the row is guarded by its update  *)
(* time, which a publication does not change; the index state that is written    *)
(* is the one that was read.                                                     *)
Edit(c) ==
    LET request == call[c]
        seen == request.seen
        remapped == request.config.mapping # seen.config.mapping
                    /\ seen.status = "available"
        current == [resource EXCEPT !.config = request.config, !.version = @ + 1]
    IN /\ request.op = "edit"
       /\ IF resource.exists /\ resource.version = seen.version
          THEN /\ overtaken' = (overtaken
                      \/ LocalIndexState(resource) # LocalIndexState(seen))
               /\ resource' =
                    IF remapped
                    THEN [current EXCEPT !.status = "stale", !.index = seen.index,
                                         !.mark = NoMark]
                    ELSE IF request.config.keys # seen.config.keys /\ seen.mark # NoMark
                    THEN [current EXCEPT !.status = seen.status, !.index = seen.index,
                                         !.mark = NoMark]
                    ELSE current
          ELSE UNCHANGED <<resource, overtaken>>
       /\ Answered(c)
       /\ UNCHANGED <<source, task, index, queue, inFlight, worker, cleaner,
                      starts, restarts>>

(* A resource is not deleted while a task of it runs; a pending one does not     *)
(* hold it.                                                                      *)
AskDeleteResource(c) ==
    /\ resource.exists
    /\ \A t \in Tasks : task[t].status \notin {"running", "stopping"}
    /\ Ask(c, [NoCall EXCEPT !.op = "drop"])

DeleteResource(c) ==
    /\ call[c].op = "drop"
    /\ resource' = DeletedResource
    /\ Answered(c)
    /\ UNCHANGED <<source, task, index, queue, inFlight, worker, cleaner,
                   starts, restarts, overtaken>>

-------------------------------------------------------------------------------
(* The poller and the workers.                                                   *)

Pending == {t \in Tasks : task[t].status = "pending"}

InOrder(ts) ==
    {q \in [1..Cardinality(ts) -> ts] :
        \A i, j \in 1..Cardinality(ts) : i < j => q[i] < q[j]}

(* The poller refills an empty queue with the pending tasks nobody has in hand.  *)
(* It lists them a moment earlier: one that is not pending any more when it is    *)
(* queued is left alone by the worker that takes it.                              *)
\* Mutant of Ready: tasks in flight are queued again.
PendingAgain == Pending
Ready == Pending \ inFlight

fillBatchQueue ==
    /\ queue = <<>>
    /\ Ready # {}
    /\ queue' \in InOrder(Ready)
    /\ inFlight' = inFlight \cup Ready
    /\ UNCHANGED <<source, resource, task, index, worker, call, cleaner,
                   starts, restarts, overtaken>>

(* A worker that is through with its task has yet to take it out of inFlight.    *)
At(w, step) == worker[w].step = step
Goes(w, to) == worker' = [worker EXCEPT ![w] = to]
Left(t) == [Idle EXCEPT !.step = "leaving", !.task = t]
Leaves(w) == Goes(w, Left(worker[w].task))

removeInFlight(w) ==
    /\ At(w, "leaving")
    /\ inFlight' = inFlight \ {worker[w].task}
    /\ Goes(w, Idle)
    /\ UNCHANGED <<source, resource, task, index, queue, call, cleaner,
                   starts, restarts, overtaken>>

Outside == <<source, queue, inFlight, call, cleaner, starts, restarts>>

(* An error anywhere in the run, a panic included, fails the task, if the        *)
(* database can be written: otherwise it stays as it is and nobody works on it.  *)
failTask(w) ==
    /\ worker[w].step \in Working
    /\ task' \in {MarkFailed(task, worker[w].task), task}
    /\ Leaves(w)
    /\ UNCHANGED <<Outside, resource, index, overtaken>>

(* A worker takes the next task of the queue and checks it before the claim. The *)
(* row read here is the one the run works with: its checkpoint is not read again. *)
(* A task whose rows cannot be read is left alone, pending as it is.             *)
runBatchTask(w) ==
    LET t == Head(queue)
        row == task[t]
        outdated == \/ ~FingerprintMatches(resource, row)
                    \/ row.incremental /\ ~HasBaseline(resource)
    IN /\ At(w, "idle")
       /\ queue # <<>>
       /\ queue' = Tail(queue)
       /\ \/ Goes(w, Left(t)) /\ UNCHANGED task
          \/ /\ row.status = "pending" /\ ~resource.exists
             /\ Goes(w, Left(t)) /\ task' = MarkCancelled(task, t)
          \/ /\ row.status = "pending" /\ resource.exists /\ outdated
             /\ Goes(w, Left(t)) /\ task' = MarkFailed(task, t)
          \/ /\ row.status = "pending" /\ resource.exists /\ ~outdated
             /\ Goes(w, [Idle EXCEPT !.step = "claim", !.task = t, !.mark = row.mark])
             /\ UNCHANGED task
       /\ UNCHANGED <<source, resource, index, inFlight, call, cleaner,
                      starts, restarts, overtaken>>

(* MarkRunning is the claim: it succeeds for a task that is still pending. An    *)
(* incremental build reads the resource again and takes over its checkpoint.     *)
Claim(w) ==
    LET t == worker[w].task
        row == task[t]
        valid == HasBaseline(resource) /\ FingerprintMatches(resource, row)
        started == Marked(task, t, {"pending"}, "running")
    IN /\ At(w, "claim")
       /\ \/ /\ row.incremental /\ ~valid
             /\ task' = MarkFailed(task, t) /\ Leaves(w)
          \/ /\ row.status # "pending" /\ (row.incremental => valid)
             /\ UNCHANGED task /\ Leaves(w)
          \/ /\ row.status = "pending" /\ ~row.incremental
             /\ task' = started
             /\ Goes(w, [worker[w] EXCEPT !.step = "prepare"])
          \/ /\ row.status = "pending" /\ row.incremental /\ valid
             /\ task' = SetProgress(started, t, resource.mark)
             /\ Goes(w, [worker[w] EXCEPT !.step = "prepare", !.mark = resource.mark,
                         !.seen = [NewResource EXCEPT !.index = resource.index]])
       /\ UNCHANGED <<Outside, resource, index, overtaken>>

(* The beginning of executeBuild: a full build without a checkpoint recreates    *)
(* its index, every other one continues in the index it finds.                   *)
RestartFromBeginning(row, mark) == ~row.incremental /\ mark = NoMark

PrepareIndex(w) ==
    LET t == worker[w].task
        row == task[t]
        anew == RestartFromBeginning(row, worker[w].mark)
        reads == [worker[w] EXCEPT !.step = "read", !.seen = NewResource]
    IN /\ At(w, "prepare")
       /\ \/ /\ anew
             /\ index' = [index EXCEPT ![t] = [exists |-> TRUE, managed |-> TRUE, rows |-> {}]]
             /\ task' = SetProgress(task, t, NoMark)
             /\ Goes(w, reads)
          \/ /\ ~anew
             /\ index[row.index].exists
             /\ row.incremental => row.index = worker[w].seen.index
             /\ Goes(w, reads)
             /\ UNCHANGED <<task, index>>
       /\ UNCHANGED <<Outside, resource, overtaken>>

(* One round of the loop: the status is read, then the rows behind the           *)
(* checkpoint. A task that is pending again by now goes on as if it were running.*)
\* Mutant of Upto: every batch is taken to be full.
UptoFullBatch(from) == from + BatchSize
Upto(from) == Max({from, Min({from + BatchSize, source})})
From(w) == IF worker[w].mark = NoMark THEN 0 ELSE worker[w].mark

ReadBatch(w) ==
    LET t == worker[w].task
        from == From(w)
        upto == Upto(from)
        found == [worker[w] EXCEPT !.upto = upto, !.last = (upto - from < BatchSize)]
    IN /\ At(w, "read")
       /\ \/ /\ task[t].status \in Terminal \cup {"deleted"}
             /\ Leaves(w) /\ UNCHANGED task
          \/ /\ task[t].status = "stopping"
             /\ Leaves(w) /\ task' = MarkStopped(task, t)
          \/ /\ task[t].status \in {"pending", "running"}
             /\ Goes(w, [found EXCEPT !.step = IF upto = from THEN "complete" ELSE "write"])
             /\ UNCHANGED task
       /\ UNCHANGED <<Outside, resource, index, overtaken>>

(* The documents are addressed by primary key: a batch written twice is there    *)
(* once. OpenSearch makes the index it is asked to write to, without the metadata *)
(* the cleanup knows its indexes by.                                             *)
IndexDocuments(w) ==
    LET i == task[worker[w].task].index
    IN /\ At(w, "write")
       /\ index' = [index EXCEPT ![i].exists = TRUE,
                                ![i].rows = @ \cup (From(w) + 1)..worker[w].upto]
       /\ Goes(w, [worker[w] EXCEPT !.step = "progress"])
       /\ UNCHANGED <<Outside, resource, task, overtaken>>

AfterBatch(w) == [worker[w] EXCEPT !.mark = worker[w].upto, !.seen = NewResource,
                !.step = IF worker[w].last THEN "complete" ELSE "read"]

(* A full build keeps its checkpoint in its own row, whose status it does not    *)
(* look at.                                                                      *)
SetFullProgress(w) ==
    /\ At(w, "progress")
    /\ ~task[worker[w].task].incremental
    /\ task' = SetProgress(task, worker[w].task, worker[w].upto)
    /\ Goes(w, AfterBatch(w))
    /\ UNCHANGED <<Outside, resource, index, overtaken>>

(* commitIncrementalProgress: a transaction that reads the resource, compares it *)
(* with what the run started from ...                                            *)
ReadForCheckpoint(w) ==
    LET row == task[worker[w].task]
    IN /\ At(w, "progress")
       /\ row.incremental
       /\ HasBaseline(resource) /\ FingerprintMatches(resource, row)
       /\ resource.index = row.index /\ resource.mark = worker[w].mark
       /\ Goes(w, [worker[w] EXCEPT !.step = "commit", !.seen = resource])
       /\ UNCHANGED <<Outside, resource, task, index, overtaken>>

(* ... and writes the checkpoint to the task and to the resource.                *)
commitIncrementalProgress(w) ==
    LET t == worker[w].task
    IN /\ At(w, "commit")
       /\ task[t].status \in {"running", "stopping"}
       /\ resource.exists
       /\ task' = SetProgress(task, t, worker[w].upto)
       /\ resource' = [resource EXCEPT !.status = "available", !.index = task[t].index,
                                       !.mark = worker[w].upto]
       /\ overtaken' = (overtaken
              \/ LocalIndexState(resource) # LocalIndexState(worker[w].seen))
       /\ Goes(w, AfterBatch(w))
       /\ UNCHANGED <<Outside, index>>

completeIncrementalBuildTask(w) ==
    LET t == worker[w].task
    IN /\ At(w, "complete")
       /\ task[t].incremental
       /\ task' = IF task[t].status = "running"
                  THEN Marked(task, t, {"running"}, "completed")
                  ELSE MarkStopped(task, t)
       /\ Leaves(w)
       /\ UNCHANGED <<Outside, resource, index, overtaken>>

(* completeFullBuildTask: an empty table gets a checkpoint of its own; then the  *)
(* transaction reads the resource and refuses a changed configuration ...        *)
ReadForPublication(w) ==
    LET t == worker[w].task
        mark == From(w)
        progressed == IF worker[w].mark = NoMark THEN SetProgress(task, t, mark) ELSE task
    IN /\ At(w, "complete")
       /\ ~task[t].incremental
       /\ resource.exists
       /\ IF FingerprintMatches(resource, task[t])
          THEN /\ task' = progressed
               /\ Goes(w, [worker[w] EXCEPT !.step = "publish", !.mark = mark,
                                            !.seen = resource])
          ELSE /\ task' = MarkFailed(progressed, t)
               /\ Leaves(w)
       /\ UNCHANGED <<Outside, resource, index, overtaken>>

(* ... and publishes the index with the completion of the task, or rolls both    *)
(* back when the task is no longer running.                                      *)
\* Mutant of Completes: a stopping task completes.
CompletesUnlessSettled(row) == row.status \in Active
Completes(row) == row.status = "running"

completeFullBuildTask(w) ==
    LET t == worker[w].task
    IN /\ At(w, "publish")
       /\ resource.exists
       /\ IF Completes(task[t])
          THEN /\ task' = Marked(task, t, {"running"}, "completed")
               /\ resource' = [resource EXCEPT !.status = "available", !.index = t,
                                               !.mark = worker[w].mark]
               /\ overtaken' =
                    (LocalIndexState(resource) # LocalIndexState(worker[w].seen))
          ELSE /\ task' = MarkStopped(task, t)
               /\ UNCHANGED <<resource, overtaken>>
       /\ Leaves(w)
       /\ UNCHANGED <<Outside, index>>

(* The process dies and recoverInterruptedTasks runs before anything else starts.*)
Restart ==
    /\ restarts < MaxRestarts
    /\ restarts' = restarts + 1
    /\ task' = [t \in Tasks |->
          [task[t] EXCEPT !.status =
              IF @ = "running" THEN "failed" ELSE IF @ = "stopping" THEN "stopped" ELSE @]]
    /\ queue' = <<>>
    /\ inFlight' = {}
    /\ worker' = [w \in Workers |-> Idle]
    /\ call' = [c \in Callers |-> NoCall]
    /\ cleaner' = Asleep
    /\ UNCHANGED <<source, resource, index, starts, overtaken>>

-------------------------------------------------------------------------------
(* The cleanup of indexes, which knows the task an index belongs to by the       *)
(* metadata of the index.                                                        *)

Cleans(to) ==
    /\ cleaner' = to
    /\ UNCHANGED <<source, resource, task, queue, inFlight, worker, call,
                   starts, restarts, overtaken>>

(* The indexes and the references of the resources are listed first.             *)
runOnce(i) ==
    /\ cleaner.step = "asleep"
    /\ index[i].exists /\ index[i].managed
    /\ i # Published(resource)
    /\ Cleans([step |-> "listed", index |-> i, exists |-> resource.exists])
    /\ UNCHANGED index

(* classifyOwnership: an index is left to a task that may still use it.          *)
\* Mutant of Obsolete: the index of a stopped task is not kept for its restart.
ObsoleteOnceSettled(i, resourceExists) == task[i].status \in Terminal \cup {"deleted"}
Obsolete(i, resourceExists) ==
    \/ task[i].status \in {"deleted", "cancelled", "completed"}
    \/ task[i].status \in Startable /\ ~resourceExists

classify ==
    /\ cleaner.step = "listed"
    /\ Cleans(IF Obsolete(cleaner.index, cleaner.exists)
              THEN [cleaner EXCEPT !.step = "candidate", !.exists = FALSE] ELSE Asleep)
    /\ UNCHANGED index

(* recheckCandidate reads the resource again, then the task.                     *)
recheckReference ==
    /\ cleaner.step = "candidate"
    /\ Cleans(IF Published(resource) = cleaner.index THEN Asleep
              ELSE [cleaner EXCEPT !.step = "unreferenced", !.exists = resource.exists])
    /\ UNCHANGED index

recheckCandidate ==
    /\ cleaner.step = "unreferenced"
    /\ Cleans(IF Obsolete(cleaner.index, cleaner.exists)
              THEN [cleaner EXCEPT !.step = "doomed", !.exists = FALSE] ELSE Asleep)
    /\ UNCHANGED index

DeleteIndex ==
    /\ cleaner.step = "doomed"
    /\ index' = [index EXCEPT ![cleaner.index] = NoIndex]
    /\ Cleans(Asleep)

-------------------------------------------------------------------------------
TaskHandler(c) ==
    \/ \E incremental \in BOOLEAN : AskCreate(c, incremental)
    \/ Create(c)
    \/ \E t \in Tasks, reset \in BOOLEAN : AskStart(c, t, reset)
    \/ Start(c)
    \/ \E t \in Tasks : AskStop(c, t) \/ AskDelete(c, t)
    \/ Stop(c)
    \/ DeleteByIDs(c)

ResourceHandler(c) ==
    \/ \E config \in Configs, byDiscovery \in BOOLEAN : AskEdit(c, config, byDiscovery)
    \/ Edit(c)
    \/ AskDeleteResource(c)
    \/ DeleteResource(c)

Worker(w) ==
    \/ runBatchTask(w) \/ Claim(w) \/ PrepareIndex(w)
    \/ ReadBatch(w) \/ IndexDocuments(w)
    \/ SetFullProgress(w) \/ ReadForCheckpoint(w) \/ commitIncrementalProgress(w)
    \/ completeIncrementalBuildTask(w) \/ ReadForPublication(w)
    \/ completeFullBuildTask(w)
    \/ failTask(w) \/ removeInFlight(w)

Cleaner ==
    \/ \E i \in Tasks : runOnce(i)
    \/ classify \/ recheckReference \/ recheckCandidate \/ DeleteIndex

Next ==
    \/ AddRow
    \/ \E c \in TaskCallers : TaskHandler(c)
    \/ \E c \in Editors : ResourceHandler(c)
    \/ fillBatchQueue
    \/ \E w \in Workers : Worker(w)
    \/ Cleaner
    \/ Restart

Spec == Init /\ [][Next]_vars

-------------------------------------------------------------------------------
TypeOK ==
    /\ source \in 0..MaxRows
    /\ resource \in Resources
    /\ task \in [Tasks -> TaskRows]
    /\ index \in [Tasks -> Indexes]
    /\ queue \in Seq(Tasks) /\ inFlight \subseteq Tasks
    /\ worker \in [Workers -> Jobs]
    /\ call \in [Callers -> Requests]
    /\ cleaner \in Sweeps
    /\ overtaken \in BOOLEAN

(* What the resource serves is there, was built for its configuration and holds  *)
(* every row up to the checkpoint, unless a write overtook another one since the  *)
(* last full publication.                                                        *)
PublishedIsComplete ==
    LET i == Published(resource)
    IN i # NoTask /\ ~overtaken =>
          /\ index[i].exists
          /\ task[i].config.mapping = resource.config.mapping
          /\ resource.mark # NoMark => 1..resource.mark \subseteq index[i].rows

(* A full build that can go on finds what it has copied so far.                   *)
CheckpointIsBacked ==
    \A t \in Tasks :
        /\ resource.exists
        /\ task[t].status \in Active \cup Startable
        /\ ~task[t].incremental /\ task[t].mark # NoMark
        => index[t].exists /\ 1..task[t].mark \subseteq index[t].rows

(* A task is in the hands of one worker at most, and of none while it waits in    *)
(* the queue.                                                                    *)
OneWorkerPerTask ==
    \A w \in Workers : worker[w].task # NoTask =>
        /\ worker[w].task \in inFlight
        /\ \A other \in Workers \ {w} : worker[other].task # worker[w].task
        /\ \A k \in DOMAIN queue : queue[k] # worker[w].task

(* A full build is published by its completion and by nothing else: an index     *)
(* that was stopped, failed or cancelled is never served.                         *)
OnlyCompletedIsPublished ==
    Published(resource) # NoTask =>
        task[Published(resource)].status \in {"completed", "deleted"}
===============================================================================
