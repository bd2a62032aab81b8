--------------------------- MODULE BuildTasksProofs ---------------------------
(* Proofs about BuildTasks, for any tasks, workers, handlers, configurations,     *)
(* batch size and bounds. What a resource has served is retired: its task is over  *)
(* and no worker builds it again; hence nobody recreates an index that is served,  *)
(* and the cleanup, which only judges tasks that are over or whose resource is      *)
(* gone, deletes none that is served or resumed from.                              *)
EXTENDS BuildTasks, FiniteSetTheorems, TLAPS

Builds(w) == worker[w].step \in Working

(* A task that completed or was deleted, and that no worker builds.                *)
Retired(t) ==
    /\ t \in Tasks
    /\ task[t].status \in {"completed", "deleted"}
    /\ \A w \in Workers : worker[w].task = t => ~Builds(w)

(* Nothing the full build of the task has copied is needed any more.               *)
Gone(t) == ~resource.exists \/ task[t].status \in {"completed", "cancelled", "deleted"}

Holds(i, mark) == index[i].exists /\ 1..mark \subseteq index[i].rows

(* Queue, workers and inFlight agree on who has which task.                        *)
TasksInHand ==
    /\ \A w \in Workers : (worker[w].step = "idle") <=> (worker[w].task = NoTask)
    /\ \A w \in Workers : worker[w].task # NoTask => task[worker[w].task].status # "absent"
    /\ \A k \in DOMAIN queue : queue[k] \in inFlight /\ task[queue[k]].status # "absent"
    /\ \A j, k \in DOMAIN queue : queue[j] = queue[k] => j = k
    /\ OneWorkerPerTask

(* A row that was created does not change its index.                               *)
RowsNameIndexes ==
    \A t \in Tasks :
        IF task[t].status = "absent" THEN task[t] = NewTask
        ELSE IF task[t].incremental THEN Retired(task[t].index)
        ELSE task[t].index = t

(* What a handler has read was true of the resource once.                          *)
RequestOK(request) ==
    /\ request.op = "incremental" => Retired(request.seen.index)
    /\ request.op = "edit" =>
          /\ request.seen.exists /\ request.seen.version < MaxEdits
          /\ HasAvailableLocalIndex(request.seen) => Retired(request.seen.index)
    /\ request.op \in {"start", "reset", "stop", "halt", "delete"} =>
          request.task \in Tasks /\ task[request.task].status # "absent"

ServedIsRetired == Published(resource) # NoTask => Retired(Published(resource))

(* What a worker has read of the resource, in a transaction, fits its task.        *)
WorkerReads(w) ==
    LET seen == worker[w].seen
        row == task[worker[w].task]
    IN /\ worker[w].step = "commit" =>
             /\ row.incremental
             /\ HasBaseline(seen) /\ FingerprintMatches(seen, row)
             /\ seen.index = row.index /\ seen.mark = worker[w].mark
       /\ worker[w].step = "publish" =>
             ~row.incremental /\ FingerprintMatches(seen, row)

(* The checkpoint of a full build, in its row or in the memory of its worker, is   *)
(* not ahead of the index.                                                         *)
RowBacked(t) ==
    ~task[t].incremental /\ ~Gone(t) /\ task[t].mark # NoMark => Holds(t, task[t].mark)

WorkerBacked(w) ==
    LET t == worker[w].task
        step == worker[w].step
    IN ~task[t].incremental /\ ~Gone(t) =>
          /\ step \in {"claim", "prepare"} => task[t].mark \in {NoMark, worker[w].mark}
          /\ worker[w].mark # NoMark => Holds(t, worker[w].mark)
          /\ step \in {"read", "write", "progress", "complete", "publish"} => index[t].exists
          /\ step = "progress" => (From(w) + 1)..worker[w].upto \subseteq index[t].rows

(* An incremental build has written its batch to the index that is served, unless  *)
(* that is another one by now.                                                     *)
WorkerServes(w) ==
    LET row == task[worker[w].task]
    IN /\ row.incremental /\ worker[w].step \in {"progress", "commit"}
       /\ ~overtaken /\ Published(resource) = row.index
       => (From(w) + 1)..worker[w].upto \subseteq index[row.index].rows

(* The cleanup's candidates are no longer needed; from the second look at the      *)
(* resource on they are not served either.                                         *)
Judged ==
    /\ cleaner.step # "asleep" => cleaner.index \in Tasks
    /\ cleaner.step \in {"listed", "unreferenced"} /\ ~cleaner.exists => ~resource.exists
    /\ cleaner.step \in {"candidate", "unreferenced", "doomed"} => Gone(cleaner.index)
    /\ cleaner.step \in {"unreferenced", "doomed"} /\ ~overtaken
          => Published(resource) # cleaner.index

IInv ==
    /\ TypeOK /\ TasksInHand /\ RowsNameIndexes /\ ServedIsRetired
    /\ \A c \in Callers : RequestOK(call[c])
    /\ \A t \in Tasks : RowBacked(t)
    /\ \A w \in Workers : Builds(w) => WorkerReads(w) /\ WorkerBacked(w) /\ WorkerServes(w)
    /\ Judged
    /\ PublishedIsComplete

-------------------------------------------------------------------------------
(* Data.                                                                         *)

LEMMA Bounds == MaxRows \in Nat /\ MaxEdits \in Nat /\ BatchSize \in Nat /\ BatchSize > 0
BY BoundsAssumption

LEMMA MarkTypes ==
    /\ NoMark \in Marks /\ 0 \in Marks
    /\ \A m \in Marks : m \in Int /\ m <= MaxRows /\ (m # NoMark => m \in 0..MaxRows)
    /\ 0..MaxRows \subseteq Marks
BY Bounds DEF Marks, NoMark

LEMMA Blanks ==
    /\ NewResource \in Resources /\ DeletedResource \in Resources
    /\ NewTask \in TaskRows /\ NoIndex \in Indexes /\ Idle \in Jobs
    /\ NoCall \in Requests /\ Asleep \in Sweeps
<1>1. FirstConfig \in Configs
  BY ConfigsAssumption
<1>2. NewResource \in Resources
  BY <1>1, Bounds, MarkTypes DEF NewResource, Resources
<1>3. DeletedResource \in Resources
  BY <1>2 DEF DeletedResource, Resources
<1>4. NewTask \in TaskRows /\ NoIndex \in Indexes
  BY <1>1, MarkTypes DEF NewTask, TaskRows, Statuses, NoIndex, Indexes
<1>5. Idle \in Jobs
  BY <1>2, Bounds, MarkTypes DEF Idle, Jobs
<1>6. NoCall \in Requests /\ Asleep \in Sweeps
  BY <1>1, <1>2 DEF NoCall, Requests, Asleep, Sweeps
<1> QED
  BY <1>2, <1>3, <1>4, <1>5, <1>6

LEMMA SmallerOfTwo ==
    ASSUME NEW a \in Int, NEW b \in Int
    PROVE  Min({a, b}) = (IF a <= b THEN a ELSE b)
BY DEF Min

LEMMA LargerOfTwo ==
    ASSUME NEW a \in Int, NEW b \in Int
    PROVE  Max({a, b}) = (IF a >= b THEN a ELSE b)
BY DEF Max

(* A batch ends where the source ends, and not before it begins.                   *)
LEMMA BatchEnds ==
    ASSUME NEW from \in 0..MaxRows, source \in 0..MaxRows
    PROVE  Upto(from) \in from..MaxRows
<1>1. from + BatchSize \in Int /\ from \in Int /\ source \in Int /\ MaxRows \in Int
  BY Bounds
<1> DEFINE to == Min({from + BatchSize, source})
<1>2. to \in Int /\ to <= source
  BY <1>1, SmallerOfTwo
<1>3. Max({from, to}) = (IF from >= to THEN from ELSE to)
  BY <1>1, <1>2, LargerOfTwo
<1>4. Upto(from) = Max({from, to})
  BY DEF Upto
<1> HIDE DEF to
<1> QED
  BY <1>1, <1>2, <1>3, <1>4

(* The guarded updates change the status, or the checkpoint, of one row.           *)
LEMMA MarkedRows ==
    ASSUME NEW rows \in [Tasks -> TaskRows], NEW t \in Tasks, NEW from, NEW to \in Statuses
    PROVE  /\ Marked(rows, t, from, to) \in [Tasks -> TaskRows]
           /\ \A u \in Tasks : u # t => Marked(rows, t, from, to)[u] = rows[u]
           /\ rows[t].status \notin from => Marked(rows, t, from, to) = rows
           /\ rows[t].status \in from => Marked(rows, t, from, to)[t].status = to
           /\ \A u \in Tasks : LET new == Marked(rows, t, from, to)[u] IN
                 /\ new.incremental = rows[u].incremental /\ new.config = rows[u].config
                 /\ new.index = rows[u].index /\ new.mark = rows[u].mark
BY DEF Marked, TaskRows

LEMMA ProgressedRows ==
    ASSUME NEW rows \in [Tasks -> TaskRows], NEW t \in Tasks, NEW mark \in Marks
    PROVE  /\ SetProgress(rows, t, mark) \in [Tasks -> TaskRows]
           /\ \A u \in Tasks : u # t => SetProgress(rows, t, mark)[u] = rows[u]
           /\ SetProgress(rows, t, mark)[t].mark \in {rows[t].mark, mark}
           /\ \A u \in Tasks : LET new == SetProgress(rows, t, mark)[u] IN
                 /\ new.incremental = rows[u].incremental /\ new.config = rows[u].config
                 /\ new.index = rows[u].index /\ new.status = rows[u].status
BY DEF SetProgress, TaskRows

-------------------------------------------------------------------------------
(* What actions have in common.                                                  *)

(* A row keeps what it was created with, and a task that is over stays over.       *)
RowKept(t) ==
    /\ task'[t].incremental = task[t].incremental /\ task'[t].config = task[t].config
    /\ task'[t].index = task[t].index
    /\ task[t].status = "absent" => task'[t] = task[t]
    /\ task[t].status # "absent" => task'[t].status # "absent"
    /\ task[t].status = "completed" => task'[t].status \in {"completed", "deleted"}
    /\ task[t].status = "cancelled" => task'[t].status \in {"cancelled", "deleted"}
    /\ task[t].status = "deleted" => task'[t].status = "deleted"

(* A worker goes on as it was, or is through with its task.                        *)
WorkerKept(w) ==
    \/ worker'[w] = worker[w]
    \/ worker[w].step # "idle" /\ worker'[w] = Left(worker[w].task)

LEMMA TypeFacts ==
    ASSUME TypeOK
    PROVE  /\ \A t \in Tasks :
                 /\ task[t].status \in Statuses /\ task[t].incremental \in BOOLEAN
                 /\ task[t].config \in Configs /\ task[t].index \in Tasks \cup {NoTask}
                 /\ task[t].mark \in Marks
           /\ \A t \in Tasks : index[t].exists \in BOOLEAN /\ index[t].rows \subseteq 1..MaxRows
           /\ \A w \in Workers :
                 /\ worker[w].step \in Working \cup {"idle", "leaving"}
                 /\ worker[w].task \in Tasks \cup {NoTask} /\ worker[w].mark \in Marks
                 /\ worker[w].upto \in 0..MaxRows /\ worker[w].last \in BOOLEAN
                 /\ worker[w].seen \in Resources
           /\ \A c \in Callers :
                 /\ call[c].task \in Tasks \cup {NoTask} /\ call[c].config \in Configs
                 /\ call[c].seen \in Resources
           /\ resource.exists \in BOOLEAN /\ resource.config \in Configs
           /\ resource.version \in 0..MaxEdits /\ resource.mark \in Marks
           /\ resource.index \in Tasks \cup {NoTask}
           /\ resource.status \in {"unavailable", "available", "stale"}
           /\ Published(resource) \in Tasks \cup {NoTask}
BY DEF TypeOK, TaskRows, Indexes, Jobs, Requests, Resources, Published,
   HasAvailableLocalIndex

LEMMA LeftJobs ==
    ASSUME NEW t \in Tasks
    PROVE  Left(t) \in Jobs /\ Left(t).step = "leaving" /\ Left(t).task = t
<1>1. Idle \in Jobs
  BY Blanks
<1> QED
  BY <1>1 DEF Left, Jobs

(* A worker that builds has a task, and no other worker has it.                    *)
LEMMA BuilderHasTask ==
    ASSUME IInv, NEW w \in Workers, Builds(w)
    PROVE  /\ worker[w].task \in Tasks /\ worker[w].task \in inFlight
           /\ task[worker[w].task].status # "absent"
           /\ \A v \in Workers \ {w} : worker[v].task # worker[w].task
           /\ ~Retired(worker[w].task)
<1>1. worker[w].task # NoTask
  BY DEF IInv, TasksInHand, Builds, Working
<1>2. worker[w].task \in Tasks
  BY <1>1, TypeFacts DEF IInv
<1> QED
  BY <1>1, <1>2 DEF IInv, TasksInHand, OneWorkerPerTask, Retired

LEMMA HandsKept ==
    ASSUME IInv, UNCHANGED <<queue, inFlight>>,
           \A u \in Tasks : task[u].status # "absent" => task'[u].status # "absent",
           \A v \in Workers :
              /\ worker'[v].task = worker[v].task
              /\ (worker'[v].step = "idle") <=> (worker[v].step = "idle")
    PROVE  TasksInHand'
<1>1. \A k \in DOMAIN queue : queue[k] \in Tasks
  BY DEF IInv, TypeOK
<1>2. \A v \in Workers : worker[v].task # NoTask => worker[v].task \in Tasks
  BY TypeFacts DEF IInv
<1>3. \A w \in Workers : worker'[w].task # NoTask => task'[worker'[w].task].status # "absent"
  BY <1>2 DEF IInv, TasksInHand
<1>4. \A k \in DOMAIN queue : queue[k] \in inFlight /\ task'[queue[k]].status # "absent"
  BY <1>1 DEF IInv, TasksInHand
<1>5. OneWorkerPerTask'
  BY DEF IInv, TasksInHand, OneWorkerPerTask
<1> QED
  BY <1>3, <1>4, <1>5 DEF IInv, TasksInHand

LEMMA GoneStays ==
    ASSUME NEW t \in Tasks, RowKept(t), resource.exists' => resource.exists, Gone(t)
    PROVE  Gone(t)'
BY DEF Gone, RowKept

LEMMA RetiredStays ==
    ASSUME IInv, NEW t, t \in Tasks => RowKept(t), Retired(t),
           \A w \in Workers : worker'[w].task = t /\ Builds(w)'
                => worker[w].task = t /\ Builds(w)
    PROVE  Retired(t)'
BY DEF Retired, RowKept

(* Workers that stop, handlers that are through, and rows that change their status. *)
LEMMA RetreatIInv ==
    ASSUME IInv, TypeOK', UNCHANGED <<resource, index, cleaner, queue, inFlight, overtaken>>,
           \A t \in Tasks :
              /\ RowKept(t)
              /\ \/ task'[t].mark \in {task[t].mark, NoMark}
                 \/ /\ Gone(t) \/ task[t].incremental \/ Holds(t, task'[t].mark)
                    /\ \A w \in Workers : worker[w].task = t => ~Builds(w)',
           \A w \in Workers : WorkerKept(w),
           \A c \in Callers : call'[c] = call[c] \/ call'[c] = NoCall
    PROVE  IInv'
<1>1. \A w \in Workers :
         /\ worker'[w].task = worker[w].task
         /\ (worker'[w].step = "idle") <=> (worker[w].step = "idle")
         /\ Builds(w)' => Builds(w) /\ worker'[w] = worker[w]
  <2> SUFFICES ASSUME NEW w \in Workers, worker'[w] # worker[w]
               PROVE  /\ worker'[w].task = worker[w].task
                      /\ worker'[w].step = "leaving" /\ worker[w].step # "idle"
    BY DEF Builds, Working
  <2>1. worker[w].task \in Tasks
    BY TypeFacts DEF WorkerKept, IInv, TasksInHand
  <2> QED
    BY <2>1, LeftJobs DEF WorkerKept
<1>2. \A t \in Tasks : Gone(t) => Gone(t)'
  BY GoneStays
<1>3. \A t : Retired(t) => Retired(t)'
  BY <1>1, RetiredStays
<1>4. TasksInHand'
  <2>1. queue \in Seq(Tasks) /\ \A k \in DOMAIN queue : queue[k] \in Tasks
    BY DEF IInv, TypeOK
  <2>2. \A w \in Workers : worker[w].task \in Tasks \cup {NoTask}
    BY TypeFacts DEF IInv
  <2> QED
    BY <1>1, <2>1, <2>2 DEF IInv, TasksInHand, OneWorkerPerTask, RowKept
<1>5. RowsNameIndexes'
  BY <1>3 DEF IInv, RowsNameIndexes, RowKept
<1>6. ServedIsRetired'
  BY <1>3 DEF IInv, ServedIsRetired
<1>7. \A c \in Callers : RequestOK(call[c])'
  <2> SUFFICES ASSUME NEW c \in Callers PROVE RequestOK(call[c])'
    OBVIOUS
  <2>1. CASE call'[c] = NoCall
    BY <2>1 DEF RequestOK, NoCall
  <2>2. CASE call'[c] = call[c]
    BY <1>3, <2>2 DEF IInv, RequestOK, RowKept
  <2> QED
    BY <2>1, <2>2
<1>8. \A t \in Tasks : RowBacked(t)'
  BY <1>2 DEF IInv, RowBacked, RowKept, Holds
<1>9. \A w \in Workers : Builds(w)' => (WorkerReads(w) /\ WorkerBacked(w) /\ WorkerServes(w))'
  <2> SUFFICES ASSUME NEW w \in Workers, Builds(w)'
               PROVE  (WorkerReads(w) /\ WorkerBacked(w) /\ WorkerServes(w))'
    OBVIOUS
  <2>1. Builds(w) /\ worker'[w] = worker[w]
    BY <1>1
  <2>2. worker[w].task \in Tasks
    BY <2>1, BuilderHasTask
  <2>3. WorkerReads(w)'
    BY <2>1, <2>2 DEF IInv, WorkerReads, FingerprintMatches, RowKept
  <2>4. WorkerBacked(w)'
    BY <1>2, <2>1, <2>2 DEF IInv, WorkerBacked, RowKept, Holds, From
  <2>5. WorkerServes(w)'
    BY <2>1, <2>2 DEF IInv, WorkerServes, RowKept, From
  <2> QED
    BY <2>3, <2>4, <2>5
<1>10. Judged'
  BY <1>2 DEF IInv, Judged
<1>11. PublishedIsComplete'
  BY TypeFacts DEF IInv, PublishedIsComplete, RowKept
<1> QED
  BY <1>4, <1>5, <1>6, <1>7, <1>8, <1>9, <1>10, <1>11 DEF IInv

(* A worker that goes on with its task. It may write to the index of that task, if  *)
(* it only adds to every other one, and to the resource, if it serves what was       *)
(* retired; the rest is what holds of this worker and of what is served.            *)
LEMMA StepIInv ==
    ASSUME IInv, TypeOK', NEW w \in Workers, Builds(w), Builds(w)',
           UNCHANGED <<call, cleaner, queue, inFlight>>,
           worker'[w].task = worker[w].task,
           \A v \in Workers \ {w} : worker'[v] = worker[v],
           \A t \in Tasks \ {worker[w].task} : task'[t] = task[t],
           RowKept(worker[w].task),
           \A i \in Tasks \ {worker[w].task} : index[i].exists =>
              index'[i].exists /\ index[i].rows \subseteq index'[i].rows,
           resource.exists' => resource.exists,
           overtaken => overtaken',
           Published(resource)' # NoTask => Retired(Published(resource)'),
           ~overtaken' /\ Published(resource)' # NoTask =>
              Published(resource)' = Published(resource),
           PublishedIsComplete',
           RowBacked(worker[w].task)',
           WorkerReads(w)', WorkerBacked(w)', WorkerServes(w)'
    PROVE  IInv'
<1> DEFINE t == worker[w].task
<1>1. /\ t \in Tasks /\ task[t].status # "absent" /\ ~Retired(t)
      /\ \A v \in Workers \ {w} : worker[v].task # t
  BY BuilderHasTask
<1>2. \A u \in Tasks : RowKept(u)
  BY <1>1 DEF RowKept
<1>3. \A u \in Tasks : Gone(u) => Gone(u)'
  BY <1>2, GoneStays
<1>4. \A u : Retired(u) => u \in Tasks /\ u # t /\ Retired(u)'
  BY <1>1, <1>2, RetiredStays DEF Retired, Builds
<1>5. TasksInHand'
  <2>1. \A k \in DOMAIN queue : queue[k] \in Tasks
    BY DEF IInv, TypeOK
  <2>2. \A v \in Workers : worker[v].task \in Tasks \cup {NoTask} /\ worker'[v].task = worker[v].task
    BY TypeFacts DEF IInv
  <2>3. worker'[w].step # "idle" /\ t # NoTask
    BY <1>1, TasksAssumption DEF Builds, Working
  <2> QED
    BY <1>1, <1>2, <2>1, <2>2, <2>3 DEF IInv, TasksInHand, OneWorkerPerTask, RowKept
<1>6. RowsNameIndexes'
  BY <1>2, <1>4 DEF IInv, RowsNameIndexes, RowKept
<1>7. ServedIsRetired'
  BY <1>4 DEF ServedIsRetired
<1>8. \A c \in Callers : RequestOK(call[c])'
  BY <1>2, <1>4 DEF IInv, RequestOK, RowKept
<1>9. \A u \in Tasks : RowBacked(u)'
  BY <1>3 DEF IInv, RowBacked, Holds
<1>10. \A v \in Workers : Builds(v)' => (WorkerReads(v) /\ WorkerBacked(v) /\ WorkerServes(v))'
  <2> SUFFICES ASSUME NEW v \in Workers \ {w}, Builds(v)'
               PROVE  (WorkerReads(v) /\ WorkerBacked(v) /\ WorkerServes(v))'
    OBVIOUS
  <2>1. Builds(v) /\ worker'[v] = worker[v]
    BY DEF Builds
  <2>2. worker[v].task \in Tasks \ {t}
    BY <1>1, <2>1, BuilderHasTask
  <2>3. task'[worker[v].task] = task[worker[v].task]
    BY <2>2
  <2>4. WorkerReads(v)'
    BY <2>1, <2>3 DEF IInv, WorkerReads
  <2>5. WorkerBacked(v)'
    BY <1>3, <2>1, <2>2, <2>3 DEF IInv, WorkerBacked, Holds, From
  <2>6. WorkerServes(v)'
    <3> SUFFICES ASSUME task[worker[v].task].incremental,
                        worker[v].step \in {"progress", "commit"}, ~overtaken',
                        Published(resource)' = task[worker[v].task].index
                 PROVE  (From(v) + 1)..worker[v].upto \subseteq
                           index'[task[worker[v].task].index].rows
      BY <2>1, <2>3 DEF WorkerServes, From
    <3>1. Retired(task[worker[v].task].index)
      BY <2>1, <2>2, BuilderHasTask DEF IInv, RowsNameIndexes
    <3>2. Published(resource) = task[worker[v].task].index /\ ~overtaken
      BY <3>1, TasksAssumption DEF Retired
    <3>3. index[task[worker[v].task].index].exists
      BY <3>1, <3>2, TasksAssumption DEF IInv, PublishedIsComplete, Retired
    <3> QED
      BY <1>4, <2>1, <3>1, <3>2, <3>3 DEF IInv, WorkerServes
  <2> QED
    BY <2>4, <2>5, <2>6
<1>11. Judged'
  BY <1>3, TasksAssumption DEF IInv, Judged
<1> QED
  BY <1>5, <1>6, <1>7, <1>8, <1>9, <1>10, <1>11 DEF IInv

LEMMA OnwardIInv ==
    ASSUME IInv, TypeOK', NEW w \in Workers, Builds(w), Builds(w)',
           UNCHANGED <<resource, call, cleaner, queue, inFlight, overtaken>>,
           worker'[w].task = worker[w].task,
           \A v \in Workers \ {w} : worker'[v] = worker[v],
           \A t \in Tasks \ {worker[w].task} : task'[t] = task[t],
           RowKept(worker[w].task),
           \A i \in Tasks \ {worker[w].task} : index[i].exists =>
              index'[i].exists /\ index[i].rows \subseteq index'[i].rows,
           RowBacked(worker[w].task)',
           WorkerReads(w)', WorkerBacked(w)', WorkerServes(w)'
    PROVE  IInv'
<1>1. Published(resource) # NoTask =>
         Retired(Published(resource)) /\ Published(resource) # worker[w].task
  BY BuilderHasTask DEF IInv, ServedIsRetired
<1>2. PublishedIsComplete'
  <2> SUFFICES ASSUME Published(resource) # NoTask, ~overtaken
               PROVE  LET i == Published(resource) IN
                      /\ index'[i].exists
                      /\ task'[i].config.mapping = resource.config.mapping
                      /\ resource.mark # NoMark => 1..resource.mark \subseteq index'[i].rows
    BY DEF PublishedIsComplete
  <2> QED
    BY <1>1 DEF IInv, PublishedIsComplete, Retired
<1> QED
  BY <1>1, <1>2, StepIInv

-------------------------------------------------------------------------------
(* Handlers.                                                                     *)

LEMMA AskIInv ==
    ASSUME NEW c \in Callers, NEW request \in Requests, IInv, Ask(c, request),
           RequestOK(request)
    PROVE  IInv'
<1>1. /\ call' = [call EXCEPT ![c] = request]
      /\ UNCHANGED <<source, resource, task, index, queue, inFlight, worker, cleaner, overtaken>>
  BY DEF Ask
<1>2. TypeOK'
  BY <1>1 DEF IInv, TypeOK
<1>3. \A t : Retired(t)' = Retired(t)
  BY <1>1 DEF Retired, Builds
<1>4. \A d \in Callers : RequestOK(call[d])'
  <2>1. call \in [Callers -> Requests]
    BY DEF IInv, TypeOK
  <2> QED
    BY <1>1, <1>3, <2>1 DEF IInv, RequestOK
<1>5. (TasksInHand /\ RowsNameIndexes /\ ServedIsRetired)'
  BY <1>1, <1>3 DEF IInv, TasksInHand, OneWorkerPerTask, RowsNameIndexes, ServedIsRetired
<1>6. (\A t \in Tasks : RowBacked(t))' /\ Judged' /\ PublishedIsComplete'
  BY <1>1 DEF IInv, RowBacked, Gone, Holds, Judged, PublishedIsComplete
<1>7. (\A w \in Workers : Builds(w) => WorkerReads(w) /\ WorkerBacked(w) /\ WorkerServes(w))'
  BY <1>1 DEF IInv, Builds, WorkerReads, WorkerBacked, WorkerServes, Gone, Holds, From
<1> QED
  BY <1>2, <1>4, <1>5, <1>6, <1>7 DEF IInv

(* What is served has a baseline's index.                                          *)
LEMMA ServedIndex ==
    ASSUME IInv, HasAvailableLocalIndex(resource)
    PROVE  resource.index \in Tasks /\ Retired(resource.index)
BY TypeFacts DEF IInv, ServedIsRetired, Published, HasAvailableLocalIndex

LEMMA AskCreateIInv ==
    ASSUME NEW c \in Callers, NEW incremental \in BOOLEAN, IInv, AskCreate(c, incremental)
    PROVE  IInv'
<1> DEFINE found == IF incremental THEN resource.index ELSE NoTask
           seen == [NewResource EXCEPT !.config = resource.config, !.index = found]
           request == [NoCall EXCEPT !.op = IF incremental THEN "incremental" ELSE "full",
                                     !.seen = seen]
<1>1. seen \in Resources /\ seen.index = found
  BY Blanks, TypeFacts DEF IInv, Resources
<1> HIDE DEF seen
<1>2. /\ request \in Requests /\ request.seen = seen
      /\ request.op = IF incremental THEN "incremental" ELSE "full"
  BY <1>1, Blanks DEF Requests
<1>3. Ask(c, request)
  BY DEF AskCreate, seen
<1> HIDE DEF request
<1>4. incremental => Retired(resource.index)
  BY ServedIndex DEF AskCreate, HasBaseline
<1>5. RequestOK(request)
  BY <1>1, <1>2, <1>4 DEF RequestOK
<1> QED
  BY <1>2, <1>3, <1>5, AskIInv

(* The other requests name a task and what is to become of it.                     *)
LEMMA AskTaskIInv ==
    ASSUME NEW c \in Callers, NEW t \in Tasks, IInv, task[t].status # "absent",
           NEW op \in {"start", "reset", "stop", "halt", "delete"},
           Ask(c, [NoCall EXCEPT !.op = op, !.task = t])
    PROVE  IInv'
<1> DEFINE request == [NoCall EXCEPT !.op = op, !.task = t]
<1>1. request \in Requests /\ request.op = op /\ request.task = t
  BY Blanks DEF Requests
<1> HIDE DEF request
<1>2. RequestOK(request)
  BY <1>1 DEF RequestOK
<1> QED
  BY <1>1, <1>2, AskIInv DEF request

LEMMA AskStartIInv ==
    ASSUME NEW c \in Callers, NEW t \in Tasks, NEW reset \in BOOLEAN, IInv,
           AskStart(c, t, reset)
    PROVE  IInv'
<1> DEFINE op == IF reset THEN "reset" ELSE "start"
<1>1. op \in {"start", "reset", "stop", "halt", "delete"} /\ task[t].status # "absent"
  BY DEF AskStart, Startable
<1>2. Ask(c, [NoCall EXCEPT !.op = op, !.task = t])
  BY DEF AskStart
<1> HIDE DEF op
<1> QED
  BY <1>1, <1>2, AskTaskIInv

LEMMA AskStopIInv ==
    ASSUME NEW c \in Callers, NEW t \in Tasks, IInv, AskStop(c, t)
    PROVE  IInv'
<1> DEFINE op == IF task[t].status = "pending" THEN "stop" ELSE "halt"
<1>1. op \in {"start", "reset", "stop", "halt", "delete"} /\ task[t].status # "absent"
  BY DEF AskStop
<1>2. [NoCall EXCEPT !.task = t, !.op = op] = [NoCall EXCEPT !.op = op, !.task = t]
  BY Blanks DEF Requests
<1>3. Ask(c, [NoCall EXCEPT !.op = op, !.task = t])
  BY <1>2 DEF AskStop
<1> HIDE DEF op
<1> QED
  BY <1>1, <1>3, AskTaskIInv

LEMMA AskDeleteIInv ==
    ASSUME NEW c \in Callers, NEW t \in Tasks, IInv, AskDelete(c, t)
    PROVE  IInv'
<1>1. task[t].status # "absent"
  BY DEF AskDelete, Terminal, Startable
<1> QED
  BY <1>1, AskTaskIInv DEF AskDelete

LEMMA AnsweredCalls ==
    ASSUME TypeOK, NEW c \in Callers, Answered(c)
    PROVE  /\ call' \in [Callers -> Requests]
           /\ \A d \in Callers : call'[d] = call[d] \/ call'[d] = NoCall
BY Blanks DEF TypeOK, Answered

LEMMA MarkedKeeps ==
    ASSUME IInv, NEW t \in Tasks, NEW from, NEW to \in Statuses \ {"absent"},
           from \subseteq Active,
           task' = Marked(task, t, from, to)
    PROVE  /\ task' \in [Tasks -> TaskRows]
           /\ \A u \in Tasks : RowKept(u) /\ task'[u].mark = task[u].mark
<1>1. task \in [Tasks -> TaskRows]
  BY DEF IInv, TypeOK
<1>2. /\ task' \in [Tasks -> TaskRows] /\ \A u \in Tasks : u # t => task'[u] = task[u]
      /\ task[t].status \notin from => task' = task
      /\ task[t].status \in from => task'[t].status = to
      /\ \A u \in Tasks :
            /\ task'[u].incremental = task[u].incremental /\ task'[u].config = task[u].config
            /\ task'[u].index = task[u].index /\ task'[u].mark = task[u].mark
  BY <1>1, MarkedRows
<1>3. \A u \in Tasks : RowKept(u)
  <2>1. CASE task[t].status \notin from
    BY <1>2, <2>1 DEF RowKept
  <2>2. CASE task[t].status \in from
    <3>1. task[t].status \in Active
      BY <2>2
    <3> QED
      BY <1>2, <2>2, <3>1 DEF RowKept, Active
  <2> QED
    BY <2>1, <2>2
<1> QED
  BY <1>2, <1>3

LEMMA StopIInv ==
    ASSUME NEW c \in Callers, IInv, Stop(c)
    PROVE  IInv'
<1> DEFINE t == call[c].task
<1>1. t \in Tasks
  BY DEF IInv, Stop, RequestOK
<1>2. PICK from \in SUBSET Active, to \in {"stopped", "stopping"} :
         task' = Marked(task, t, from, to)
  BY DEF Stop, MarkStopped, Active
<1>3. /\ task' \in [Tasks -> TaskRows]
      /\ \A u \in Tasks : RowKept(u) /\ task'[u].mark = task[u].mark
  BY <1>1, <1>2, MarkedKeeps DEF Statuses, Active, Terminal, Startable
<1>4. /\ Answered(c)
      /\ UNCHANGED <<source, resource, index, queue, inFlight, worker, cleaner, overtaken>>
  BY DEF Stop
<1>5. TypeOK'
  BY <1>3, <1>4, AnsweredCalls DEF IInv, TypeOK
<1> QED
  BY <1>3, <1>4, <1>5, AnsweredCalls, RetreatIInv DEF WorkerKept, IInv

LEMMA StartIInv ==
    ASSUME NEW c \in Callers, IInv, Start(c)
    PROVE  IInv'
<1> DEFINE t == call[c].task
           mark == IF call[c].op = "reset" THEN NoMark ELSE task[t].mark
<1>1. t \in Tasks /\ task[t].status # "absent"
  BY DEF IInv, Start, RequestOK
<1>2. task \in [Tasks -> TaskRows] /\ task[t] \in TaskRows
  BY <1>1 DEF IInv, TypeOK
<1>3. mark \in Marks /\ mark \in {NoMark, task[t].mark}
  BY <1>2, MarkTypes DEF TaskRows
<1>4. /\ task' \in [Tasks -> TaskRows]
      /\ \A u \in Tasks : RowKept(u) /\ task'[u].mark \in {task[u].mark, NoMark}
  <2>1. CASE task[t].status \in Startable
    <3>1. task' = [task EXCEPT ![t].status = "pending", ![t].mark = mark]
      BY <2>1 DEF Start
    <3> HIDE DEF mark
    <3>2. /\ task' \in [Tasks -> TaskRows] /\ \A u \in Tasks : u # t => task'[u] = task[u]
          /\ task'[t].status = "pending" /\ task'[t].mark = mark
          /\ task'[t].incremental = task[t].incremental
          /\ task'[t].config = task[t].config /\ task'[t].index = task[t].index
      BY <1>1, <1>2, <1>3, <3>1 DEF TaskRows, Statuses, Active
    <3>3. \A u \in Tasks : RowKept(u)
      BY <1>1, <2>1, <3>2 DEF RowKept, Startable
    <3> QED
      BY <1>3, <3>2, <3>3
  <2>2. CASE task[t].status \notin Startable
    BY <1>2, <2>2 DEF Start, RowKept
  <2> QED
    BY <2>1, <2>2
<1>5. /\ Answered(c)
      /\ UNCHANGED <<source, resource, index, queue, inFlight, worker, cleaner, overtaken>>
  BY DEF Start
<1>6. TypeOK'
  BY <1>4, <1>5, AnsweredCalls DEF IInv, TypeOK
<1> QED
  BY <1>4, <1>5, <1>6, AnsweredCalls, RetreatIInv DEF WorkerKept, IInv

LEMMA DeleteByIDsIInv ==
    ASSUME NEW c \in Callers, IInv, DeleteByIDs(c)
    PROVE  IInv'
<1> DEFINE t == call[c].task
<1>1. t \in Tasks /\ task[t].status # "absent"
  BY DEF IInv, DeleteByIDs, RequestOK
<1>2. task \in [Tasks -> TaskRows] /\ task[t] \in TaskRows
  BY <1>1 DEF IInv, TypeOK
<1>3. task' = [task EXCEPT ![t].status = "deleted"]
  BY DEF DeleteByIDs
<1>4. /\ task' \in [Tasks -> TaskRows] /\ \A u \in Tasks : u # t => task'[u] = task[u]
      /\ task'[t].status = "deleted" /\ task'[t].mark = task[t].mark
      /\ task'[t].incremental = task[t].incremental
      /\ task'[t].config = task[t].config /\ task'[t].index = task[t].index
  BY <1>1, <1>2, <1>3 DEF TaskRows, Statuses
<1>5. \A u \in Tasks : RowKept(u) /\ task'[u].mark = task[u].mark
  BY <1>1, <1>4 DEF RowKept
<1>6. /\ Answered(c)
      /\ UNCHANGED <<source, resource, index, queue, inFlight, worker, cleaner, overtaken>>
  BY DEF DeleteByIDs
<1>7. TypeOK'
  BY <1>4, <1>6, AnsweredCalls DEF IInv, TypeOK
<1> QED
  BY <1>5, <1>6, <1>7, AnsweredCalls, RetreatIInv DEF WorkerKept, IInv

(* The new row takes a free id, which no worker, queue or handler knows.           *)
LEMMA CreateIInv ==
    ASSUME NEW c \in Callers, IInv, Create(c)
    PROVE  IInv'
<1> DEFINE request == call[c]
           incremental == request.op = "incremental"
           new(t) == [status |-> "pending", incremental |-> incremental,
                      config |-> request.seen.config,
                      index |-> IF incremental THEN request.seen.index ELSE t,
                      mark |-> NoMark]
<1>1. PICK t \in Absent : task' = [task EXCEPT ![t] = new(t)]
  BY DEF Create
<1>2. /\ t \in Tasks /\ task[t].status = "absent" /\ task[t] = NewTask
      /\ task \in [Tasks -> TaskRows]
  BY DEF Absent, IInv, TypeOK, RowsNameIndexes
<1>3. incremental => Retired(request.seen.index)
  BY DEF IInv, RequestOK
<1>4. new(t) \in TaskRows
  <2>1. request.seen \in Resources
    BY TypeFacts DEF IInv
  <2>2. request.seen.config \in Configs /\ request.seen.index \in Tasks \cup {NoTask}
    BY <2>1 DEF Resources
  <2> QED
    BY <1>2, <2>2, MarkTypes DEF TaskRows, Statuses, Active
<1>5. /\ task' \in [Tasks -> TaskRows] /\ \A u \in Tasks : u # t => task'[u] = task[u]
      /\ task'[t].status = "pending" /\ task'[t].mark = NoMark
      /\ task'[t].incremental = incremental
      /\ task'[t].index = IF incremental THEN request.seen.index ELSE t
  BY <1>1, <1>2, <1>4
<1> HIDE DEF new
<1>6. /\ Answered(c)
      /\ UNCHANGED <<source, resource, index, queue, inFlight, worker, cleaner, overtaken>>
  BY DEF Create
<1>7. TypeOK'
  BY <1>5, <1>6, AnsweredCalls DEF IInv, TypeOK
<1>8. \A u : Retired(u) => u # t /\ Retired(u)'
  BY <1>2, <1>5, <1>6 DEF Retired, Builds
<1>9. \A u \in Tasks : Gone(u) => (u = t \/ Gone(u)')
  BY <1>5, <1>6 DEF Gone
<1>10. TasksInHand'
  BY <1>2, <1>5, <1>6, HandsKept
<1>11. RowsNameIndexes'
  <2> SUFFICES ASSUME NEW u \in Tasks
               PROVE  (IF task[u].status = "absent" THEN task[u] = NewTask
                       ELSE IF task[u].incremental THEN Retired(task[u].index)
                       ELSE task[u].index = u)'
    BY DEF RowsNameIndexes
  <2>1. CASE u = t
    BY <1>3, <1>5, <1>8, <2>1
  <2>2. CASE u # t
    BY <1>5, <1>8, <2>2 DEF IInv, RowsNameIndexes
  <2> QED
    BY <2>1, <2>2
<1>12. ServedIsRetired'
  BY <1>6, <1>8 DEF IInv, ServedIsRetired
<1>13. \A d \in Callers : RequestOK(call[d])'
  <2> SUFFICES ASSUME NEW d \in Callers PROVE RequestOK(call[d])'
    OBVIOUS
  <2>1. CASE call'[d] = NoCall
    BY <2>1 DEF RequestOK, NoCall
  <2>2. CASE call'[d] = call[d]
    BY <1>2, <1>5, <1>8, <2>2 DEF IInv, RequestOK
  <2> QED
    BY <1>6, <2>1, <2>2, AnsweredCalls DEF IInv
<1>14. \A u \in Tasks : RowBacked(u)'
  BY <1>5, <1>6, <1>9 DEF IInv, RowBacked, Holds
<1>15. \A w \in Workers : Builds(w)' => (WorkerReads(w) /\ WorkerBacked(w) /\ WorkerServes(w))'
  <2> SUFFICES ASSUME NEW w \in Workers, Builds(w)
               PROVE  (WorkerReads(w) /\ WorkerBacked(w) /\ WorkerServes(w))'
    BY <1>6 DEF Builds
  <2>1. worker[w].task \in Tasks /\ worker[w].task # t
    BY <1>2, BuilderHasTask
  <2>2. task'[worker[w].task] = task[worker[w].task]
    BY <1>5, <2>1
  <2> QED
    BY <1>6, <1>9, <2>1, <2>2
       DEF IInv, WorkerReads, WorkerBacked, WorkerServes, Holds, From
<1>16. Judged'
  <2>1. \A u \in Tasks : Gone(u) => Gone(u)'
    BY <1>2, <1>5, <1>6 DEF Gone
  <2> QED
    BY <1>6, <2>1 DEF IInv, Judged
<1>17. PublishedIsComplete'
  BY <1>5, <1>6, <1>8 DEF IInv, PublishedIsComplete, ServedIsRetired, Retired
<1> QED
  BY <1>7, <1>10, <1>11, <1>12, <1>13, <1>14, <1>15, <1>16, <1>17 DEF IInv

LEMMA AskEditIInv ==
    ASSUME NEW c \in Callers, NEW config \in Configs, NEW byDiscovery \in BOOLEAN, IInv,
           AskEdit(c, config, byDiscovery)
    PROVE  IInv'
<1> DEFINE request == [NoCall EXCEPT !.op = "edit", !.config = config, !.seen = resource]
<1>1. request \in Requests /\ request.op = "edit" /\ request.seen = resource
  BY Blanks DEF Requests, IInv, TypeOK
<1>2. Ask(c, request) /\ resource.exists /\ resource.version < MaxEdits
  BY DEF AskEdit
<1> HIDE DEF request
<1>3. RequestOK(request)
  BY <1>1, <1>2, ServedIndex DEF RequestOK
<1> QED
  BY <1>1, <1>2, <1>3, AskIInv

LEMMA AskDeleteResourceIInv ==
    ASSUME NEW c \in Callers, IInv, AskDeleteResource(c)
    PROVE  IInv'
<1> DEFINE request == [NoCall EXCEPT !.op = "drop"]
<1>1. request \in Requests /\ request.op = "drop"
  BY Blanks DEF Requests
<1>2. Ask(c, request)
  BY DEF AskDeleteResource
<1> HIDE DEF request
<1>3. RequestOK(request)
  BY <1>1 DEF RequestOK
<1> QED
  BY <1>1, <1>2, <1>3, AskIInv

(* A write of the resource alone. It may take the resource away, serve what was     *)
(* retired, and serve another index than before only as one that overtook.         *)
LEMMA ResourceIInv ==
    ASSUME IInv, TypeOK',
           UNCHANGED <<task, index, cleaner, queue, inFlight, worker>>,
           resource.exists' => resource.exists,
           \A c \in Callers : call'[c] = call[c] \/ call'[c] = NoCall,
           overtaken => overtaken',
           Published(resource)' # NoTask => Retired(Published(resource)'),
           ~overtaken' /\ Published(resource)' # NoTask =>
              /\ Published(resource)' = Published(resource)
              /\ resource'.config.mapping = resource.config.mapping
              /\ resource'.mark \in {NoMark, resource.mark}
    PROVE  IInv'
<1>1. \A t : Retired(t) <=> Retired(t)'
  BY DEF Retired, Builds
<1>2. \A t \in Tasks : Gone(t) => Gone(t)'
  BY DEF Gone
<1>3. TasksInHand' /\ RowsNameIndexes'
  BY <1>1 DEF IInv, TasksInHand, OneWorkerPerTask, RowsNameIndexes
<1>4. ServedIsRetired'
  BY <1>1 DEF ServedIsRetired
<1>5. \A c \in Callers : RequestOK(call[c])'
  <2> SUFFICES ASSUME NEW c \in Callers PROVE RequestOK(call[c])'
    OBVIOUS
  <2>1. CASE call'[c] = NoCall
    BY <2>1 DEF RequestOK, NoCall
  <2>2. CASE call'[c] = call[c]
    BY <1>1, <2>2 DEF IInv, RequestOK
  <2> QED
    BY <2>1, <2>2
<1>6. \A t \in Tasks : RowBacked(t)'
  BY <1>2 DEF IInv, RowBacked, Holds
<1>7. \A w \in Workers : Builds(w)' => (WorkerReads(w) /\ WorkerBacked(w) /\ WorkerServes(w))'
  <2> SUFFICES ASSUME NEW w \in Workers, Builds(w)
               PROVE  (WorkerReads(w) /\ WorkerBacked(w) /\ WorkerServes(w))'
    BY DEF Builds
  <2>1. worker[w].task \in Tasks /\ task[worker[w].task].status # "absent"
    BY BuilderHasTask
  <2>2. WorkerReads(w)'
    BY DEF IInv, WorkerReads
  <2>3. WorkerBacked(w)'
    BY <1>2, <2>1 DEF IInv, WorkerBacked, Holds, From
  <2>4. WorkerServes(w)'
    <3>1. task[worker[w].task].incremental => task[worker[w].task].index # NoTask
      BY <2>1, TasksAssumption DEF IInv, RowsNameIndexes, Retired
    <3> QED
      BY <3>1 DEF IInv, WorkerServes, From
  <2> QED
    BY <2>2, <2>3, <2>4
<1>8. Judged'
  BY <1>2, TasksAssumption DEF IInv, Judged
<1>9. PublishedIsComplete'
  BY DEF IInv, PublishedIsComplete
<1> QED
  BY <1>3, <1>4, <1>5, <1>6, <1>7, <1>8, <1>9 DEF IInv

LEMMA DeleteResourceIInv ==
    ASSUME NEW c \in Callers, IInv, DeleteResource(c)
    PROVE  IInv'
<1>1. /\ resource' = DeletedResource /\ Answered(c)
      /\ UNCHANGED <<source, task, index, queue, inFlight, worker, cleaner, overtaken>>
  BY DEF DeleteResource
<1>2. TypeOK'
  BY <1>1, Blanks, AnsweredCalls DEF IInv, TypeOK
<1>3. ~resource'.exists
  BY <1>1, Blanks DEF DeletedResource, Resources
<1>4. Published(resource)' = NoTask
  BY <1>3 DEF Published, HasAvailableLocalIndex
<1> QED
  BY <1>1, <1>2, <1>3, <1>4, AnsweredCalls, ResourceIInv DEF IInv

LEMMA EditIInv ==
    ASSUME NEW c \in Callers, IInv, Edit(c)
    PROVE  IInv'
<1> DEFINE request == call[c]
           seen == request.seen
           remapped == request.config.mapping # seen.config.mapping
                       /\ seen.status = "available"
           current == [resource EXCEPT !.config = request.config, !.version = @ + 1]
           stale == [current EXCEPT !.status = "stale", !.index = seen.index,
                                    !.mark = NoMark]
           restarted == [current EXCEPT !.status = seen.status, !.index = seen.index,
                                        !.mark = NoMark]
<1>1. /\ request.op = "edit" /\ Answered(c)
      /\ UNCHANGED <<source, task, index, queue, inFlight, worker, cleaner>>
      /\ IF resource.exists /\ resource.version = seen.version
         THEN /\ overtaken' = (overtaken
                      \/ LocalIndexState(resource) # LocalIndexState(seen))
              /\ resource' = IF remapped THEN stale
                             ELSE IF request.config.keys # seen.config.keys
                                     /\ seen.mark # NoMark
                             THEN restarted ELSE current
         ELSE UNCHANGED <<resource, overtaken>>
  BY DEF Edit
<1>2. /\ seen.exists /\ seen.version < MaxEdits
      /\ HasAvailableLocalIndex(seen) => Retired(seen.index)
      /\ seen \in Resources /\ request.config \in Configs /\ resource \in Resources
  BY <1>1, TypeFacts DEF IInv, RequestOK, TypeOK
<1>3. CASE ~(resource.exists /\ resource.version = seen.version)
  <2>1. UNCHANGED <<resource, overtaken>>
    BY <1>1, <1>3
  <2>2. TypeOK'
    BY <1>1, <2>1, AnsweredCalls DEF IInv, TypeOK
  <2> QED
    BY <1>1, <2>1, <2>2, AnsweredCalls, ResourceIInv DEF IInv, ServedIsRetired
<1>4. CASE resource.exists /\ resource.version = seen.version
  <2>1. /\ resource.version + 1 \in 0..MaxEdits
        /\ seen.status \in {"unavailable", "available", "stale"}
        /\ seen.index \in Tasks \cup {NoTask}
    BY <1>2, <1>4, Bounds DEF Resources
  <2>2. /\ current \in Resources /\ current.exists /\ current.config = request.config
        /\ current.status = resource.status /\ current.index = resource.index
        /\ current.mark = resource.mark
    BY <1>2, <1>4, <2>1 DEF Resources
  <2> HIDE DEF current
  <2>3. /\ stale \in Resources /\ stale.exists /\ stale.status = "stale"
    BY <2>1, <2>2, MarkTypes DEF Resources
  <2>4. /\ restarted \in Resources /\ restarted.exists /\ restarted.config = request.config
        /\ restarted.status = seen.status /\ restarted.index = seen.index
        /\ restarted.mark = NoMark
    BY <2>1, <2>2, MarkTypes DEF Resources
  <2>5. /\ overtaken' = (overtaken \/ LocalIndexState(resource) # LocalIndexState(seen))
        /\ resource' \in {stale, restarted, current}
        /\ remapped => resource' = stale
    BY <1>1, <1>4
  <2> HIDE DEF stale, restarted
  <2>6. resource' \in Resources /\ resource'.exists
    BY <2>2, <2>3, <2>4, <2>5
  <2>7. overtaken' \in BOOLEAN /\ (overtaken => overtaken')
    BY <2>5 DEF IInv, TypeOK
  <2>8. TypeOK'
    BY <1>1, <2>6, <2>7, AnsweredCalls DEF IInv, TypeOK
  <2>9. Published(resource)' # NoTask => Retired(Published(resource)')
    <3>1. CASE resource' = stale
      BY <2>3, <3>1 DEF Published, HasAvailableLocalIndex
    <3>2. CASE resource' = restarted
      BY <1>2, <2>4, <3>2 DEF Published, HasAvailableLocalIndex
    <3>3. CASE resource' = current
      BY <1>4, <2>2, <3>3 DEF IInv, ServedIsRetired, Published, HasAvailableLocalIndex
    <3> QED
      BY <2>5, <3>1, <3>2, <3>3
  <2>10. ASSUME ~overtaken', Published(resource)' # NoTask
         PROVE  /\ Published(resource)' = Published(resource)
                /\ resource'.config.mapping = resource.config.mapping
                /\ resource'.mark \in {NoMark, resource.mark}
    <3>1. /\ resource.status = seen.status /\ resource.index = seen.index
          /\ resource.mark = seen.mark /\ resource.config = seen.config
      BY <2>5, <2>10 DEF LocalIndexState
    <3>2. resource' # stale
      BY <2>3, <2>10 DEF Published, HasAvailableLocalIndex
    <3>3. /\ resource'.status = seen.status /\ resource'.index = seen.index
          /\ resource'.config = request.config
          /\ resource'.mark \in {NoMark, resource.mark}
      BY <2>2, <2>4, <2>5, <3>1, <3>2
    <3>4. seen.status = "available"
      BY <2>10, <3>3 DEF Published, HasAvailableLocalIndex
    <3> QED
      BY <1>4, <2>5, <2>6, <3>1, <3>2, <3>3, <3>4 DEF Published, HasAvailableLocalIndex
  <2> QED
    BY <1>1, <1>4, <2>7, <2>8, <2>9, <2>10, AnsweredCalls, ResourceIInv DEF IInv
<1> QED
  BY <1>3, <1>4

-------------------------------------------------------------------------------
(* The poller and the workers.                                                   *)

(* What concerns neither rows nor indexes nor the resource leaves most of the       *)
(* invariant alone.                                                                *)
LEMMA HandIInv ==
    ASSUME IInv, TypeOK', TasksInHand',
           UNCHANGED <<resource, task, index, call, cleaner, overtaken>>,
           \A w \in Workers : Builds(w)' => worker'[w] = worker[w]
    PROVE  IInv'
<1>1. \A w \in Workers : Builds(w)' => Builds(w) /\ worker'[w] = worker[w]
  BY DEF Builds
<1>2. \A t : Retired(t) => Retired(t)'
  BY <1>1 DEF Retired
<1>3. (RowsNameIndexes /\ ServedIsRetired)' /\ \A c \in Callers : RequestOK(call[c])'
  BY <1>2 DEF IInv, RowsNameIndexes, ServedIsRetired, RequestOK
<1>4. (\A t \in Tasks : RowBacked(t))' /\ Judged' /\ PublishedIsComplete'
  BY DEF IInv, RowBacked, Gone, Holds, Judged, PublishedIsComplete
<1>5. \A w \in Workers : Builds(w)' => (WorkerReads(w) /\ WorkerBacked(w) /\ WorkerServes(w))'
  <2> SUFFICES ASSUME NEW w \in Workers, Builds(w)'
               PROVE  (WorkerReads(w) /\ WorkerBacked(w) /\ WorkerServes(w))'
    OBVIOUS
  <2>1. Builds(w) /\ worker'[w] = worker[w]
    BY <1>1
  <2> QED
    BY <2>1 DEF IInv, WorkerReads, WorkerBacked, WorkerServes, Gone, Holds, From
<1> QED
  BY <1>3, <1>4, <1>5 DEF IInv

LEMMA FillIInv == IInv /\ fillBatchQueue => IInv'
<1> SUFFICES ASSUME IInv, fillBatchQueue PROVE IInv'
  OBVIOUS
<1>1. /\ queue' \in InOrder(Ready) /\ inFlight' = inFlight \cup Ready
      /\ UNCHANGED <<source, resource, task, index, worker, call, cleaner, overtaken>>
  BY DEF fillBatchQueue
<1>2. /\ Ready \subseteq Tasks /\ Ready \cap inFlight = {}
      /\ \A t \in Ready : task[t].status # "absent"
  BY DEF Ready, Pending
<1>3. Cardinality(Ready) \in Nat
  BY <1>2, TasksAssumption, FS_Subset, FS_CardinalityType
<1>4. /\ queue' \in [1..Cardinality(Ready) -> Ready]
      /\ \A i, j \in 1..Cardinality(Ready) : i < j => queue'[i] < queue'[j]
  BY <1>1 DEF InOrder
<1>5. queue' \in Seq(Tasks) /\ DOMAIN queue' = 1..Cardinality(Ready)
  BY <1>2, <1>3, <1>4
<1>6. \A i, j \in DOMAIN queue' : queue'[i] = queue'[j] => i = j
  <2> SUFFICES ASSUME NEW i \in 1..Cardinality(Ready), NEW j \in 1..Cardinality(Ready),
                      i # j
               PROVE  queue'[i] # queue'[j]
    BY <1>5
  <2>1. queue'[i] \in Ready /\ queue'[j] \in Ready
    BY <1>4
  <2>2. Ready \subseteq Nat
    BY <1>2, TasksAssumption
  <2>3. queue'[i] \in Nat /\ queue'[j] \in Nat
    BY <2>1, <2>2
  <2>4. i < j \/ j < i
    BY <1>3
  <2> QED
    BY <1>4, <2>3, <2>4
<1>7. TypeOK'
  BY <1>1, <1>2, <1>5 DEF IInv, TypeOK
<1>8. TasksInHand'
  BY <1>1, <1>2, <1>4, <1>5, <1>6 DEF IInv, TasksInHand, OneWorkerPerTask
<1> QED
  BY <1>1, <1>7, <1>8, HandIInv

LEMMA RemoveIInv ==
    ASSUME NEW w \in Workers, IInv, removeInFlight(w)
    PROVE  IInv'
<1> DEFINE t == worker[w].task
<1>1. /\ worker[w].step = "leaving" /\ inFlight' = inFlight \ {t}
      /\ worker' = [worker EXCEPT ![w] = Idle]
      /\ UNCHANGED <<source, resource, task, index, queue, call, cleaner, overtaken>>
  BY DEF removeInFlight, At, Goes
<1>2. /\ worker \in [Workers -> Jobs] /\ worker' \in [Workers -> Jobs]
      /\ worker'[w] = Idle /\ \A v \in Workers \ {w} : worker'[v] = worker[v]
  BY <1>1, Blanks DEF IInv, TypeOK
<1>3. Idle.step = "idle" /\ Idle.task = NoTask
  BY DEF Idle
<1>4. TypeOK'
  BY <1>1, <1>2 DEF IInv, TypeOK
<1>5. t # NoTask
  BY <1>1 DEF IInv, TasksInHand
<1>6. TasksInHand'
  BY <1>1, <1>2, <1>3, <1>5 DEF IInv, TasksInHand, OneWorkerPerTask
<1> QED
  BY <1>1, <1>2, <1>3, <1>4, <1>6, HandIInv DEF Builds, Working

(* A worker that goes, with a change of its row that keeps the checkpoint.         *)
LEMMA LeaveIInv ==
    ASSUME NEW w \in Workers, IInv, Builds(w), Leaves(w),
           task' \in [Tasks -> TaskRows],
           \A u \in Tasks : RowKept(u) /\ task'[u].mark = task[u].mark,
           UNCHANGED <<source, resource, index, queue, inFlight, call, cleaner, overtaken>>
    PROVE  IInv'
<1>1. worker[w].task \in Tasks
  BY BuilderHasTask
<1>2. worker' = [worker EXCEPT ![w] = Left(worker[w].task)]
  BY DEF Leaves, Goes
<1>3. worker' \in [Workers -> Jobs] /\ \A v \in Workers : WorkerKept(v)
  BY <1>1, <1>2, LeftJobs DEF IInv, TypeOK, WorkerKept, Builds, Working
<1>4. TypeOK'
  BY <1>3 DEF IInv, TypeOK
<1> QED
  BY <1>3, <1>4, RetreatIInv

LEMMA SameRows ==
    ASSUME IInv, UNCHANGED task
    PROVE  /\ task' \in [Tasks -> TaskRows]
           /\ \A u \in Tasks : RowKept(u) /\ task'[u].mark = task[u].mark
BY DEF IInv, TypeOK, RowKept

LEMMA FailIInv ==
    ASSUME NEW w \in Workers, IInv, failTask(w)
    PROVE  IInv'
<1>1. /\ Builds(w) /\ Leaves(w)
      /\ UNCHANGED <<source, resource, index, queue, inFlight, call, cleaner, overtaken>>
  BY DEF failTask, Builds, Outside
<1>2. worker[w].task \in Tasks
  BY <1>1, BuilderHasTask
<1>3. CASE task' = task
  BY <1>1, <1>3, SameRows, LeaveIInv
<1>4. CASE task' = Marked(task, worker[w].task, Active, "failed")
  <2>1. "failed" \in Statuses \ {"absent"}
    BY DEF Statuses, Terminal, Startable
  <2>2. /\ task' \in [Tasks -> TaskRows]
        /\ \A u \in Tasks : RowKept(u) /\ task'[u].mark = task[u].mark
    BY <1>2, <1>4, <2>1, MarkedKeeps
  <2> QED
    BY <1>1, <2>2, LeaveIInv
<1> QED
  BY <1>3, <1>4 DEF failTask, MarkFailed

(* The head of the queue passes to a worker, which drops it or claims it.          *)
LEMMA RunBatchTaskIInv ==
    ASSUME NEW w \in Workers, IInv, runBatchTask(w)
    PROVE  IInv'
<1> DEFINE t == Head(queue)
           row == task[t]
           outdated == \/ ~FingerprintMatches(resource, row)
                       \/ row.incremental /\ ~HasBaseline(resource)
           claiming == [Idle EXCEPT !.step = "claim", !.task = t, !.mark = row.mark]
<1>1. /\ worker[w].step = "idle" /\ queue # <<>> /\ queue' = Tail(queue)
      /\ UNCHANGED <<source, resource, index, inFlight, call, cleaner, overtaken>>
      /\ \/ Goes(w, Left(t)) /\ UNCHANGED task
         \/ /\ row.status = "pending" /\ Goes(w, Left(t))
            /\ task' = Marked(task, t, Active, "cancelled") \/ task' = Marked(task, t, Active, "failed")
         \/ /\ row.status = "pending" /\ ~outdated
            /\ Goes(w, claiming) /\ UNCHANGED task
  BY DEF runBatchTask, At, MarkCancelled, MarkFailed
<1>2. queue \in Seq(Tasks) /\ task \in [Tasks -> TaskRows] /\ worker \in [Workers -> Jobs]
  BY DEF IInv, TypeOK
<1>3. /\ t = queue[1] /\ 1 \in DOMAIN queue /\ t \in Tasks /\ queue' \in Seq(Tasks)
      /\ \A k \in DOMAIN queue' : k + 1 \in DOMAIN queue /\ queue'[k] = queue[k + 1] /\ k + 1 # 1
  BY <1>1, <1>2
<1>4. /\ task[t].status # "absent" /\ t \in inFlight
      /\ \A v \in Workers : worker[v].task # t
      /\ \A k \in DOMAIN queue' : queue'[k] # t
  BY <1>3, TasksAssumption DEF IInv, TasksInHand, OneWorkerPerTask
<1>5. row \in TaskRows
  BY <1>2, <1>3
<1>6. claiming \in Jobs /\ claiming.step = "claim" /\ claiming.task = t /\ claiming.mark = row.mark
  BY <1>3, <1>5, Blanks DEF Jobs, TaskRows, Working
<1>7. Left(t) \in Jobs /\ Left(t).step = "leaving" /\ Left(t).task = t
  BY <1>3, LeftJobs
<1> HIDE DEF claiming
<1>8. /\ task' \in [Tasks -> TaskRows]
      /\ \A u \in Tasks : RowKept(u) /\ task'[u].mark = task[u].mark
  <2>1. {"failed", "cancelled"} \subseteq Statuses \ {"absent"}
    BY DEF Statuses, Terminal, Startable
  <2>2. CASE UNCHANGED task
    BY <2>2, SameRows
  <2>3. ASSUME NEW to \in {"failed", "cancelled"}, task' = Marked(task, t, Active, to)
        PROVE  /\ task' \in [Tasks -> TaskRows]
               /\ \A u \in Tasks : RowKept(u) /\ task'[u].mark = task[u].mark
    BY <1>3, <2>1, <2>3, MarkedKeeps
  <2> QED
    BY <1>1, <2>2, <2>3
<1>9. PICK job \in {Left(t), claiming} :
         /\ worker' = [worker EXCEPT ![w] = job]
         /\ job = claiming => row.status = "pending" /\ ~outdated /\ UNCHANGED task
  BY <1>1, <1>6, <1>7 DEF Goes
<1>10. /\ worker' \in [Workers -> Jobs] /\ worker'[w] = job
       /\ job.task = t /\ job.step \in {"claim", "leaving"}
       /\ \A v \in Workers \ {w} : worker'[v] = worker[v]
  BY <1>2, <1>6, <1>7, <1>9
<1>11. TypeOK'
  BY <1>1, <1>3, <1>8, <1>10 DEF IInv, TypeOK
<1>12. \A u \in Tasks : Gone(u) => Gone(u)'
  BY <1>1, <1>8, GoneStays
<1>13. \A u : Retired(u) => Retired(u)'
  <2> SUFFICES ASSUME NEW u, Retired(u) PROVE Retired(u)'
    OBVIOUS
  <2>1. u \in Tasks /\ task[u].status \in {"completed", "deleted"}
    BY DEF Retired
  <2>2. ASSUME NEW v \in Workers, worker'[v].task = u, Builds(v)' PROVE worker[v].task = u /\ Builds(v)
    BY <1>6, <1>7, <1>9, <1>10, <2>1, <2>2 DEF Builds, Working
  <2> QED
    BY <1>8, <2>1, <2>2, RetiredStays
<1>14. TasksInHand'
  <2>1. t # NoTask
    BY <1>3, TasksAssumption
  <2>2. \A v \in Workers : v # w => worker[v].task \in Tasks \cup {NoTask}
    BY TypeFacts DEF IInv
  <2>3. \A k \in DOMAIN queue' : queue'[k] \in Tasks /\ queue'[k] \in inFlight
    BY <1>2, <1>3 DEF IInv, TasksInHand
  <2>4. \A u \in Tasks : task[u].status # "absent" => task'[u].status # "absent"
    BY <1>8 DEF RowKept
  <2>5. \A j, k \in DOMAIN queue' : queue'[j] = queue'[k] => j = k
    BY <1>3, <1>2 DEF IInv, TasksInHand
  <2>6. \A v \in Workers : (worker'[v].step = "idle") <=> (worker'[v].task = NoTask)
    BY <1>10, <2>1 DEF IInv, TasksInHand
  <2>7. \A v \in Workers : worker'[v].task # NoTask => task'[worker'[v].task].status # "absent"
    BY <1>3, <1>4, <1>10, <2>2, <2>4 DEF IInv, TasksInHand
  <2>8. \A k \in DOMAIN queue' : task'[queue'[k]].status # "absent"
    BY <1>3, <2>3, <2>4 DEF IInv, TasksInHand
  <2>9. OneWorkerPerTask'
    BY <1>1, <1>3, <1>4, <1>10 DEF IInv, TasksInHand, OneWorkerPerTask
  <2> QED
    BY <1>1, <2>3, <2>5, <2>6, <2>7, <2>8, <2>9 DEF TasksInHand
<1>15. RowsNameIndexes' /\ ServedIsRetired' /\ \A c \in Callers : RequestOK(call[c])'
  BY <1>1, <1>8, <1>13 DEF IInv, RowsNameIndexes, ServedIsRetired, RequestOK, RowKept
<1>16. (\A u \in Tasks : RowBacked(u))' /\ Judged' /\ PublishedIsComplete'
  BY <1>1, <1>8, <1>12, TypeFacts
     DEF IInv, RowBacked, Holds, Judged, PublishedIsComplete, RowKept
<1>17. ASSUME NEW v \in Workers, Builds(v)'
       PROVE  (WorkerReads(v) /\ WorkerBacked(v) /\ WorkerServes(v))'
  <2>1. CASE v = w
    <3>1. job = claiming /\ UNCHANGED task /\ worker'[w] = claiming
      BY <1>7, <1>9, <1>10, <1>17, <2>1 DEF Builds, Working
    <3>2. WorkerReads(w)' /\ WorkerServes(w)'
      BY <1>6, <3>1 DEF WorkerReads, WorkerServes
    <3>3. WorkerBacked(w)'
      BY <1>1, <1>3, <1>6, <1>12, <3>1 DEF IInv, RowBacked, WorkerBacked, Holds, Gone
    <3> QED
      BY <2>1, <3>2, <3>3
  <2>2. CASE v # w
    <3>1. Builds(v) /\ worker'[v] = worker[v]
      BY <1>10, <1>17, <2>2 DEF Builds
    <3>2. worker[v].task \in Tasks
      BY <3>1, BuilderHasTask
    <3>3. WorkerReads(v)'
      BY <1>8, <3>1, <3>2 DEF IInv, WorkerReads, FingerprintMatches, RowKept
    <3>4. WorkerBacked(v)'
      BY <1>1, <1>8, <1>12, <3>1, <3>2 DEF IInv, WorkerBacked, RowKept, Holds, From
    <3>5. WorkerServes(v)'
      BY <1>1, <1>8, <3>1, <3>2 DEF IInv, WorkerServes, RowKept, From
    <3> QED
      BY <3>3, <3>4, <3>5
  <2> QED
    BY <2>1, <2>2
<1> QED
  BY <1>11, <1>14, <1>15, <1>16, <1>17 DEF IInv

LEMMA WorkerMoves ==
    ASSUME TypeOK, NEW w \in Workers, NEW job \in Jobs, Goes(w, job)
    PROVE  /\ worker' \in [Workers -> Jobs] /\ worker'[w] = job
           /\ \A v \in Workers \ {w} : worker'[v] = worker[v]
BY DEF TypeOK, Goes

(* What holds of the full build a worker is at, before its next step.              *)
LEMMA BuildFacts ==
    ASSUME IInv, NEW w \in Workers, Builds(w)
    PROVE  LET t == worker[w].task IN
           /\ t \in Tasks /\ task[t] \in TaskRows /\ worker[w] \in Jobs
           /\ task[t].incremental => task[t].index \in Tasks
           /\ ~task[t].incremental => task[t].index = t
           /\ WorkerReads(w) /\ WorkerBacked(w) /\ WorkerServes(w) /\ RowBacked(t)
           /\ From(w) \in 0..MaxRows
           /\ From(w) = IF worker[w].mark = NoMark THEN 0 ELSE worker[w].mark
<1>1. /\ worker[w].task \in Tasks /\ task[worker[w].task].status # "absent"
      /\ task \in [Tasks -> TaskRows] /\ worker \in [Workers -> Jobs]
  BY BuilderHasTask DEF IInv, TypeOK
<1>2. worker[w].mark \in Marks
  BY <1>1 DEF Jobs
<1>3. From(w) \in 0..MaxRows
  BY <1>2, MarkTypes, Bounds DEF From
<1> QED
  BY <1>1, <1>3 DEF IInv, RowsNameIndexes, Retired, From

(* The claim of an incremental build takes the checkpoint of the resource over.    *)
LEMMA ClaimIInv ==
    ASSUME NEW w \in Workers, IInv, Claim(w)
    PROVE  IInv'
<1> DEFINE t == worker[w].task
           row == task[t]
           started == Marked(task, t, {"pending"}, "running")
           full == [worker[w] EXCEPT !.step = "prepare"]
           seen == [NewResource EXCEPT !.index = resource.index]
           incremental == [worker[w] EXCEPT !.step = "prepare", !.mark = resource.mark,
                                            !.seen = seen]
<1>1. /\ worker[w].step = "claim" /\ Builds(w)
      /\ UNCHANGED <<source, resource, index, queue, inFlight, call, cleaner, overtaken>>
  BY DEF Claim, At, Builds, Working, Outside
<1>2. /\ t \in Tasks /\ row \in TaskRows /\ worker[w] \in Jobs
      /\ WorkerBacked(w) /\ RowBacked(t) /\ task \in [Tasks -> TaskRows]
  BY <1>1, BuildFacts DEF IInv, TypeOK
<1>3. {"failed", "running"} \subseteq Statuses \ {"absent"} /\ {"pending"} \subseteq Active
  BY DEF Statuses, Terminal, Startable, Active
<1>4. CASE task' = Marked(task, t, Active, "failed") /\ Leaves(w)
  <2>1. /\ task' \in [Tasks -> TaskRows]
        /\ \A u \in Tasks : RowKept(u) /\ task'[u].mark = task[u].mark
    BY <1>2, <1>3, <1>4, MarkedKeeps
  <2> QED
    BY <1>1, <1>4, <2>1, LeaveIInv
<1>5. CASE UNCHANGED task /\ Leaves(w)
  BY <1>1, <1>5, SameRows, LeaveIInv
<1>6. CASE ~row.incremental /\ task' = started /\ Goes(w, full)
  <2>1. /\ task' \in [Tasks -> TaskRows]
        /\ \A u \in Tasks : RowKept(u) /\ task'[u].mark = task[u].mark
    BY <1>2, <1>3, <1>6, MarkedKeeps
  <2>2. \A u \in Tasks \ {t} : task'[u] = task[u]
    BY <1>2, <1>3, <1>6, MarkedRows
  <2>3. /\ full \in Jobs /\ full.step = "prepare" /\ full.task = t
        /\ full.mark = worker[w].mark
    BY <1>2 DEF Jobs, Working
  <2> HIDE DEF full
  <2>4. /\ worker' \in [Workers -> Jobs] /\ worker'[w] = full
        /\ \A v \in Workers \ {w} : worker'[v] = worker[v]
    BY <1>6, <2>3, WorkerMoves DEF IInv
  <2>5. TypeOK' /\ Builds(w)'
    BY <1>1, <2>1, <2>3, <2>4 DEF IInv, TypeOK, Builds, Working
  <2>6. ~Gone(t)' => ~Gone(t)
    BY <1>1, <1>2, <2>1, <2>3, <2>4, GoneStays
  <2>7. RowBacked(t)' /\ WorkerBacked(w)'
    BY <1>1, <1>2, <1>6, <2>1, <2>3, <2>4, <2>6 DEF RowBacked, WorkerBacked, Holds, RowKept
  <2>8. WorkerReads(w)' /\ WorkerServes(w)'
    BY <2>3, <2>4 DEF WorkerReads, WorkerServes
  <2> QED
    BY <1>1, <1>2, <2>1, <2>2, <2>3, <2>4, <2>5, <2>7, <2>8, OnwardIInv
<1>7. CASE /\ row.incremental /\ task' = SetProgress(started, t, resource.mark)
           /\ Goes(w, incremental)
  <2>1. resource.mark \in Marks /\ resource.index \in Tasks \cup {NoTask}
    BY TypeFacts DEF IInv
  <2>2. /\ started \in [Tasks -> TaskRows] /\ \A u \in Tasks \ {t} : started[u] = task[u]
        /\ row.status \notin {"pending"} => started = task
        /\ row.status \in {"pending"} => started[t].status = "running"
        /\ started[t].incremental = row.incremental /\ started[t].config = row.config
        /\ started[t].index = row.index
    BY <1>2, <1>3, MarkedRows
  <2> HIDE DEF started
  <2>3. /\ task' \in [Tasks -> TaskRows] /\ \A u \in Tasks \ {t} : task'[u] = started[u]
        /\ task'[t].incremental = started[t].incremental
        /\ task'[t].config = started[t].config /\ task'[t].index = started[t].index
        /\ task'[t].status = started[t].status
    <3>1. task' = SetProgress(started, t, resource.mark)
      BY <1>7 DEF started
    <3> QED
      BY <1>2, <2>1, <2>2, <3>1, ProgressedRows
  <2>4. RowKept(t)
    BY <1>1, <1>2, <2>2, <2>3, BuilderHasTask DEF RowKept
  <2>5. seen \in Resources
    BY <2>1, Blanks DEF Resources
  <2> HIDE DEF seen
  <2>6. incremental \in Jobs /\ incremental.step = "prepare" /\ incremental.task = t
    BY <1>2, <2>1, <2>5 DEF Jobs, Working
  <2> HIDE DEF incremental
  <2>7. /\ worker' \in [Workers -> Jobs] /\ worker'[w] = incremental
        /\ \A v \in Workers \ {w} : worker'[v] = worker[v]
    BY <1>7, <2>6, WorkerMoves DEF IInv, seen, incremental
  <2>8. TypeOK' /\ Builds(w)'
    BY <1>1, <2>3, <2>6, <2>7 DEF IInv, TypeOK, Builds, Working
  <2>9. RowBacked(t)' /\ WorkerBacked(w)' /\ WorkerReads(w)' /\ WorkerServes(w)'
    BY <1>7, <2>2, <2>3, <2>6, <2>7 DEF RowBacked, WorkerBacked, WorkerReads, WorkerServes
  <2>10. \A u \in Tasks \ {t} : task'[u] = task[u]
    BY <2>2, <2>3
  <2> QED
    BY <1>1, <1>2, <2>4, <2>6, <2>7, <2>8, <2>9, <2>10, OnwardIInv
<1> QED
  BY <1>4, <1>5, <1>6, <1>7 DEF Claim, MarkFailed

(* A step of a worker that changes no checkpoint but, perhaps, forgets it.         *)
LEMMA PrepareIndexIInv ==
    ASSUME NEW w \in Workers, IInv, PrepareIndex(w)
    PROVE  IInv'
<1> DEFINE t == worker[w].task
           row == task[t]
           anew == RestartFromBeginning(row, worker[w].mark)
           reads == [worker[w] EXCEPT !.step = "read", !.seen = NewResource]
           empty == [exists |-> TRUE, managed |-> TRUE, rows |-> {}]
<1>1. /\ worker[w].step = "prepare" /\ Builds(w) /\ Goes(w, reads)
      /\ UNCHANGED <<source, queue, inFlight, call, cleaner, resource, overtaken>>
      /\ \/ anew /\ index' = [index EXCEPT ![t] = empty] /\ task' = SetProgress(task, t, NoMark)
         \/ ~anew /\ index[row.index].exists /\ UNCHANGED <<task, index>>
  BY DEF PrepareIndex, At, Builds, Working, Outside
<1>2. /\ t \in Tasks /\ row \in TaskRows /\ worker[w] \in Jobs /\ RowBacked(t)
      /\ WorkerBacked(w) /\ task \in [Tasks -> TaskRows] /\ index \in [Tasks -> Indexes]
      /\ ~row.incremental => row.index = t
  BY <1>1, BuildFacts DEF IInv, TypeOK
<1>3. /\ reads \in Jobs /\ reads.step = "read" /\ reads.task = t
      /\ reads.mark = worker[w].mark
  BY <1>2, Blanks DEF Jobs, Working
<1> HIDE DEF reads
<1>4. /\ worker' \in [Workers -> Jobs] /\ worker'[w] = reads
      /\ \A v \in Workers \ {w} : worker'[v] = worker[v]
  BY <1>1, <1>3, WorkerMoves DEF IInv
<1>5. /\ task' \in [Tasks -> TaskRows] /\ \A u \in Tasks \ {t} : task'[u] = task[u]
      /\ RowKept(t) /\ task'[t].mark \in {task[t].mark, NoMark}
      /\ anew \/ task'[t] = task[t]
  <2>1. CASE UNCHANGED task
    BY <1>2, <2>1 DEF RowKept
  <2>2. CASE task' = SetProgress(task, t, NoMark) /\ anew
    <3>1. /\ task' \in [Tasks -> TaskRows] /\ \A u \in Tasks : u # t => task'[u] = task[u]
          /\ task'[t].mark \in {task[t].mark, NoMark}
          /\ task'[t].incremental = task[t].incremental /\ task'[t].config = task[t].config
          /\ task'[t].index = task[t].index /\ task'[t].status = task[t].status
      BY <1>2, <2>2, MarkTypes, ProgressedRows
    <3> QED
      BY <1>1, <2>2, <3>1, BuilderHasTask DEF RowKept
  <2> QED
    BY <1>1, <2>1, <2>2
<1>6. /\ index' \in [Tasks -> Indexes] /\ \A i \in Tasks \ {t} : index'[i] = index[i]
      /\ ~row.incremental => index'[t].exists
      /\ anew \/ index' = index
  <2>1. empty \in Indexes /\ empty.exists
    BY DEF Indexes
  <2> HIDE DEF empty
  <2>2. CASE index' = [index EXCEPT ![t] = empty] /\ anew
    BY <1>2, <2>1, <2>2
  <2>3. CASE index' = index /\ index[row.index].exists
    BY <1>2, <2>3
  <2> QED
    BY <1>1, <2>2, <2>3
<1>7. TypeOK' /\ Builds(w)'
  BY <1>1, <1>3, <1>4, <1>5, <1>6 DEF IInv, TypeOK, Builds, Working
<1>8. ~Gone(t)' => ~Gone(t)
  BY <1>1, <1>2, <1>3, <1>4, <1>5, GoneStays
<1>9. RowBacked(t)' /\ WorkerBacked(w)'
  <2>1. CASE row.incremental
    BY <1>3, <1>4, <1>5, <2>1 DEF RowBacked, WorkerBacked, RowKept
  <2>2. CASE ~row.incremental /\ anew
    BY <1>2, <1>3, <1>4, <1>5, <1>6, <1>8, <2>2, <1>1
       DEF RowBacked, WorkerBacked, RowKept, RestartFromBeginning
  <2>3. CASE ~row.incremental /\ ~anew
    BY <1>2, <1>3, <1>4, <1>5, <1>6, <1>8, <2>3, <1>1
       DEF RowBacked, WorkerBacked, RowKept, Holds
  <2> QED
    BY <2>1, <2>2, <2>3
<1>10. WorkerReads(w)' /\ WorkerServes(w)'
  BY <1>3, <1>4 DEF WorkerReads, WorkerServes
<1> QED
  BY <1>1, <1>2, <1>3, <1>4, <1>5, <1>6, <1>7, <1>9, <1>10, OnwardIInv

LEMMA ReadBatchIInv ==
    ASSUME NEW w \in Workers, IInv, ReadBatch(w)
    PROVE  IInv'
<1> DEFINE t == worker[w].task
           upto == Upto(From(w))
           last == upto - From(w) < BatchSize
           step == IF upto = From(w) THEN "complete" ELSE "write"
           job == [worker[w] EXCEPT !.upto = upto, !.last = last, !.step = step]
<1>1. /\ worker[w].step = "read" /\ Builds(w)
      /\ UNCHANGED <<source, resource, index, queue, inFlight, call, cleaner, overtaken>>
  BY DEF ReadBatch, At, Builds, Working, Outside
<1>2. /\ t \in Tasks /\ task[t] \in TaskRows /\ worker[w] \in Jobs /\ RowBacked(t)
      /\ WorkerBacked(w) /\ From(w) \in 0..MaxRows
  BY <1>1, BuildFacts
<1>3. CASE Leaves(w) /\ UNCHANGED task
  BY <1>1, <1>3, SameRows, LeaveIInv
<1>4. CASE Leaves(w) /\ task' = MarkStopped(task, t)
  <2>1. "stopped" \in Statuses \ {"absent"} /\ {"pending", "stopping"} \subseteq Active
    BY DEF Statuses, Terminal, Startable, Active
  <2>2. /\ task' \in [Tasks -> TaskRows]
        /\ \A u \in Tasks : RowKept(u) /\ task'[u].mark = task[u].mark
    BY <1>2, <1>4, <2>1, MarkedKeeps DEF MarkStopped
  <2> QED
    BY <1>1, <1>4, <2>2, LeaveIInv
<1>5. CASE Goes(w, job) /\ UNCHANGED task
  <2>1. upto \in 0..MaxRows
    BY <1>2, BatchEnds, Bounds DEF IInv, TypeOK
  <2>. last \in BOOLEAN /\ step \in {"complete", "write"}
    OBVIOUS
  <2> HIDE DEF upto, last, step
  <2>2. /\ job \in Jobs /\ job.step \in {"complete", "write"} /\ job.task = t
        /\ job.mark = worker[w].mark
    BY <1>2, <2>1 DEF Jobs, Working
  <2> HIDE DEF job
  <2>3. /\ worker' \in [Workers -> Jobs] /\ worker'[w] = job
        /\ \A v \in Workers \ {w} : worker'[v] = worker[v]
    BY <1>5, <2>2, WorkerMoves DEF IInv
  <2>4. TypeOK' /\ Builds(w)'
    BY <1>1, <1>5, <2>2, <2>3 DEF IInv, TypeOK, Builds, Working
  <2>5. RowKept(t)
    BY <1>5 DEF RowKept
  <2>6. RowBacked(t)' /\ WorkerBacked(w)' /\ WorkerReads(w)' /\ WorkerServes(w)'
    BY <1>1, <1>2, <1>5, <2>2, <2>3
       DEF RowBacked, WorkerBacked, WorkerReads, WorkerServes, Gone, Holds
  <2> QED
    BY <1>1, <1>5, <2>2, <2>3, <2>4, <2>5, <2>6, OnwardIInv
<1> QED
  BY <1>3, <1>4, <1>5 DEF ReadBatch

LEMMA IndexDocumentsIInv ==
    ASSUME NEW w \in Workers, IInv, IndexDocuments(w)
    PROVE  IInv'
<1> DEFINE t == worker[w].task
           i == task[t].index
           batch == (From(w) + 1)..worker[w].upto
           job == [worker[w] EXCEPT !.step = "progress"]
<1>1. /\ worker[w].step = "write" /\ Builds(w) /\ Goes(w, job)
      /\ index' = [index EXCEPT ![i].exists = TRUE, ![i].rows = @ \cup batch]
      /\ UNCHANGED <<source, resource, task, queue, inFlight, call, cleaner, overtaken>>
  BY DEF IndexDocuments, At, Builds, Working, Outside
<1>2. /\ t \in Tasks /\ task[t] \in TaskRows /\ worker[w] \in Jobs /\ RowBacked(t)
      /\ WorkerBacked(w) /\ From(w) \in 0..MaxRows /\ i \in Tasks
      /\ ~task[t].incremental => i = t
      /\ index \in [Tasks -> Indexes] /\ worker[w].upto \in 0..MaxRows
  BY <1>1, BuildFacts DEF IInv, TypeOK, Jobs
<1>3. /\ job \in Jobs /\ job.step = "progress" /\ job.task = t
      /\ job.mark = worker[w].mark /\ job.upto = worker[w].upto
  BY <1>2 DEF Jobs, Working
<1> HIDE DEF job
<1>4. /\ worker' \in [Workers -> Jobs] /\ worker'[w] = job
      /\ \A v \in Workers \ {w} : worker'[v] = worker[v]
  BY <1>1, <1>3, WorkerMoves DEF IInv
<1>5. batch \subseteq 1..MaxRows
  BY <1>2, Bounds
<1> HIDE DEF batch
<1>6. /\ index' \in [Tasks -> Indexes]
      /\ index'[i].exists /\ index'[i].rows = index[i].rows \cup batch
      /\ \A j \in Tasks \ {i} : index'[j] = index[j]
  <2> DEFINE grown == [index[i] EXCEPT !.exists = TRUE, !.rows = @ \cup batch]
  <2>1. index[i] \in Indexes
    BY <1>2
  <2>2. /\ grown \in Indexes /\ grown.exists
        /\ grown.rows = index[i].rows \cup batch
    BY <2>1, <1>5 DEF Indexes
  <2>3. index' = [index EXCEPT ![i] = grown]
    BY <1>1, <1>2, <2>1 DEF Indexes
  <2> HIDE DEF grown
  <2> QED
    BY <1>2, <2>2, <2>3
<1>7. \A j \in Tasks : index[j].exists =>
         index'[j].exists /\ index[j].rows \subseteq index'[j].rows
  BY <1>2, <1>6
<1>8. TypeOK' /\ Builds(w)' /\ RowKept(t)
  <2>1. TypeOK'
    BY <1>1, <1>4, <1>6 DEF IInv, TypeOK
  <2>2. Builds(w)' /\ RowKept(t)
    BY <1>1, <1>3, <1>4 DEF Builds, Working, RowKept
  <2> QED
    BY <2>1, <2>2
<1>9. From(w)' = From(w)
  BY <1>3, <1>4 DEF From
<1>10. RowBacked(t)'
  <2>1. worker'[w].task = t /\ (Gone(t)' <=> Gone(t))
    BY <1>1, <1>3, <1>4 DEF Gone
  <2>2. \A mark : Holds(t, mark) => index'[t].exists /\ 1..mark \subseteq index'[t].rows
    BY <1>2, <1>7 DEF Holds
  <2> QED
    BY <1>1, <1>2, <2>1, <2>2 DEF RowBacked, Holds
<1>11. WorkerBacked(w)'
  BY <1>1, <1>2, <1>3, <1>4, <1>6, <1>7, <1>9 DEF WorkerBacked, Holds, Gone, batch
<1>12. WorkerReads(w)' /\ WorkerServes(w)'
  BY <1>1, <1>3, <1>4, <1>6, <1>7, <1>9 DEF WorkerReads, WorkerServes, batch
<1> QED
  BY <1>1, <1>2, <1>3, <1>4, <1>7, <1>8, <1>10, <1>11, <1>12, OnwardIInv

LEMMA Continued ==
    ASSUME NEW rows, NEW a \in Int, NEW b \in Int,
           1..a \subseteq rows, (a + 1)..b \subseteq rows
    PROVE  1..b \subseteq rows
OBVIOUS

(* The worker's memory after a batch.                                              *)
LEMMA AfterBatchJob ==
    ASSUME NEW w \in Workers, worker[w] \in Jobs
    PROVE  /\ AfterBatch(w) \in Jobs /\ AfterBatch(w).step \in {"read", "complete"}
           /\ AfterBatch(w).task = worker[w].task /\ AfterBatch(w).mark = worker[w].upto
<1> DEFINE step == IF worker[w].last THEN "complete" ELSE "read"
<1>1. worker[w].upto \in Marks /\ step \in {"read", "complete"}
  BY MarkTypes DEF Jobs
<1>2. AfterBatch(w) = [worker[w] EXCEPT !.mark = worker[w].upto, !.seen = NewResource,
                                        !.step = step]
  BY DEF AfterBatch
<1> HIDE DEF step
<1> QED
  BY <1>1, <1>2, Blanks DEF Jobs, Working

LEMMA SetFullProgressIInv ==
    ASSUME NEW w \in Workers, IInv, SetFullProgress(w)
    PROVE  IInv'
<1> DEFINE t == worker[w].task
           upto == worker[w].upto
<1>1. /\ worker[w].step = "progress" /\ Builds(w) /\ ~task[t].incremental
      /\ task' = SetProgress(task, t, upto) /\ Goes(w, AfterBatch(w))
      /\ UNCHANGED <<source, resource, index, queue, inFlight, call, cleaner, overtaken>>
  BY DEF SetFullProgress, At, Builds, Working, Outside
<1>2. /\ t \in Tasks /\ task[t] \in TaskRows /\ worker[w] \in Jobs /\ RowBacked(t)
      /\ WorkerBacked(w) /\ From(w) \in 0..MaxRows
      /\ From(w) = IF worker[w].mark = NoMark THEN 0 ELSE worker[w].mark
      /\ upto \in 0..MaxRows /\ upto \in Marks
      /\ task \in [Tasks -> TaskRows]
  BY <1>1, BuildFacts, MarkTypes DEF IInv, TypeOK, Jobs
<1>3. /\ task' \in [Tasks -> TaskRows] /\ \A u \in Tasks \ {t} : task'[u] = task[u]
      /\ task'[t].mark \in {task[t].mark, upto}
      /\ task'[t].incremental = task[t].incremental /\ task'[t].config = task[t].config
      /\ task'[t].index = task[t].index /\ task'[t].status = task[t].status
  BY <1>1, <1>2, ProgressedRows
<1>4. RowKept(t)
  BY <1>1, <1>3, BuilderHasTask DEF RowKept
<1>5. /\ worker' \in [Workers -> Jobs] /\ worker'[w] = AfterBatch(w)
      /\ \A v \in Workers \ {w} : worker'[v] = worker[v]
  BY <1>1, <1>2, AfterBatchJob, WorkerMoves DEF IInv
<1>6. /\ worker'[w].task = t /\ worker'[w].mark = upto
      /\ worker'[w].step \in {"read", "complete"}
  BY <1>2, <1>5, AfterBatchJob
<1>7. TypeOK' /\ Builds(w)'
  BY <1>1, <1>3, <1>5, <1>6 DEF IInv, TypeOK, Builds, Working
<1>8. ~Gone(t) => Holds(t, upto)
  <2> SUFFICES ASSUME ~Gone(t) PROVE Holds(t, upto)
    OBVIOUS
  <2>1. /\ index[t].exists /\ (From(w) + 1)..upto \subseteq index[t].rows
        /\ worker[w].mark # NoMark => 1..worker[w].mark \subseteq index[t].rows
    BY <1>1, <1>2 DEF WorkerBacked, Holds
  <2>2. 1..From(w) \subseteq index[t].rows
    BY <1>2, <2>1
  <2>3. From(w) \in Int /\ upto \in Int
    BY <1>2, Bounds
  <2>4. 1..upto \subseteq index[t].rows
    BY <2>1, <2>2, <2>3, Continued
  <2> QED
    BY <2>1, <2>4 DEF Holds
<1>9. Gone(t)' <=> Gone(t)
  BY <1>1, <1>3, <1>6 DEF Gone
<1>10. RowBacked(t)'
  BY <1>1, <1>2, <1>3, <1>6, <1>8, <1>9 DEF RowBacked, Holds
<1>11. WorkerBacked(w)'
  BY <1>1, <1>3, <1>6, <1>8, <1>9 DEF WorkerBacked, Holds
<1>12. WorkerReads(w)' /\ WorkerServes(w)'
  BY <1>6 DEF WorkerReads, WorkerServes
<1> QED
  BY <1>1, <1>2, <1>3, <1>4, <1>5, <1>6, <1>7, <1>10, <1>11, <1>12, OnwardIInv

LEMMA ReadForCheckpointIInv ==
    ASSUME NEW w \in Workers, IInv, ReadForCheckpoint(w)
    PROVE  IInv'
<1> DEFINE t == worker[w].task
           job == [worker[w] EXCEPT !.step = "commit", !.seen = resource]
<1>1. /\ worker[w].step = "progress" /\ Builds(w) /\ task[t].incremental /\ Goes(w, job)
      /\ HasBaseline(resource) /\ FingerprintMatches(resource, task[t])
      /\ resource.index = task[t].index /\ resource.mark = worker[w].mark
      /\ UNCHANGED <<source, resource, task, index, queue, inFlight, call, cleaner, overtaken>>
  BY DEF ReadForCheckpoint, At, Builds, Working, Outside
<1>2. /\ t \in Tasks /\ worker[w] \in Jobs /\ WorkerServes(w)
      /\ resource \in Resources
  BY <1>1, BuildFacts DEF IInv, TypeOK
<1>3. /\ job \in Jobs /\ job.step = "commit" /\ job.task = t /\ job.seen = resource
      /\ job.mark = worker[w].mark /\ job.upto = worker[w].upto
  BY <1>2 DEF Jobs, Working
<1> HIDE DEF job
<1>4. /\ worker' \in [Workers -> Jobs] /\ worker'[w] = job
      /\ \A v \in Workers \ {w} : worker'[v] = worker[v]
  BY <1>1, <1>3, WorkerMoves DEF IInv
<1>5. TypeOK' /\ Builds(w)' /\ RowKept(t)
  BY <1>1, <1>3, <1>4 DEF IInv, TypeOK, Builds, Working, RowKept
<1>6. RowBacked(t)' /\ WorkerBacked(w)' /\ WorkerReads(w)'
  BY <1>1, <1>3, <1>4 DEF RowBacked, WorkerBacked, WorkerReads
<1>7. WorkerServes(w)'
  BY <1>1, <1>2, <1>3, <1>4 DEF WorkerServes, From
<1> QED
  BY <1>1, <1>3, <1>4, <1>5, <1>6, <1>7, OnwardIInv

(* The commit serves the index it has served already, or overtakes another write.   *)
LEMMA CommitIInv ==
    ASSUME NEW w \in Workers, IInv, commitIncrementalProgress(w)
    PROVE  IInv'
<1> DEFINE t == worker[w].task
           i == task[t].index
           upto == worker[w].upto
           seen == worker[w].seen
<1>1. /\ worker[w].step = "commit" /\ Builds(w) /\ resource.exists
      /\ task' = SetProgress(task, t, upto) /\ Goes(w, AfterBatch(w))
      /\ resource' = [resource EXCEPT !.status = "available", !.index = i, !.mark = upto]
      /\ overtaken' = (overtaken \/ LocalIndexState(resource) # LocalIndexState(seen))
      /\ UNCHANGED <<source, index, queue, inFlight, call, cleaner>>
  BY DEF commitIncrementalProgress, At, Builds, Working, Outside
<1>2. /\ t \in Tasks /\ task[t] \in TaskRows /\ worker[w] \in Jobs
      /\ WorkerReads(w) /\ WorkerServes(w) /\ From(w) \in 0..MaxRows
      /\ From(w) = IF worker[w].mark = NoMark THEN 0 ELSE worker[w].mark
      /\ upto \in 0..MaxRows /\ upto \in Marks
      /\ task \in [Tasks -> TaskRows] /\ resource \in Resources
  BY <1>1, BuildFacts, MarkTypes DEF IInv, TypeOK, Jobs
<1>3. /\ task[t].incremental /\ HasBaseline(seen) /\ FingerprintMatches(seen, task[t])
      /\ seen.index = i /\ seen.mark = worker[w].mark
  BY <1>1, <1>2 DEF WorkerReads
<1>4. /\ Retired(i) /\ i \in Tasks /\ i # NoTask /\ i # t
  BY <1>1, <1>2, <1>3, BuilderHasTask, TasksAssumption DEF IInv, RowsNameIndexes, Retired
<1>5. /\ task' \in [Tasks -> TaskRows] /\ \A u \in Tasks \ {t} : task'[u] = task[u]
      /\ task'[t].incremental = task[t].incremental /\ task'[t].config = task[t].config
      /\ task'[t].index = task[t].index /\ task'[t].status = task[t].status
  BY <1>1, <1>2, ProgressedRows
<1>6. RowKept(t)
  BY <1>1, <1>5, BuilderHasTask DEF RowKept
<1>7. /\ worker' \in [Workers -> Jobs] /\ worker'[w] = AfterBatch(w)
      /\ \A v \in Workers \ {w} : worker'[v] = worker[v]
  BY <1>1, <1>2, AfterBatchJob, WorkerMoves DEF IInv
<1>8. worker'[w].task = t /\ worker'[w].step \in {"read", "complete"}
  BY <1>2, <1>7, AfterBatchJob
<1>9. /\ resource' \in Resources /\ resource'.exists /\ resource'.status = "available"
      /\ resource'.index = i /\ resource'.mark = upto /\ resource'.config = resource.config
  BY <1>1, <1>2, <1>4 DEF Resources
<1>10. /\ overtaken' \in BOOLEAN /\ (overtaken => overtaken')
       /\ ~overtaken' => ~overtaken /\ LocalIndexState(resource) = LocalIndexState(seen)
  BY <1>1 DEF IInv, TypeOK
<1>11. TypeOK' /\ Builds(w)'
  BY <1>1, <1>5, <1>7, <1>8, <1>9, <1>10 DEF IInv, TypeOK, Builds, Working
<1>12. Published(resource)' = i
  BY <1>4, <1>9 DEF Published, HasAvailableLocalIndex
<1>13. ASSUME ~overtaken'
       PROVE  /\ Published(resource) = i /\ resource.mark = worker[w].mark
              /\ resource.mark # NoMark /\ ~overtaken
              /\ resource.config = seen.config
  BY <1>3, <1>4, <1>10, <1>13
     DEF LocalIndexState, HasBaseline, HasAvailableLocalIndex, Published
<1>14. PublishedIsComplete'
  <2>1. ASSUME ~overtaken'
        PROVE  /\ index[i].exists /\ task[i].config.mapping = resource.config.mapping
               /\ 1..upto \subseteq index[i].rows
    <3>1. /\ index[i].exists /\ task[i].config.mapping = resource.config.mapping
          /\ 1..From(w) \subseteq index[i].rows
      BY <1>2, <1>4, <1>13, <2>1 DEF IInv, PublishedIsComplete
    <3>2. (From(w) + 1)..upto \subseteq index[i].rows
      BY <1>1, <1>2, <1>3, <1>13, <2>1 DEF WorkerServes
    <3>3. From(w) \in Int /\ upto \in Int
      BY <1>2, Bounds
    <3>4. 1..upto \subseteq index[i].rows
      BY <3>1, <3>2, <3>3, Continued
    <3> QED
      BY <3>1, <3>4
  <2>2. index' = index /\ task'[i] = task[i]
    BY <1>1, <1>4, <1>5
  <2> HIDE DEF i
  <2>3. /\ Published(resource)' = i /\ resource'.mark = upto
        /\ resource'.config = resource.config
    BY <1>9, <1>12
  <2> HIDE DEF upto
  <2> QED
    BY <2>1, <2>2, <2>3 DEF PublishedIsComplete
<1>15. RowBacked(t)' /\ WorkerBacked(w)' /\ WorkerReads(w)' /\ WorkerServes(w)'
  BY <1>3, <1>5, <1>8 DEF RowBacked, WorkerBacked, WorkerReads, WorkerServes
<1>16. /\ Published(resource)' # NoTask => Retired(Published(resource)')
       /\ ~overtaken' => Published(resource)' = Published(resource)
  BY <1>4, <1>12, <1>13
<1> QED
  BY <1>1, <1>2, <1>5, <1>6, <1>7, <1>8, <1>9, <1>10, <1>11, <1>14, <1>15, <1>16, StepIInv

LEMMA CompleteIncrementalIInv ==
    ASSUME NEW w \in Workers, IInv, completeIncrementalBuildTask(w)
    PROVE  IInv'
<1> DEFINE t == worker[w].task
<1>1. /\ Builds(w) /\ Leaves(w)
      /\ UNCHANGED <<source, resource, index, queue, inFlight, call, cleaner, overtaken>>
  BY DEF completeIncrementalBuildTask, At, Builds, Working, Outside
<1>2. t \in Tasks
  BY <1>1, BuilderHasTask
<1>3. PICK from \in SUBSET Active, to \in {"completed", "stopped"} :
         task' = Marked(task, t, from, to)
  BY DEF completeIncrementalBuildTask, MarkStopped, Active
<1>4. to \in Statuses \ {"absent"}
  BY DEF Statuses, Terminal, Startable
<1>5. /\ task' \in [Tasks -> TaskRows]
      /\ \A u \in Tasks : RowKept(u) /\ task'[u].mark = task[u].mark
  BY <1>2, <1>3, <1>4, MarkedKeeps
<1> QED
  BY <1>1, <1>5, LeaveIInv

(* The checkpoint of an empty table is kept whether the publication is refused or   *)
(* not.                                                                            *)
LEMMA ReadForPublicationIInv ==
    ASSUME NEW w \in Workers, IInv, ReadForPublication(w)
    PROVE  IInv'
<1> DEFINE t == worker[w].task
           row == task[t]
           mark == From(w)
           progressed == IF worker[w].mark = NoMark THEN SetProgress(task, t, mark) ELSE task
           job == [worker[w] EXCEPT !.step = "publish", !.mark = mark, !.seen = resource]
<1>1. /\ worker[w].step = "complete" /\ Builds(w) /\ ~row.incremental /\ resource.exists
      /\ UNCHANGED <<source, resource, index, queue, inFlight, call, cleaner, overtaken>>
  BY DEF ReadForPublication, At, Builds, Working, Outside
<1>2. /\ t \in Tasks /\ row \in TaskRows /\ worker[w] \in Jobs /\ RowBacked(t)
      /\ WorkerBacked(w) /\ mark \in 0..MaxRows /\ mark \in Marks
      /\ mark = IF worker[w].mark = NoMark THEN 0 ELSE worker[w].mark
      /\ task \in [Tasks -> TaskRows] /\ resource \in Resources
  BY <1>1, BuildFacts, MarkTypes DEF IInv, TypeOK
<1> HIDE DEF mark
<1>3. /\ progressed \in [Tasks -> TaskRows]
      /\ \A u \in Tasks \ {t} : progressed[u] = task[u]
      /\ progressed[t].mark \in {row.mark, mark}
      /\ progressed[t].incremental = row.incremental /\ progressed[t].config = row.config
      /\ progressed[t].index = row.index /\ progressed[t].status = row.status
  BY <1>2, ProgressedRows
<1>4. ~Gone(t) => Holds(t, mark)
  BY <1>1, <1>2 DEF WorkerBacked, Holds
<1>5. row.status # "absent"
  BY <1>1, BuilderHasTask
<1>6. CASE task' = progressed /\ Goes(w, job) /\ FingerprintMatches(resource, row)
  <2>1. /\ job \in Jobs /\ job.step = "publish" /\ job.task = t /\ job.mark = mark
        /\ job.seen = resource
    BY <1>2 DEF Jobs, Working
  <2> HIDE DEF progressed, job
  <2>2. /\ worker' \in [Workers -> Jobs] /\ worker'[w] = job
        /\ \A v \in Workers \ {w} : worker'[v] = worker[v]
    BY <1>6, <2>1, WorkerMoves DEF IInv
  <2>3. TypeOK' /\ Builds(w)'
    BY <1>1, <1>3, <1>6, <2>1, <2>2 DEF IInv, TypeOK, Builds, Working
  <2>4. RowKept(t)
    BY <1>3, <1>5, <1>6 DEF RowKept
  <2>5. Gone(t)' <=> Gone(t)
    BY <1>1, <1>3, <1>6, <2>1, <2>2 DEF Gone
  <2>6. RowBacked(t)'
    <3>1. worker'[w].task = t /\ task' = progressed /\ index' = index
      BY <1>1, <1>6, <2>1, <2>2
    <3> QED
      BY <1>2, <1>3, <1>4, <2>5, <3>1 DEF RowBacked, Holds
  <2>7. WorkerBacked(w)'
    <3>1. /\ worker'[w].task = t /\ worker'[w].mark = mark /\ worker'[w].step = "publish"
          /\ index' = index
      BY <1>1, <2>1, <2>2
    <3> QED
      BY <1>4, <3>1, <2>5 DEF WorkerBacked, Holds
  <2>8. WorkerReads(w)' /\ WorkerServes(w)'
    BY <1>1, <1>3, <1>6, <2>1, <2>2 DEF WorkerReads, WorkerServes, FingerprintMatches
  <2>9. /\ \A u \in Tasks \ {t} : task'[u] = task[u]
        /\ worker'[w].task = t
    BY <1>3, <1>6, <2>1, <2>2
  <2> QED
    BY <1>1, <2>2, <2>3, <2>4, <2>6, <2>7, <2>8, <2>9, OnwardIInv
<1>7. CASE task' = MarkFailed(progressed, t) /\ Leaves(w)
  <2> HIDE DEF progressed
  <2>1. "failed" \in Statuses /\ t \in Tasks /\ progressed \in [Tasks -> TaskRows]
    BY <1>2, <1>3 DEF Statuses, Terminal, Startable
  <2>2. task' = Marked(progressed, t, Active, "failed")
    BY <1>7 DEF MarkFailed
  <2>3. /\ task' \in [Tasks -> TaskRows] /\ \A u \in Tasks : u # t => task'[u] = progressed[u]
        /\ progressed[t].status \notin Active => task' = progressed
        /\ progressed[t].status \in Active => task'[t].status = "failed"
        /\ \A u \in Tasks :
              /\ task'[u].incremental = progressed[u].incremental
              /\ task'[u].config = progressed[u].config
              /\ task'[u].index = progressed[u].index /\ task'[u].mark = progressed[u].mark
    BY <2>1, <2>2, MarkedRows
  <2>4. RowKept(t)
    BY <1>2, <1>3, <1>5, <2>3 DEF RowKept, Active
  <2>5. \A u \in Tasks \ {t} : RowKept(u) /\ task'[u].mark = task[u].mark
    BY <1>3, <2>3 DEF RowKept
  <2>6. /\ worker' \in [Workers -> Jobs] /\ worker'[w] = Left(t)
        /\ \A v \in Workers : WorkerKept(v)
    BY <1>1, <1>2, <1>7, LeftJobs DEF IInv, TypeOK, WorkerKept, Builds, Working, Leaves, Goes
  <2>7. \A v \in Workers : worker[v].task = t => ~Builds(v)'
    BY <1>1, <1>2, <2>6, BuilderHasTask, LeftJobs DEF Builds, Working
  <2>8. TypeOK'
    BY <1>1, <2>3, <2>6 DEF IInv, TypeOK
  <2>9. task'[t].mark \in {task[t].mark, mark}
    BY <1>2, <1>3, <2>3
  <2>10. \A u \in Tasks :
            /\ RowKept(u)
            /\ \/ task'[u].mark \in {task[u].mark, NoMark}
               \/ /\ Gone(u) \/ task[u].incremental \/ Holds(u, task'[u].mark)
                  /\ \A v \in Workers : worker[v].task = u => ~Builds(v)'
    BY <1>4, <2>4, <2>5, <2>7, <2>9
  <2> QED
    BY <1>1, <2>6, <2>8, <2>10, RetreatIInv
<1> QED
  BY <1>6, <1>7 DEF ReadForPublication, mark

(* Publication: the task is over, its worker goes, and what is served is its index. *)
LEMMA PublishIInv ==
    ASSUME NEW w \in Workers, NEW t \in Tasks, t = worker[w].task, IInv,
           completeFullBuildTask(w), Completes(task[t])
    PROVE  IInv'
<1> DEFINE seen == worker[w].seen
           mark == worker[w].mark
<1>1. /\ worker[w].step = "publish" /\ Builds(w) /\ resource.exists
      /\ task[t].status = "running" /\ task' = Marked(task, t, {"running"}, "completed")
      /\ resource' = [resource EXCEPT !.status = "available", !.index = t, !.mark = mark]
      /\ overtaken' = (LocalIndexState(resource) # LocalIndexState(seen))
      /\ Leaves(w)
      /\ UNCHANGED <<source, index, queue, inFlight, call, cleaner>>
  BY DEF completeFullBuildTask, Completes, At, Builds, Working, Outside
<1>2. /\ t \in Tasks /\ t # NoTask /\ task[t] \in TaskRows /\ worker[w] \in Jobs
      /\ WorkerReads(w) /\ WorkerBacked(w) /\ RowBacked(t) /\ mark \in Marks
      /\ task \in [Tasks -> TaskRows] /\ resource \in Resources
      /\ ~Retired(t) /\ t \in inFlight
      /\ \A v \in Workers \ {w} : worker[v].task # t
  BY <1>1, BuildFacts, BuilderHasTask, TasksAssumption DEF IInv, TypeOK, Jobs
<1>3. /\ ~task[t].incremental /\ FingerprintMatches(seen, task[t])
  BY <1>1, <1>2 DEF WorkerReads
<1>4. "completed" \in Statuses \ {"absent"} /\ {"running"} \subseteq Active
  BY DEF Statuses, Terminal, Startable, Active
<1>5. /\ task' \in [Tasks -> TaskRows]
      /\ \A u \in Tasks : RowKept(u) /\ task'[u].mark = task[u].mark
  BY <1>1, <1>2, <1>4, MarkedKeeps
<1>6. task'[t].status = "completed" /\ \A u \in Tasks \ {t} : task'[u] = task[u]
  BY <1>1, <1>2, <1>4, MarkedRows
<1>7. /\ worker' \in [Workers -> Jobs] /\ worker'[w] = Left(t)
      /\ \A v \in Workers \ {w} : worker'[v] = worker[v]
  BY <1>1, <1>2, LeftJobs DEF IInv, TypeOK, Leaves, Goes
<1>8. worker'[w].step = "leaving" /\ worker'[w].task = t
  BY <1>2, <1>7, LeftJobs
<1>9. /\ resource' \in Resources /\ resource'.exists /\ resource'.status = "available"
      /\ resource'.index = t /\ resource'.mark = mark /\ resource'.config = resource.config
  BY <1>1, <1>2 DEF Resources
<1>10. /\ overtaken' \in BOOLEAN
       /\ ~overtaken' => LocalIndexState(resource) = LocalIndexState(seen)
  BY <1>1
<1>11. TypeOK'
  BY <1>1, <1>5, <1>7, <1>9, <1>10 DEF IInv, TypeOK
<1> HIDE DEF seen, mark
<1>12. Published(resource)' = t
  BY <1>2, <1>9 DEF Published, HasAvailableLocalIndex
<1>13. \A u \in Tasks : Gone(u) => Gone(u)'
  BY <1>1, <1>5, <1>9, GoneStays
<1>14. Builds(w) /\ ~Builds(w)' /\ \A v \in Workers \ {w} : Builds(v)' <=> Builds(v)
  BY <1>1, <1>7, <1>8 DEF Builds, Working
<1>15. \A u : Retired(u) => Retired(u)'
  BY <1>5, <1>7, <1>14, RetiredStays
<1>16. Retired(t)'
  BY <1>2, <1>6, <1>7, <1>14 DEF Retired
<1>17. TasksInHand'
  <2>1. \A v \in Workers :
           /\ worker'[v].task = worker[v].task
           /\ (worker'[v].step = "idle") <=> (worker[v].step = "idle")
    BY <1>1, <1>7, <1>8
  <2>2. \A u \in Tasks : task[u].status # "absent" => task'[u].status # "absent"
    BY <1>5 DEF RowKept
  <2>3. UNCHANGED <<queue, inFlight>>
    BY <1>1
  <2> QED
    BY <2>1, <2>2, <2>3, HandsKept
<1>18. RowsNameIndexes' /\ \A c \in Callers : RequestOK(call[c])'
  <2>1. RowsNameIndexes'
    BY <1>5, <1>15 DEF IInv, RowsNameIndexes, RowKept
  <2>2. \A c \in Callers : RequestOK(call[c])'
    BY <1>1, <1>5, <1>15 DEF IInv, RequestOK, RowKept
  <2> QED
    BY <2>1, <2>2
<1>19. ServedIsRetired'
  BY <1>12, <1>16 DEF ServedIsRetired
<1>20. \A u \in Tasks : RowBacked(u)'
  <2> SUFFICES ASSUME NEW u \in Tasks PROVE RowBacked(u)'
    OBVIOUS
  <2>1. RowBacked(u) /\ (Gone(u) => Gone(u)')
    BY <1>13 DEF IInv
  <2>2. /\ task'[u].incremental = task[u].incremental /\ task'[u].mark = task[u].mark
        /\ index' = index
    BY <1>1, <1>5 DEF RowKept
  <2>3. Holds(u, task[u].mark)' <=> Holds(u, task[u].mark)
    BY <2>2 DEF Holds
  <2> QED
    BY <2>1, <2>2, <2>3 DEF RowBacked
<1>21. ASSUME NEW v \in Workers, Builds(v)'
       PROVE  (WorkerReads(v) /\ WorkerBacked(v) /\ WorkerServes(v))'
  <2>1. v # w /\ Builds(v) /\ worker'[v] = worker[v]
    BY <1>7, <1>14, <1>21
  <2>2. worker[v].task \in Tasks \ {t} /\ task'[worker[v].task] = task[worker[v].task]
    BY <1>2, <1>6, <2>1, BuilderHasTask
  <2>3. WorkerReads(v)' /\ WorkerBacked(v)'
    <3>1. WorkerReads(v) /\ WorkerBacked(v) /\ (Gone(worker[v].task) => Gone(worker[v].task)')
      BY <1>13, <2>1, <2>2 DEF IInv
    <3>2. WorkerReads(v)'
      BY <2>1, <2>2, <3>1 DEF WorkerReads
    <3>3. WorkerBacked(v)'
      BY <1>1, <1>13, <2>1, <2>2, <3>1 DEF WorkerBacked, Holds, From
    <3> QED
      BY <3>2, <3>3
  <2>4. WorkerServes(v)'
    <3>1. task[worker[v].task].incremental => task[worker[v].task].index # t
      BY <1>2, <2>1, <2>2, BuilderHasTask DEF IInv, RowsNameIndexes
    <3> QED
      BY <1>12, <2>1, <2>2, <3>1 DEF WorkerServes
  <2> QED
    BY <2>3, <2>4
<1>22. Judged'
  <2>1. ~Gone(t)
    BY <1>1 DEF Gone
  <2> QED
    BY <1>1, <1>9, <1>12, <1>13, <2>1 DEF IInv, Judged
<1>23. PublishedIsComplete'
  <2>1. ~Gone(t)
    BY <1>1 DEF Gone
  <2>2. index[t].exists /\ (mark # NoMark => 1..mark \subseteq index[t].rows)
    BY <1>1, <1>2, <1>3, <2>1 DEF WorkerBacked, Holds, mark
  <2>3. ~overtaken' => task'[t].config = resource'.config
    BY <1>3, <1>5, <1>9, <1>10 DEF LocalIndexState, FingerprintMatches, RowKept
  <2> QED
    BY <1>1, <1>9, <1>12, <2>2, <2>3 DEF PublishedIsComplete
<1> QED
  BY <1>11, <1>17, <1>18, <1>19, <1>20, <1>21, <1>22, <1>23 DEF IInv

LEMMA CompleteFullIInv ==
    ASSUME NEW w \in Workers, IInv, completeFullBuildTask(w)
    PROVE  IInv'
<1> DEFINE t == worker[w].task
<1>1. CASE Completes(task[t])
  <2>1. t \in Tasks
    BY BuilderHasTask DEF completeFullBuildTask, At, Builds, Working
  <2> QED
    BY <1>1, <2>1, PublishIInv
<1>2. CASE ~Completes(task[t])
  <2>1. /\ Builds(w) /\ Leaves(w) /\ task' = Marked(task, t, {"pending", "stopping"}, "stopped")
        /\ UNCHANGED <<source, resource, index, queue, inFlight, call, cleaner, overtaken>>
    BY <1>2 DEF completeFullBuildTask, At, Builds, Working, Outside, MarkStopped
  <2>2. t \in Tasks
    BY <2>1, BuilderHasTask
  <2>3. "stopped" \in Statuses \ {"absent"} /\ {"pending", "stopping"} \subseteq Active
    BY DEF Statuses, Terminal, Startable, Active
  <2>4. /\ task' \in [Tasks -> TaskRows]
        /\ \A u \in Tasks : RowKept(u) /\ task'[u].mark = task[u].mark
    BY <2>1, <2>2, <2>3, MarkedKeeps
  <2> QED
    BY <2>1, <2>4, LeaveIInv
<1> QED
  BY <1>1, <1>2

LEMMA RestartIInv == IInv /\ Restart => IInv'
<1> SUFFICES ASSUME IInv, Restart PROVE IInv'
  OBVIOUS
<1> DEFINE after(status) == IF status = "running" THEN "failed"
                            ELSE IF status = "stopping" THEN "stopped" ELSE status
<1>1. /\ task' = [t \in Tasks |-> [task[t] EXCEPT !.status = after(task[t].status)]]
      /\ queue' = <<>> /\ inFlight' = {} /\ worker' = [w \in Workers |-> Idle]
      /\ call' = [c \in Callers |-> NoCall] /\ cleaner' = Asleep
      /\ UNCHANGED <<source, resource, index, overtaken>>
  BY DEF Restart
<1>2. \A t \in Tasks : task[t] \in TaskRows /\ after(task[t].status) \in Statuses
  BY DEF IInv, TypeOK, TaskRows, Statuses, Terminal, Startable
<1> HIDE DEF after
<1>3. /\ task' \in [Tasks -> TaskRows]
      /\ \A t \in Tasks :
            /\ task'[t].incremental = task[t].incremental /\ task'[t].config = task[t].config
            /\ task'[t].index = task[t].index /\ task'[t].mark = task[t].mark
            /\ task'[t].status = after(task[t].status)
  BY <1>1, <1>2 DEF TaskRows
<1>4. \A t \in Tasks : task[t].status = "absent" => task'[t] = task[t]
  BY <1>1, <1>2 DEF after, TaskRows
<1>5. \A t \in Tasks : RowKept(t)
  BY <1>3, <1>4 DEF RowKept, after
<1>6. Idle.step = "idle" /\ Idle.task = NoTask /\ NoCall.op = "none" /\ Asleep.step = "asleep"
  BY DEF Idle, NoCall, Asleep
<1>7. TypeOK'
  BY <1>1, <1>3, Blanks DEF IInv, TypeOK
<1>8. \A w \in Workers : ~Builds(w)'
  BY <1>1, <1>6 DEF Builds, Working
<1>9. \A t \in Tasks : Gone(t) => Gone(t)'
  BY <1>1, <1>5, GoneStays
<1>10. \A t : Retired(t) => Retired(t)'
  BY <1>5, <1>8, RetiredStays
<1>11. TasksInHand'
  BY <1>1, <1>6 DEF TasksInHand, OneWorkerPerTask
<1>12. RowsNameIndexes' /\ ServedIsRetired'
  BY <1>1, <1>5, <1>10 DEF IInv, RowsNameIndexes, ServedIsRetired, RowKept
<1>13. \A c \in Callers : RequestOK(call[c])'
  BY <1>1, <1>6 DEF RequestOK
<1>14. \A t \in Tasks : RowBacked(t)'
  BY <1>1, <1>3, <1>9 DEF IInv, RowBacked, Holds
<1>15. Judged' /\ PublishedIsComplete'
  BY <1>1, <1>3, <1>6, TypeFacts DEF IInv, Judged, PublishedIsComplete
<1> QED
  BY <1>7, <1>8, <1>11, <1>12, <1>13, <1>14, <1>15 DEF IInv

-------------------------------------------------------------------------------
(* The cleanup and the source.                                                   *)

(* The cleanup may judge, and delete what is neither served nor resumed from.      *)
LEMMA SweepIInv ==
    ASSUME IInv, UNCHANGED <<source, resource, task, queue, inFlight, worker, call, overtaken>>,
           cleaner' \in Sweeps, Judged',
           index' \in [Tasks -> Indexes],
           \A i \in Tasks : index'[i] # index[i] =>
              Gone(i) /\ (~overtaken => Published(resource) # i)
    PROVE  IInv'
<1>1. TypeOK'
  BY DEF IInv, TypeOK
<1>2. \A t : Retired(t)' <=> Retired(t)
  BY DEF Retired, Builds
<1>3. (TasksInHand /\ RowsNameIndexes /\ ServedIsRetired)' /\ \A c \in Callers : RequestOK(call[c])'
  BY <1>2 DEF IInv, TasksInHand, OneWorkerPerTask, RowsNameIndexes, ServedIsRetired, RequestOK
<1>4. \A t \in Tasks : RowBacked(t)'
  BY DEF IInv, RowBacked, Holds, Gone
<1>5. ASSUME NEW w \in Workers, Builds(w)'
      PROVE  (WorkerReads(w) /\ WorkerBacked(w) /\ WorkerServes(w))'
  <2>1. Builds(w)
    BY <1>5 DEF Builds
  <2>2. /\ worker[w].task \in Tasks
        /\ task[worker[w].task].incremental => task[worker[w].task].index \in Tasks
        /\ WorkerReads(w) /\ WorkerBacked(w) /\ WorkerServes(w)
    BY <2>1, BuildFacts
  <2>3. WorkerReads(w)'
    BY <2>2 DEF WorkerReads
  <2>4. WorkerBacked(w)'
    BY <2>2 DEF WorkerBacked, Gone, Holds, From
  <2>5. WorkerServes(w)'
    BY <2>2 DEF WorkerServes, From
  <2> QED
    BY <2>3, <2>4, <2>5
<1>6. PublishedIsComplete'
  BY TypeFacts DEF IInv, PublishedIsComplete
<1> QED
  BY <1>1, <1>3, <1>4, <1>5, <1>6 DEF IInv

LEMMA Judgement ==
    ASSUME IInv, NEW i \in Tasks, NEW exists \in BOOLEAN, ~exists => ~resource.exists,
           Obsolete(i, exists)
    PROVE  Gone(i)
BY DEF Obsolete, Gone

LEMMA CleanerIInv == IInv /\ Cleaner => IInv'
<1> SUFFICES ASSUME IInv, Cleaner PROVE IInv'
  OBVIOUS
<1>1. /\ cleaner \in Sweeps /\ cleaner.exists \in BOOLEAN /\ index \in [Tasks -> Indexes]
      /\ resource.exists \in BOOLEAN /\ Judged
      /\ Asleep \in Sweeps /\ Asleep.step = "asleep"
  BY Blanks, TypeFacts DEF IInv, TypeOK, Sweeps, Asleep
<1>2. ASSUME NEW to \in Sweeps, Cleans(to)
      PROVE  /\ cleaner' = to
             /\ UNCHANGED <<source, resource, task, queue, inFlight, worker, call, overtaken>>
  BY <1>2 DEF Cleans
<1>3. ASSUME NEW i \in Tasks, runOnce(i) PROVE IInv'
  <2> DEFINE to == [step |-> "listed", index |-> i, exists |-> resource.exists]
  <2>1. to \in Sweeps /\ Cleans(to) /\ index' = index
    BY <1>1, <1>3 DEF Sweeps, runOnce
  <2>2. Judged'
    BY <1>2, <2>1 DEF Judged
  <2> HIDE DEF to
  <2> QED
    BY <1>1, <1>2, <2>1, <2>2, SweepIInv
<1>4. ASSUME classify PROVE IInv'
  <2> DEFINE candidate == [cleaner EXCEPT !.step = "candidate", !.exists = FALSE]
             i == cleaner.index
  <2>1. /\ cleaner.step = "listed" /\ i \in Tasks /\ index' = index
        /\ ~cleaner.exists => ~resource.exists
    BY <1>1, <1>4 DEF classify, Judged
  <2>2. candidate \in Sweeps /\ candidate.step = "candidate" /\ candidate.index = i
    BY <1>1 DEF Sweeps
  <2> HIDE DEF candidate
  <2>3. PICK to \in {candidate, Asleep} :
           Cleans(to) /\ (to = candidate => Obsolete(i, cleaner.exists))
    BY <1>4, <2>2, <1>1 DEF classify, candidate
  <2>4. to = candidate => Gone(i)
    BY <1>1, <2>1, <2>3, Judgement
  <2>5. Judged'
    BY <1>1, <1>2, <2>1, <2>2, <2>3, <2>4 DEF Judged, Gone
  <2> QED
    BY <1>1, <1>2, <2>1, <2>2, <2>3, <2>5, SweepIInv
<1>5. ASSUME recheckReference PROVE IInv'
  <2> DEFINE unreferenced == [cleaner EXCEPT !.step = "unreferenced",
                                             !.exists = resource.exists]
             i == cleaner.index
  <2>1. cleaner.step = "candidate" /\ i \in Tasks /\ index' = index /\ Gone(i)
    BY <1>1, <1>5 DEF recheckReference, Judged
  <2>2. /\ unreferenced \in Sweeps /\ unreferenced.step = "unreferenced"
        /\ unreferenced.index = i /\ unreferenced.exists = resource.exists
    BY <1>1 DEF Sweeps
  <2> HIDE DEF unreferenced
  <2>3. PICK to \in {unreferenced, Asleep} :
           Cleans(to) /\ (to = unreferenced => Published(resource) # i)
    BY <1>5, <2>2, <1>1 DEF recheckReference, unreferenced
  <2>4. Judged'
    BY <1>1, <1>2, <2>1, <2>2, <2>3 DEF Judged, Gone
  <2> QED
    BY <1>1, <1>2, <2>1, <2>2, <2>3, <2>4, SweepIInv
<1>6. ASSUME recheckCandidate PROVE IInv'
  <2> DEFINE doomed == [cleaner EXCEPT !.step = "doomed", !.exists = FALSE]
             i == cleaner.index
  <2>1. /\ cleaner.step = "unreferenced" /\ i \in Tasks /\ index' = index /\ Gone(i)
        /\ ~overtaken => Published(resource) # i
    BY <1>1, <1>6 DEF recheckCandidate, Judged
  <2>2. doomed \in Sweeps /\ doomed.step = "doomed" /\ doomed.index = i
    BY <1>1 DEF Sweeps
  <2> HIDE DEF doomed
  <2>3. PICK to \in {doomed, Asleep} : Cleans(to)
    BY <1>6, <2>2, <1>1 DEF recheckCandidate, doomed
  <2>4. Judged'
    BY <1>1, <1>2, <2>1, <2>2, <2>3 DEF Judged, Gone
  <2> QED
    BY <1>1, <1>2, <2>1, <2>2, <2>3, <2>4, SweepIInv
<1>7. ASSUME DeleteIndex PROVE IInv'
  <2> DEFINE i == cleaner.index
  <2>1. /\ i \in Tasks /\ index' = [index EXCEPT ![i] = NoIndex] /\ Cleans(Asleep) /\ Gone(i)
        /\ ~overtaken => Published(resource) # i
    BY <1>1, <1>7 DEF DeleteIndex, Judged
  <2>2. /\ index' \in [Tasks -> Indexes]
        /\ \A j \in Tasks : index'[j] # index[j] => j = i
    BY <1>1, <2>1, Blanks
  <2>3. Judged'
    BY <1>1, <1>2, <2>1 DEF Judged
  <2> HIDE DEF i
  <2> QED
    BY <1>1, <1>2, <2>1, <2>2, <2>3, SweepIInv
<1> QED
  BY <1>3, <1>4, <1>5, <1>6, <1>7 DEF Cleaner

LEMMA AddRowIInv == IInv /\ AddRow => IInv'
<1> SUFFICES ASSUME IInv, AddRow PROVE IInv'
  OBVIOUS
<1>1. /\ source' \in 0..MaxRows
      /\ UNCHANGED <<resource, task, index, queue, inFlight, worker, call, cleaner, overtaken>>
  BY Bounds DEF AddRow, IInv, TypeOK
<1>2. TypeOK'
  BY <1>1 DEF IInv, TypeOK
<1> QED
  BY <1>1, <1>2, SameRows, RetreatIInv DEF WorkerKept

-------------------------------------------------------------------------------
LEMMA InitIInv == Init => IInv
<1> SUFFICES ASSUME Init PROVE IInv
  OBVIOUS
<1>1. /\ resource = NewResource /\ queue = <<>> /\ inFlight = {} /\ cleaner = Asleep
      /\ task = [t \in Tasks |-> NewTask] /\ index = [t \in Tasks |-> NoIndex]
      /\ worker = [w \in Workers |-> Idle] /\ call = [c \in Callers |-> NoCall]
      /\ source \in 0..MaxRows /\ overtaken = FALSE
  BY DEF Init
<1>2. TypeOK
  <2>1. <<>> \in Seq(Tasks)
    OBVIOUS
  <2>2. call \in [Callers -> Requests] /\ worker \in [Workers -> Jobs]
    BY <1>1, Blanks
  <2>3. task \in [Tasks -> TaskRows] /\ index \in [Tasks -> Indexes]
    BY <1>1, Blanks
  <2> QED
    BY <1>1, <2>1, <2>2, <2>3, Blanks DEF TypeOK
<1>3. Idle.step = "idle" /\ Idle.task = NoTask
  BY DEF Idle
<1>4. TasksInHand
  BY <1>1, <1>3 DEF TasksInHand, OneWorkerPerTask
<1>5. NewTask.status = "absent" /\ NewTask.mark = NoMark
  BY DEF NewTask
<1>6. RowsNameIndexes /\ \A t \in Tasks : RowBacked(t)
  BY <1>1, <1>5 DEF RowsNameIndexes, RowBacked
<1>7. Published(resource) = NoTask
  BY <1>1 DEF Published, HasAvailableLocalIndex, NewResource
<1>8. ServedIsRetired /\ PublishedIsComplete
  BY <1>7 DEF ServedIsRetired, PublishedIsComplete
<1>9. \A c \in Callers : RequestOK(call[c])
  BY <1>1 DEF RequestOK, NoCall
<1>10. \A w \in Workers : ~Builds(w)
  BY <1>1, <1>3 DEF Builds, Working
<1>11. Judged
  BY <1>1 DEF Judged, Asleep
<1> QED
  BY <1>2, <1>4, <1>6, <1>8, <1>9, <1>10, <1>11 DEF IInv

LEMMA StutterIInv == IInv /\ UNCHANGED vars => IInv'
<1> SUFFICES ASSUME IInv, UNCHANGED vars PROVE IInv'
  OBVIOUS
<1>1. UNCHANGED <<source, resource, task, index, queue, inFlight, worker, call, cleaner,
                  overtaken>>
  BY DEF vars
<1>2. TypeOK'
  BY <1>1 DEF IInv, TypeOK
<1> QED
  BY <1>1, <1>2, SameRows, RetreatIInv DEF WorkerKept

LEMMA TaskHandlerIInv ==
    ASSUME NEW c \in Callers, IInv, TaskHandler(c)
    PROVE  IInv'
<1>1. CASE \E incremental \in BOOLEAN : AskCreate(c, incremental)
  BY <1>1, AskCreateIInv
<1>2. CASE \E t \in Tasks, reset \in BOOLEAN : AskStart(c, t, reset)
  BY <1>2, AskStartIInv
<1>3. CASE \E t \in Tasks : AskStop(c, t) \/ AskDelete(c, t)
  BY <1>3, AskStopIInv, AskDeleteIInv
<1>4. CASE Create(c) \/ Start(c) \/ Stop(c) \/ DeleteByIDs(c)
  BY <1>4, CreateIInv, StartIInv, StopIInv, DeleteByIDsIInv
<1> QED
  BY <1>1, <1>2, <1>3, <1>4 DEF TaskHandler

LEMMA ResourceHandlerIInv ==
    ASSUME NEW c \in Callers, IInv, ResourceHandler(c)
    PROVE  IInv'
BY AskEditIInv, EditIInv, AskDeleteResourceIInv, DeleteResourceIInv DEF ResourceHandler

LEMMA WorkerIInv ==
    ASSUME NEW w \in Workers, IInv, Worker(w)
    PROVE  IInv'
BY RunBatchTaskIInv, ClaimIInv, PrepareIndexIInv, ReadBatchIInv, IndexDocumentsIInv,
   SetFullProgressIInv, ReadForCheckpointIInv, CommitIInv, CompleteIncrementalIInv,
   ReadForPublicationIInv, CompleteFullIInv, FailIInv, RemoveIInv DEF Worker

LEMMA NextIInv == IInv /\ [Next]_vars => IInv'
<1> SUFFICES ASSUME IInv, [Next]_vars PROVE IInv'
  OBVIOUS
<1>1. CASE \E c \in TaskCallers : TaskHandler(c)
  BY <1>1, TaskHandlerIInv DEF Callers
<1>2. CASE \E c \in Editors : ResourceHandler(c)
  BY <1>2, ResourceHandlerIInv DEF Callers
<1>3. CASE \E w \in Workers : Worker(w)
  BY <1>3, WorkerIInv
<1>4. CASE AddRow \/ fillBatchQueue \/ Cleaner \/ Restart
  BY <1>4, AddRowIInv, FillIInv, CleanerIInv, RestartIInv
<1>5. CASE UNCHANGED vars
  BY <1>5, StutterIInv
<1> QED
  BY <1>1, <1>2, <1>3, <1>4, <1>5 DEF Next

(* Rows, indexes, queue, workers and handlers agree about who has which task, which *)
(* indexes are needed no more and what the others hold, for any number of workers   *)
(* and handlers.                                                                   *)
THEOREM Invariance == Spec => []IInv
BY InitIInv, NextIInv, PTL DEF Spec

(* The tables, the indexes and what workers, handlers and cleanup remember keep     *)
(* their types.                                                                    *)
THEOREM TypeCorrect == Spec => []TypeOK
<1>1. IInv => TypeOK
  BY DEF IInv
<1> QED
  BY <1>1, Invariance, PTL

(* However often a task is stopped, started and queued again, one worker at most    *)
(* has it in hand.                                                                 *)
THEOREM OneWorker == Spec => []OneWorkerPerTask
<1>1. IInv => OneWorkerPerTask
  BY DEF IInv, TasksInHand
<1> QED
  BY <1>1, Invariance, PTL

(* What is served was published by a full build that completed, although handlers   *)
(* that were slower write back an index state they read earlier.                    *)
THEOREM OnlyCompletedServed == Spec => []OnlyCompletedIsPublished
<1>1. IInv => OnlyCompletedIsPublished
  BY DEF IInv, ServedIsRetired, Retired, OnlyCompletedIsPublished
<1> QED
  BY <1>1, Invariance, PTL

(* The index a resource serves is there, fits its mapping and holds every row up to *)
(* the checkpoint: neither a worker nor the cleanup takes it away.                  *)
THEOREM ServedIsWhole == Spec => []PublishedIsComplete
<1>1. IInv => PublishedIsComplete
  BY DEF IInv
<1> QED
  BY <1>1, Invariance, PTL

(* A full build that can go on after a stop, a failure or a crash finds the rows    *)
(* its checkpoint speaks of.                                                       *)
THEOREM CheckpointsBacked == Spec => []CheckpointIsBacked
<1>1. ASSUME IInv, NEW t \in Tasks, resource.exists,
             task[t].status \in Active \cup Startable,
             ~task[t].incremental, task[t].mark # NoMark
      PROVE  index[t].exists /\ 1..task[t].mark \subseteq index[t].rows
  <2>1. ~Gone(t)
    BY <1>1 DEF Gone, Active, Startable
  <2> QED
    BY <1>1, <2>1 DEF IInv, RowBacked, Holds
<1>2. IInv => CheckpointIsBacked
  BY <1>1 DEF CheckpointIsBacked
<1> QED
  BY <1>2, Invariance, PTL
===============================================================================
