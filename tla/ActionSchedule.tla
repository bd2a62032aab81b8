--------------------------- MODULE ActionSchedule ---------------------------
(* The scheduled actions of the BKN engine. Every pod polls the table for due   *)
(* schedules, takes a lock in the row of each, has the action executed, and      *)
(* releases the lock with the next run time. A lock is a row update and lapses   *)
(* after LockTimeout; an execution may last longer than that. Users create,      *)
(* change, pause, resume and delete schedules in between: a handler reads the    *)
(* row, and the clock, before it writes. Writers of a row change some columns    *)
(* and leave the others to whoever writes them next.                             *)
(*                                                                               *)
(* Pods are taken to agree on the time. A pod's id is its host name and process  *)
(* id: a container that is restarted keeps it.                                    *)
EXTENDS Integers, FiniteSets

CONSTANTS
    Schedules,
    Pods,
    Callers,           \* HTTP handlers in progress
    Crons,             \* cron expressions
    CronNext,          \* [Crons -> [0..MaxTime -> Nat \cup {Never}]]: the slot after a time
    LockTimeout,
    ExecutionTimeout,  \* of the HTTP request that executes the action
    MaxTime,           \* bound: the clock stops here
    MaxFaults,         \* bound: crashes of pods and releases that fail
    NoPod,
    NoSchedule

(* The slot of an expression that parses but has none in the next five years, such *)
(* as 30 February: the zero time of Go, which is negative in milliseconds.        *)
Never == -1

ASSUME TimesAssumption == {LockTimeout, ExecutionTimeout, MaxTime, MaxFaults} \subseteq Nat
ASSUME CronAssumption ==
    /\ DOMAIN CronNext = Crons /\ Crons # {}
    /\ \A cron \in Crons :
          /\ DOMAIN CronNext[cron] = 0..MaxTime
          /\ \A t \in 0..MaxTime : CronNext[cron][t] = Never \/ CronNext[cron][t] \in Nat \ (0..t)
ASSUME NullsAssumption == NoPod \notin Pods /\ NoSchedule \notin Schedules

VARIABLES
    time,
    row,      \* t_action_schedule
    pod,      \* what the poll loop of each pod is doing and has read
    call,     \* what each handler has read
    faults,
    lastSlot, \* history: the latest slot that was executed
    behind,   \* history: schedules set back to a slot already run, by a handler or by a
              \* stale clock, until they have caught up
    had       \* history: the cron expressions each schedule has had

vars == <<time, row, pod, call, faults, lastSlot, behind, had>>

Times == 0..MaxTime

Row == [status : {"absent", "active", "inactive", "deleted"}, cron : Crons,
        next : Nat \cup {Never}, holder : Pods \cup {NoPod}, lockTime : Times]
NoRow == [status |-> "absent", cron |-> CHOOSE cron \in Crons : TRUE,
          next |-> 0, holder |-> NoPod, lockTime |-> 0]
Exists(r) == r.status \in {"active", "inactive"}

(* What a pod knows of a schedule is the cron expression it had when it was       *)
(* listed; lockedAt is the clock as it was read before the lock was taken.        *)
Pod == [step : {"idle", "trying", "executing", "releasing"}, todo : SUBSET Schedules,
        cron : [Schedules -> Crons], schedule : Schedules \cup {NoSchedule},
        since : Times, lockedAt : Times]
IdlePod == [step |-> "idle", todo |-> {},
            cron |-> [s \in Schedules |-> CHOOSE cron \in Crons : TRUE],
            schedule |-> NoSchedule, since |-> 0, lockedAt |-> 0]

Call == [op : {"none", "update", "status", "delete"}, schedule : Schedules \cup {NoSchedule},
         status : {"active", "inactive"}, cron : Crons,
         next : Nat \cup {Never}]
NoCall == [op |-> "none", schedule |-> NoSchedule, status |-> "inactive",
           cron |-> CHOOSE cron \in Crons : TRUE, next |-> 0]

CalculateNextRunTime(cron, from) == CronNext[cron][from]

Init ==
    /\ time = 0
    /\ row = [s \in Schedules |-> NoRow]
    /\ pod = [p \in Pods |-> IdlePod]
    /\ call = [c \in Callers |-> NoCall]
    /\ faults = 0
    /\ lastSlot = [s \in Schedules |-> 0]
    /\ behind = {}
    /\ had = [s \in Schedules |-> {}]

(* The clock, which does not outrun the timeout of a request that is under way.   *)
Tick ==
    /\ time < MaxTime
    /\ \A p \in Pods : pod[p].step = "executing" =>
          time < pod[p].lockedAt + ExecutionTimeout
    /\ time' = time + 1
    /\ UNCHANGED <<row, pod, call, faults, lastSlot, behind, had>>

-------------------------------------------------------------------------------
(* Handlers.                                                                     *)

Table == <<time, row, pod, faults, lastSlot, behind, had>>

Remember == had' = [s \in Schedules |->
                       IF Exists(row'[s]) THEN had[s] \cup {row'[s].cron} ELSE had[s]]

(* The next run time that comes with a status: a paused schedule has none.        *)
NextRunOf(status, cron) ==
    IF status = "active" THEN CalculateNextRunTime(cron, time) ELSE 0

(* A schedule gets an id of its own, which is never used again.                   *)
CreateSchedule(s, status, cron) ==
    /\ row[s].status = "absent"
    /\ row' = [row EXCEPT ![s] = [NoRow EXCEPT !.status = status, !.cron = cron,
                                     !.next = NextRunOf(status, cron)]]
    /\ Remember
    /\ UNCHANGED <<time, pod, call, faults, lastSlot, behind>>

Ask(c, request) ==
    /\ call[c] = NoCall
    /\ call' = [call EXCEPT ![c] = request]
    /\ UNCHANGED Table

(* An update with a cron expression: the next run is computed if the schedule is  *)
(* active when it is read. The other fields are payload.                          *)
AskUpdate(c, s, cron) ==
    /\ Exists(row[s])
    /\ Ask(c, [op |-> "update", schedule |-> s, status |-> "inactive", cron |-> cron,
               next |-> IF row[s].status = "active"
                        THEN CalculateNextRunTime(cron, time) ELSE 0])

AskStatus(c, s, status) ==
    /\ Exists(row[s])
    /\ Ask(c, [op |-> "status", schedule |-> s, status |-> status, cron |-> row[s].cron,
               next |-> NextRunOf(status, row[s].cron)])

AskDelete(c, s) ==
    /\ Exists(row[s])
    /\ Ask(c, [NoCall EXCEPT !.op = "delete", !.schedule = s])

CaughtUp(s, new) ==
    IF new.next > lastSlot[s] /\ new.holder = NoPod THEN behind \ {s} ELSE behind

Writes(c, s, new) ==
    /\ row' = IF Exists(row[s]) THEN [row EXCEPT ![s] = new] ELSE row
    /\ behind' = IF Exists(row[s]) /\ new.next # row[s].next /\ new.next \in 1..lastSlot[s]
                 THEN behind \cup {s} ELSE CaughtUp(s, new)
    /\ Remember
    /\ call' = [call EXCEPT ![c] = NoCall]
    /\ UNCHANGED <<time, pod, faults, lastSlot>>

(* Columns without a new value are left out of the UPDATE.                        *)
UpdateSchedule(c) ==
    LET s == call[c].schedule
        next == call[c].next
    IN /\ call[c].op = "update"
       /\ Writes(c, s, [row[s] EXCEPT !.cron = call[c].cron,
                                      !.next = IF next # 0 THEN next ELSE @])

\* Mutant of UpdateScheduleStatus: the next run is left to the worker.
UpdateStatusAlone(c) ==
    LET s == call[c].schedule
    IN /\ call[c].op = "status"
       /\ Writes(c, s, [row[s] EXCEPT !.status = call[c].status])

UpdateScheduleStatus(c) ==
    LET s == call[c].schedule
    IN /\ call[c].op = "status"
       /\ Writes(c, s, [row[s] EXCEPT !.status = call[c].status, !.next = call[c].next])

DeleteSchedules(c) ==
    LET s == call[c].schedule
    IN /\ call[c].op = "delete"
       /\ Writes(c, s, [NoRow EXCEPT !.status = "deleted"])

-------------------------------------------------------------------------------
(* The poll loop of a pod.                                                       *)

Due(r, now) == r.status = "active" /\ r.next \in 1..now

Goes(p, to) == pod' = [pod EXCEPT ![p] = to]

(* GetDueSchedules: the list is worked off one schedule after the other.          *)
pollAndExecute(p) ==
    LET due == {s \in Schedules : Due(row[s], time)}
    IN /\ pod[p].step = "idle"
       /\ due # {}
       /\ Goes(p, [step |-> "trying", todo |-> due,
                   cron |-> [s \in Schedules |-> IF s \in due THEN row[s].cron
                                                 ELSE IdlePod.cron[s]],
                   schedule |-> NoSchedule, since |-> time, lockedAt |-> 0])
       /\ UNCHANGED <<time, row, call, faults, lastSlot, behind, had>>

\* Mutant of Lapsed: the lock of a dead pod is never taken over.
LapsedNever(r, now) == FALSE
Lapsed(r, now) == r.lockTime < now - LockTimeout

\* Mutant of Acquirable: that the schedule was due when it was listed will do.
AcquirableOnceListed(r, now) ==
    r.status = "active" /\ (r.holder = NoPod \/ Lapsed(r, now))

(* A next run that is Never keeps a schedule out of the lists, not from a lock.   *)
Acquirable(r, now) ==
    r.status = "active" /\ r.next <= now /\ (r.holder = NoPod \/ Lapsed(r, now))

\* Mutant of Untried: a schedule stays in the list while it is executed.
UntriedYet(todo, s) == todo
Untried(todo, s) == todo \ {s}

(* The clock is read before the UPDATE that takes the lock. With the lock the     *)
(* execution begins.                                                             *)
TryAcquireLock(p, s, now) ==
    LET todo == Untried(pod[p].todo, s)
    IN /\ pod[p].step = "trying"
       /\ s \in pod[p].todo
       /\ now \in pod[p].since..time
       /\ IF Acquirable(row[s], now)
          THEN /\ row' = [row EXCEPT ![s].holder = p, ![s].lockTime = now]
               /\ lastSlot' = [lastSlot EXCEPT ![s] =
                      IF row[s].next > @ THEN row[s].next ELSE @]
               /\ behind' = IF row[s].next = Never /\ now < lastSlot[s]
                            THEN behind \cup {s} ELSE behind
               /\ Goes(p, [pod[p] EXCEPT !.step = "executing", !.todo = todo,
                              !.schedule = s, !.since = now, !.lockedAt = now])
          ELSE /\ Goes(p, IF todo = {} THEN IdlePod
                          ELSE [pod[p] EXCEPT !.todo = todo, !.since = now])
               /\ UNCHANGED <<row, lastSlot, behind>>
       /\ UNCHANGED <<time, call, faults, had>>

(* The request is answered, fails or times out: the next run is set all the same. *)
executeSchedule(p) ==
    /\ pod[p].step = "executing"
    /\ Goes(p, [pod[p] EXCEPT !.step = "releasing"])
    /\ UNCHANGED <<time, row, call, faults, lastSlot, behind, had>>

Proceed(p) ==
    Goes(p, IF pod[p].todo = {} THEN IdlePod
            ELSE [pod[p] EXCEPT !.step = "trying", !.schedule = NoSchedule,
                                !.since = time, !.lockedAt = 0])

\* Mutant of HoldsLock: the lock is released by the id of the schedule alone.
HoldsAnyLock(p, r) == Exists(r)
HoldsLock(p, r) == Exists(r) /\ r.holder = p

(* ReleaseLock: a pod that lost its lock changes nothing.                         *)
ReleaseLock(p) ==
    LET s == pod[p].schedule
        next == CalculateNextRunTime(pod[p].cron[s], pod[p].lockedAt)
        released == [row[s] EXCEPT !.holder = NoPod, !.lockTime = 0, !.next = next]
    IN /\ pod[p].step = "releasing"
       /\ IF HoldsLock(p, row[s])
          THEN row' = [row EXCEPT ![s] = released] /\ behind' = CaughtUp(s, released)
          ELSE UNCHANGED <<row, behind>>
       /\ Proceed(p)
       /\ UNCHANGED <<time, call, faults, lastSlot, had>>

(* The error of a release is logged; the lock stays until it lapses.              *)
ReleaseFails(p) ==
    /\ faults < MaxFaults
    /\ pod[p].step = "releasing"
    /\ faults' = faults + 1
    /\ Proceed(p)
    /\ UNCHANGED <<time, row, call, lastSlot, behind, had>>

(* A pod dies, with or without a lock, and starts again.                          *)
Crash(p) ==
    /\ faults < MaxFaults
    /\ pod[p].step # "idle"
    /\ faults' = faults + 1
    /\ Goes(p, IdlePod)
    /\ UNCHANGED <<time, row, call, lastSlot, behind, had>>

-------------------------------------------------------------------------------
Handler(c) ==
    \/ \E s \in Schedules :
          \/ \E cron \in Crons : AskUpdate(c, s, cron)
          \/ \E status \in {"active", "inactive"} : AskStatus(c, s, status)
          \/ AskDelete(c, s)
    \/ UpdateSchedule(c)
    \/ UpdateScheduleStatus(c)
    \/ DeleteSchedules(c)

PollLoop(p) ==
    \/ pollAndExecute(p)
    \/ \E s \in Schedules, now \in Times : TryAcquireLock(p, s, now)
    \/ executeSchedule(p)
    \/ ReleaseLock(p)

Next ==
    \/ Tick
    \/ \E s \in Schedules, status \in {"active", "inactive"}, cron \in Crons :
          CreateSchedule(s, status, cron)
    \/ \E c \in Callers : Handler(c)
    \/ \E p \in Pods : PollLoop(p) \/ ReleaseFails(p) \/ Crash(p)

Spec == Init /\ [][Next]_vars

(* Time passes and the poll loops run; the clock a pod reads keeps up with it.    *)
FairSpec ==
    /\ Spec
    /\ WF_vars(Tick)
    /\ \A p \in Pods :
          /\ WF_vars(pollAndExecute(p)) /\ WF_vars(executeSchedule(p))
          /\ WF_vars(ReleaseLock(p))
          /\ WF_vars(\E s \in Schedules : TryAcquireLock(p, s, time))

-------------------------------------------------------------------------------
TypeOK ==
    /\ time \in Times
    /\ row \in [Schedules -> Row]
    /\ pod \in [Pods -> Pod]
    /\ call \in [Callers -> Call]
    /\ lastSlot \in [Schedules -> Nat]
    /\ behind \subseteq Schedules
    /\ had \in [Schedules -> SUBSET Crons]
    /\ \A p \in Pods :
          /\ pod[p].step \in {"executing", "releasing"} => pod[p].schedule # NoSchedule
          /\ pod[p].schedule \notin pod[p].todo

(* A pod that executes a schedule holds its lock for LockTimeout, whatever other   *)
(* pods and handlers do: two pods execute a schedule at once only when the first    *)
(* one's time was up.                                                             *)
LockOutlivesTimeout ==
    \A p \in Pods :
        LET s == pod[p].schedule
        IN /\ pod[p].step \in {"executing", "releasing"}
           /\ Exists(row[s])
           /\ time <= pod[p].lockedAt + LockTimeout
           => row[s].holder = p /\ row[s].lockTime = pod[p].lockedAt

(* The next run of a schedule nobody has locked lies behind all its runs: a slot   *)
(* runs again only when a lock was lost, a handler wrote a time it had computed      *)
(* before that run, or a pod with an older clock locked a schedule without a slot.  *)
SlotsGoForward ==
    \A s \in Schedules :
        Exists(row[s]) /\ row[s].holder = NoPod /\ row[s].next > 0 /\ s \notin behind
        => row[s].next > lastSlot[s]

(* No order of updates, pauses and releases leaves an active schedule without a    *)
(* next run, so that the poll would never find it again, unless an expression it    *)
(* has or had was without a slot at some time: a handler or a pod that read that     *)
(* expression may write Never even after it was replaced.                          *)
Slotless(cron) == \E t \in 0..time : CalculateNextRunTime(cron, t) = Never
ActiveHasNextRun ==
    \A s \in Schedules :
        row[s].status = "active" =>
            \/ row[s].next > 0
            \/ row[s].next = Never /\ \E cron \in had[s] : Slotless(cron)

(* A due schedule is executed, even if the pod that had it locked is gone; what    *)
(* becomes due too close to the end of the clock is left out.                      *)
DueIsExecuted ==
    \A s \in Schedules :
        Due(row[s], time) /\ time + LockTimeout < MaxTime
        ~> \/ ~Due(row[s], time)
           \/ \E p \in Pods : pod[p].step = "executing" /\ pod[p].schedule = s
===============================================================================
