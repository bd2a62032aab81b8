------------------------ MODULE ActionScheduleProofs ------------------------
(* Proofs about ActionSchedule, for any schedules, pods, handlers, cron           *)
(* expressions, timeouts and clock. LockOutlivesTimeout stands on its own. That    *)
(* slots go forward needs to know what a lock says about the runs before it: the    *)
(* last slot is not after the time the lock was taken, and whoever releases a lock  *)
(* has that time in memory. That active schedules have a next run needs to know     *)
(* where pods and handlers have their expressions from. The invariant has these two  *)
(* halves, Locks and Plans, and each is shown to survive a step from both.          *)
EXTENDS ActionSchedule, TLAPS

Executes(p) == pod[p].step \in {"executing", "releasing"}

(* A pod whose lock a row still carries knows when it was taken.                   *)
HolderKnows ==
    \A p \in Pods : Executes(p) /\ row[pod[p].schedule].holder = p
                    => row[pod[p].schedule].lockTime = pod[p].lockedAt

(* A locked schedule has not run a slot after the time it was locked.              *)
SlotsBehindLock ==
    \A s \in Schedules : row[s].holder # NoPod /\ s \notin behind
                         => lastSlot[s] <= row[s].lockTime

(* Only schedules that exist are locked, and only those that did are executed.      *)
LocksHaveRows ==
    /\ \A s \in Schedules : ~Exists(row[s]) => row[s].holder = NoPod
    /\ \A s \in Schedules : row[s].status = "absent" => lastSlot[s] = 0
    /\ \A p \in Pods : Executes(p) => row[pod[p].schedule].status # "absent"

CallsNameSchedules ==
    \A c \in Callers : call[c].op # "none" => call[c].schedule \in Schedules

Locks ==
    /\ TypeOK /\ LocksHaveRows /\ CallsNameSchedules
    /\ LockOutlivesTimeout /\ HolderKnows
    /\ SlotsBehindLock /\ SlotsGoForward

(* A next run, or one of the expressions has been without a slot.                  *)
Planned(next, crons, now) ==
    \/ next > 0
    \/ /\ next = Never
       /\ \E cron \in crons, t \in 0..now : CalculateNextRunTime(cron, t) = Never

(* Whatever expression a pod or a handler goes by, its schedule has or had it, and  *)
(* a handler that activates a schedule or replaces its expression brings a next run. *)
RowsKnowCrons == \A s \in Schedules : Exists(row[s]) => row[s].cron \in had[s]
PodsKnowCrons ==
    \A p \in Pods :
        /\ \A s \in pod[p].todo : pod[p].cron[s] \in had[s]
        /\ Executes(p) => /\ pod[p].cron[pod[p].schedule] \in had[pod[p].schedule]
                          /\ pod[p].lockedAt \in 0..time
CallsCarryNext ==
    \A c \in Callers :
        /\ call[c].op = "status" /\ call[c].status = "active"
           => Planned(call[c].next, had[call[c].schedule], time)
        /\ call[c].op = "update"
           => call[c].next = 0 \/ Planned(call[c].next, {call[c].cron}, time)

Plans == RowsKnowCrons /\ PodsKnowCrons /\ CallsCarryNext /\ ActiveHasNextRun

IInv == Locks /\ Plans

-------------------------------------------------------------------------------
LEMMA NextRuns ==
    /\ Times \subseteq Nat /\ 0 \in Times
    /\ Never \in Int /\ Never < 0
    /\ \A cron \in Crons, t \in Times :
          \/ CalculateNextRunTime(cron, t) = Never
          \/ CalculateNextRunTime(cron, t) \in Nat /\ CalculateNextRunTime(cron, t) > t
BY TimesAssumption, CronAssumption DEF Times, CalculateNextRunTime, Never

LEMMA Blanks == NoRow \in Row /\ IdlePod \in Pod /\ NoCall \in Call
<1>1. (CHOOSE cron \in Crons : TRUE) \in Crons
  BY CronAssumption
<1>2. NoRow \in Row
  BY <1>1, NextRuns DEF NoRow, Row
<1>3. IdlePod \in Pod
  BY <1>1, NextRuns DEF IdlePod, Pod
<1>4. NoCall \in Call
  BY <1>1 DEF NoCall, Call
<1> QED
  BY <1>2, <1>3, <1>4

(* What it means to be active with a next run, for the theorems below.             *)
LEMMA ActiveMeansPlanned ==
    ActiveHasNextRun <=> \A s \in Schedules :
        row[s].status = "active" => Planned(row[s].next, had[s], time)
BY DEF ActiveHasNextRun, Slotless, Planned

(* Expressions that were once without a slot stay in the history.                  *)
LEMMA StaysPlanned ==
    ASSUME NEW next, NEW crons, NEW more, crons \subseteq more,
           NEW now \in Nat, NEW later \in Nat, now <= later, Planned(next, crons, now)
    PROVE  Planned(next, more, later)
BY DEF Planned

LEMMA Remembered ==
    ASSUME had \in [Schedules -> SUBSET Crons], row' \in [Schedules -> Row], Remember
    PROVE  had' \in [Schedules -> SUBSET Crons]
<1>1. \A s \in Schedules : row'[s].cron \in Crons
  BY DEF Row
<1> QED
  BY <1>1 DEF Remember

LEMMA InitInv == Init => IInv
<1> SUFFICES ASSUME Init PROVE IInv
  OBVIOUS
<1>1. TypeOK
  BY Blanks, NextRuns, NullsAssumption DEF Init, TypeOK, IdlePod
<1>2. LocksHaveRows /\ CallsNameSchedules
  BY DEF Init, LocksHaveRows, CallsNameSchedules, Executes, IdlePod, NoRow, NoCall
<1>3. LockOutlivesTimeout /\ HolderKnows /\ SlotsBehindLock
  BY DEF Init, LockOutlivesTimeout, HolderKnows, SlotsBehindLock, Executes, IdlePod, NoRow
<1>4. SlotsGoForward /\ ActiveHasNextRun
  BY DEF Init, SlotsGoForward, ActiveHasNextRun, Exists, NoRow
<1>5. RowsKnowCrons /\ PodsKnowCrons /\ CallsCarryNext
  BY DEF Init, RowsKnowCrons, PodsKnowCrons, CallsCarryNext, Exists, Executes, IdlePod, NoRow,
         NoCall
<1> QED
  BY <1>1, <1>2, <1>3, <1>4, <1>5 DEF IInv, Locks, Plans

LEMMA TickLocks == IInv /\ Tick => Locks'
<1> SUFFICES ASSUME IInv, Tick PROVE Locks'
  OBVIOUS
<1>1. time \in Nat /\ time' \in Times /\ time' = time + 1
  BY TimesAssumption DEF IInv, Locks, TypeOK, Tick, Times
<1>2. UNCHANGED <<row, pod, call, faults, lastSlot, behind, had>>
  BY DEF Tick
<1>3. TypeOK'
  BY <1>1, <1>2 DEF IInv, Locks, TypeOK
<1>4. LockOutlivesTimeout'
  <2> SUFFICES ASSUME NEW p \in Pods, Executes(p), Exists(row[pod[p].schedule]),
                      time + 1 <= pod[p].lockedAt + LockTimeout
               PROVE  /\ row[pod[p].schedule].holder = p
                      /\ row[pod[p].schedule].lockTime = pod[p].lockedAt
    BY <1>1, <1>2 DEF LockOutlivesTimeout, Executes
  <2>1. pod[p].lockedAt \in Nat
    BY NextRuns DEF IInv, Locks, TypeOK, Pod
  <2> QED
    BY <1>1, <2>1, TimesAssumption DEF IInv, Locks, LockOutlivesTimeout, Executes
<1> QED
  BY <1>2, <1>3, <1>4 DEF IInv, Locks, LocksHaveRows, CallsNameSchedules, HolderKnows, Executes,
     SlotsBehindLock, SlotsGoForward

-------------------------------------------------------------------------------
(* Handlers.                                                                     *)

LEMMA CreateLocks ==
    ASSUME NEW s \in Schedules, NEW status \in {"active", "inactive"}, NEW cron \in Crons,
           IInv, CreateSchedule(s, status, cron)
    PROVE  Locks'
<1> DEFINE new == [NoRow EXCEPT !.status = status, !.cron = cron,
                                !.next = NextRunOf(status, cron)]
<1>1. /\ row[s].status = "absent"
      /\ row' = [row EXCEPT ![s] = new]
      /\ Remember /\ UNCHANGED <<time, pod, call, faults, lastSlot, behind>>
  BY DEF CreateSchedule
<1>2. NextRunOf(status, cron) \in Nat \cup {Never}
  BY NextRuns DEF NextRunOf, IInv, Locks, TypeOK
<1>3. /\ new \in Row /\ new.holder = NoPod /\ new.status = status
      /\ new.next = NextRunOf(status, cron)
  BY <1>2, Blanks DEF Row, NoRow
<1> HIDE DEF new
<1>4. lastSlot[s] = 0 /\ row \in [Schedules -> Row]
  BY <1>1 DEF IInv, Locks, LocksHaveRows, TypeOK
<1>5. \A t \in Schedules : row'[t] = IF t = s THEN new ELSE row[t]
  BY <1>1, <1>4
<1>6. \A p \in Pods : Executes(p) => pod[p].schedule \in Schedules \ {s}
  BY <1>1 DEF IInv, Locks, TypeOK, Pod, LocksHaveRows, Executes
<1>7. TypeOK'
  <2>1. row' \in [Schedules -> Row]
    BY <1>1, <1>3, <1>4
  <2>2. had' \in [Schedules -> SUBSET Crons]
    BY <1>1, <2>1, Remembered DEF IInv, Locks, TypeOK
  <2> QED
    BY <1>1, <2>1, <2>2 DEF IInv, Locks, TypeOK
<1>8. LocksHaveRows' /\ CallsNameSchedules'
  BY <1>1, <1>3, <1>5, <1>6 DEF IInv, Locks, LocksHaveRows, CallsNameSchedules, Exists, Executes
<1>9. LockOutlivesTimeout' /\ HolderKnows'
  BY <1>1, <1>5, <1>6 DEF IInv, Locks, LockOutlivesTimeout, HolderKnows, Executes
<1>10. SlotsBehindLock' /\ SlotsGoForward'
  BY <1>1, <1>2, <1>3, <1>4, <1>5, NextRuns
     DEF IInv, Locks, SlotsBehindLock, SlotsGoForward
<1> QED
  BY <1>7, <1>8, <1>9, <1>10 DEF IInv, Locks

(* A handler that has read changes nothing but its own memory.                    *)
LEMMA AskLocks ==
    ASSUME NEW c \in Callers, NEW request \in Call, IInv, Ask(c, request),
           request.op # "none" => request.schedule \in Schedules
    PROVE  Locks'
<1>1. /\ call' = [call EXCEPT ![c] = request]
      /\ UNCHANGED <<time, row, pod, faults, lastSlot, behind, had>>
  BY DEF Ask, Table
<1>2. TypeOK'
  BY <1>1 DEF IInv, Locks, TypeOK
<1>3. CallsNameSchedules'
  BY <1>1 DEF IInv, Locks, TypeOK, CallsNameSchedules
<1> QED
  BY <1>1, <1>2, <1>3 DEF IInv, Locks, LocksHaveRows, LockOutlivesTimeout, HolderKnows, Executes,
     SlotsBehindLock, SlotsGoForward

LEMMA AsksLocks ==
    ASSUME NEW c \in Callers, NEW s \in Schedules, IInv,
           \/ \E cron \in Crons : AskUpdate(c, s, cron)
           \/ \E status \in {"active", "inactive"} : AskStatus(c, s, status)
           \/ AskDelete(c, s)
    PROVE  Locks'
<1> USE NextRuns
<1>0. row[s] \in Row /\ time \in Times
  BY DEF IInv, Locks, TypeOK
<1>1. CASE \E cron \in Crons : AskUpdate(c, s, cron)
  <2> PICK cron \in Crons : AskUpdate(c, s, cron)
    BY <1>1
  <2> DEFINE request == [op |-> "update", schedule |-> s, status |-> "inactive", cron |-> cron,
                         next |-> IF row[s].status = "active"
                                  THEN CalculateNextRunTime(cron, time) ELSE 0]
  <2>1. request \in Call /\ Ask(c, request)
    BY <1>0 DEF AskUpdate, Call
  <2>2. request.op = "update" /\ request.schedule = s
    OBVIOUS
  <2> HIDE DEF request
  <2> QED
    BY <2>1, <2>2, AskLocks
<1>2. CASE \E status \in {"active", "inactive"} : AskStatus(c, s, status)
  <2> PICK status \in {"active", "inactive"} : AskStatus(c, s, status)
    BY <1>2
  <2> DEFINE request == [op |-> "status", schedule |-> s, status |-> status,
                         cron |-> row[s].cron, next |-> NextRunOf(status, row[s].cron)]
  <2>0. row[s].cron \in Crons
    BY <1>0 DEF Row
  <2>1. NextRunOf(status, row[s].cron) \in Nat \cup {Never}
    BY <1>0, <2>0 DEF NextRunOf
  <2>2. request \in Call /\ Ask(c, request)
    BY <2>0, <2>1 DEF AskStatus, Call
  <2>3. request.op = "status" /\ request.schedule = s
    OBVIOUS
  <2> HIDE DEF request
  <2> QED
    BY <2>2, <2>3, AskLocks
<1>3. CASE AskDelete(c, s)
  <2> DEFINE request == [NoCall EXCEPT !.op = "delete", !.schedule = s]
  <2>1. request \in Call /\ Ask(c, request)
    BY <1>3, Blanks DEF AskDelete, Call, NoCall
  <2>2. request.op = "delete" /\ request.schedule = s
    BY DEF NoCall
  <2> HIDE DEF request
  <2> QED
    BY <2>1, <2>2, AskLocks
<1> QED
  BY <1>1, <1>2, <1>3

(* A handler's UPDATE or DELETE leaves the lock alone, or takes the row away with   *)
(* it; a next run that is not after the last slot is marked as behind.             *)
LEMMA WriteLocks ==
    ASSUME NEW c \in Callers, NEW s \in Schedules, NEW new \in Row, IInv, Writes(c, s, new),
           \/ new.status = "deleted" /\ new.holder = NoPod /\ new.next = 0
           \/ /\ new.holder = row[s].holder /\ new.lockTime = row[s].lockTime
              /\ Exists(row[s]) => Exists(new)
    PROVE  Locks'
<1> USE DEF IInv, Locks
<1>1. /\ row' = IF Exists(row[s]) THEN [row EXCEPT ![s] = new] ELSE row
      /\ behind' = IF Exists(row[s]) /\ new.next # row[s].next /\ new.next \in 1..lastSlot[s]
                   THEN behind \cup {s} ELSE CaughtUp(s, new)
      /\ Remember
      /\ call' = [call EXCEPT ![c] = NoCall]
      /\ UNCHANGED <<time, pod, faults, lastSlot>>
  BY DEF Writes
<1>2. row \in [Schedules -> Row] /\ row' \in [Schedules -> Row]
  BY <1>1 DEF TypeOK
<1>3. \A t \in Schedules : row'[t] = IF Exists(row[s]) /\ t = s THEN new ELSE row[t]
  BY <1>1, <1>2
<1>4. lastSlot \in [Schedules -> Nat] /\ new.next \in Int /\ row[s].next \in Int
  BY <1>2, NextRuns DEF TypeOK, Row
<1>5. /\ behind \subseteq behind' \cup {s} /\ behind' \subseteq behind \cup {s}
      /\ s \in behind /\ s \notin behind' => new.next > lastSlot[s] /\ new.holder = NoPod
      /\ Exists(row[s]) /\ new.next # row[s].next /\ new.next > 0 /\ s \notin behind'
         => new.next > lastSlot[s]
  BY <1>1, <1>4 DEF CaughtUp
<1>6. TypeOK'
  <2>1. /\ call' \in [Callers -> Call] /\ behind' \subseteq Schedules
        /\ had' \in [Schedules -> SUBSET Crons]
    BY <1>1, <1>2, <1>5, Blanks, Remembered DEF TypeOK
  <2> QED
    BY <1>1, <1>2, <2>1 DEF TypeOK
<1>7. LocksHaveRows'
  <2>1. \A p \in Pods : Executes(p) => pod[p].schedule \in Schedules
    BY DEF TypeOK, Pod, Executes
  <2>2. new.status = "deleted" => new.status # "absent" /\ ~Exists(new)
    BY DEF Exists
  <2>3. Exists(new) => new.status # "absent"
    BY DEF Exists
  <2>4. \A t \in Schedules : ~Exists(row'[t]) => row'[t].holder = NoPod
    BY <1>3, <2>2 DEF LocksHaveRows
  <2>5. \A t \in Schedules : row'[t].status = "absent" => row[t].status = "absent"
    BY <1>3, <2>2, <2>3
  <2> QED
    BY <1>1, <2>1, <2>4, <2>5 DEF LocksHaveRows, Executes
<1>8. CallsNameSchedules'
  BY <1>1 DEF CallsNameSchedules, TypeOK, NoCall
<1>9. LockOutlivesTimeout' /\ HolderKnows'
  <2> SUFFICES ASSUME NEW p \in Pods, Executes(p)
               PROVE  LET t == pod[p].schedule
                      IN /\ Exists(row'[t]) /\ time <= pod[p].lockedAt + LockTimeout
                            => row'[t].holder = p /\ row'[t].lockTime = pod[p].lockedAt
                         /\ row'[t].holder = p => row'[t].lockTime = pod[p].lockedAt
    BY <1>1 DEF LockOutlivesTimeout, HolderKnows, Executes
  <2>1. pod[p].schedule \in Schedules /\ p # NoPod
    BY NullsAssumption DEF TypeOK, Pod, Executes
  <2>2. \/ row'[pod[p].schedule] = row[pod[p].schedule]
        \/ pod[p].schedule = s /\ Exists(row[s])
    BY <1>3, <2>1
  <2>3. CASE row'[pod[p].schedule] = row[pod[p].schedule]
    BY <2>3 DEF LockOutlivesTimeout, HolderKnows, Executes
  <2>4. CASE pod[p].schedule = s /\ Exists(row[s])
    <3>1. row'[s] = new
      BY <1>3, <2>4
    <3> QED
      BY <2>1, <2>4, <3>1 DEF LockOutlivesTimeout, HolderKnows, Executes, Exists
  <2> QED
    BY <2>2, <2>3, <2>4
<1>10. SlotsBehindLock' /\ SlotsGoForward'
  <2>1. ASSUME NEW t \in Schedules, t # s
        PROVE  row'[t] = row[t] /\ (t \in behind' <=> t \in behind)
    BY <1>3, <1>5, <2>1
  <2>2. row'[s].holder # NoPod /\ s \notin behind' => lastSlot[s] <= row'[s].lockTime
    BY <1>3, <1>5 DEF SlotsBehindLock, LocksHaveRows
  <2>3. Exists(row'[s]) /\ row'[s].holder = NoPod /\ row'[s].next > 0 /\ s \notin behind'
        => row'[s].next > lastSlot[s]
    BY <1>3, <1>5 DEF SlotsGoForward, Exists
  <2>5. SlotsBehindLock'
    BY <1>1, <2>1, <2>2 DEF SlotsBehindLock
  <2>6. SlotsGoForward'
    BY <1>1, <2>1, <2>3 DEF SlotsGoForward
  <2> QED
    BY <2>5, <2>6
<1> QED
  BY <1>6, <1>7, <1>8, <1>9, <1>10

LEMMA WritesLocks ==
    ASSUME NEW c \in Callers, IInv,
           UpdateSchedule(c) \/ UpdateScheduleStatus(c) \/ DeleteSchedules(c)
    PROVE  Locks'
<1> DEFINE s == call[c].schedule
<1>1. call[c].op # "none" /\ s \in Schedules
  BY DEF IInv, Locks, CallsNameSchedules, UpdateSchedule, UpdateScheduleStatus, DeleteSchedules
<1>2. row[s] \in Row /\ call[c] \in Call
  BY <1>1 DEF IInv, Locks, TypeOK
<1>3. CASE UpdateSchedule(c)
  <2> DEFINE new == [row[s] EXCEPT !.cron = call[c].cron,
                                   !.next = IF call[c].next # 0 THEN call[c].next ELSE @]
  <2>1. Writes(c, s, new)
    BY <1>3 DEF UpdateSchedule
  <2>2. /\ new \in Row /\ new.holder = row[s].holder /\ new.lockTime = row[s].lockTime
        /\ new.status = row[s].status
        /\ new.next = IF call[c].next # 0 THEN call[c].next ELSE row[s].next
    BY <1>2 DEF Row, Call
  <2> HIDE DEF new, s
  <2> QED
    BY <1>1, <2>1, <2>2, WriteLocks DEF Exists
<1>4. CASE UpdateScheduleStatus(c)
  <2> DEFINE new == [row[s] EXCEPT !.status = call[c].status, !.next = call[c].next]
  <2>1. Writes(c, s, new) /\ call[c].op = "status"
    BY <1>4 DEF UpdateScheduleStatus
  <2>2. /\ new \in Row /\ new.holder = row[s].holder /\ new.lockTime = row[s].lockTime
        /\ Exists(new) /\ new.status = call[c].status /\ new.next = call[c].next
    BY <1>2 DEF Row, Call, Exists
  <2> HIDE DEF new, s
  <2> QED
    BY <1>1, <2>1, <2>2, WriteLocks
<1>5. CASE DeleteSchedules(c)
  <2> DEFINE new == [NoRow EXCEPT !.status = "deleted"]
  <2>1. Writes(c, s, new)
    BY <1>5 DEF DeleteSchedules
  <2>2. new \in Row /\ new.status = "deleted" /\ new.holder = NoPod /\ new.next = 0
    BY Blanks DEF Row, NoRow
  <2> HIDE DEF new, s
  <2> QED
    BY <1>1, <2>1, <2>2, WriteLocks
<1> QED
  BY <1>3, <1>4, <1>5

-------------------------------------------------------------------------------
(* The poll loop.                                                                *)

(* A pod that gives up a schedule, or goes on to execute nothing, disturbs nobody.  *)
LEMMA PodLocks ==
    ASSUME NEW p \in Pods, NEW next \in Pod, IInv, Goes(p, next),
           UNCHANGED <<time, row, call, lastSlot, behind, had>>,
           next.schedule \notin next.todo,
           \/ next.step \in {"idle", "trying"}
           \/ /\ Executes(p) /\ next.schedule = pod[p].schedule
              /\ next.lockedAt = pod[p].lockedAt /\ next.schedule # NoSchedule
    PROVE  Locks'
<1> USE DEF IInv, Locks
<1>1. pod \in [Pods -> Pod] /\ pod' = [pod EXCEPT ![p] = next]
  BY DEF TypeOK, Goes
<1>2. TypeOK'
  <2>1. pod' \in [Pods -> Pod]
    BY <1>1
  <2>2. \A q \in Pods : /\ pod'[q].step \in {"executing", "releasing"}
                           => pod'[q].schedule # NoSchedule
                        /\ pod'[q].schedule \notin pod'[q].todo
    BY <1>1 DEF TypeOK
  <2> QED
    BY <2>1, <2>2 DEF TypeOK
<1>3. \A q \in Pods : Executes(q)' => /\ Executes(q)
                                      /\ pod'[q].schedule = pod[q].schedule
                                      /\ pod'[q].lockedAt = pod[q].lockedAt
  BY <1>1 DEF Executes
<1>4. LockOutlivesTimeout'
  BY <1>3 DEF LockOutlivesTimeout, Executes
<1> QED
  BY <1>2, <1>3, <1>4 DEF LocksHaveRows, CallsNameSchedules, HolderKnows, SlotsBehindLock,
     SlotsGoForward

LEMMA PodTypes ==
    ASSUME IInv, NEW p \in Pods
    PROVE  /\ pod[p] \in Pod /\ time \in Times /\ pod[p].schedule \notin pod[p].todo
           /\ pod[p].todo \subseteq Schedules /\ IdlePod.schedule \notin IdlePod.todo
           /\ Executes(p) => pod[p].schedule \in Schedules
BY DEF IInv, Locks, TypeOK, Pod, IdlePod, Executes

LEMMA PollLocks == ASSUME NEW p \in Pods, IInv, pollAndExecute(p) PROVE Locks'
<1> DEFINE due == {s \in Schedules : Due(row[s], time)}
           next == [step |-> "trying", todo |-> due,
                    cron |-> [s \in Schedules |-> IF s \in due THEN row[s].cron
                                                  ELSE IdlePod.cron[s]],
                    schedule |-> NoSchedule, since |-> time, lockedAt |-> 0]
<1>1. Goes(p, next) /\ UNCHANGED <<time, row, call, lastSlot, behind, had>>
  BY DEF pollAndExecute
<1>2. \A s \in Schedules : row[s].cron \in Crons /\ IdlePod.cron[s] \in Crons
  BY Blanks DEF IInv, Locks, TypeOK, Row, Pod
<1>3. [s \in Schedules |-> IF s \in due THEN row[s].cron ELSE IdlePod.cron[s]]
      \in [Schedules -> Crons]
  BY <1>2
<1>4. due \subseteq Schedules /\ NoSchedule \notin due
  BY NullsAssumption
<1> HIDE DEF due
<1>5. next \in Pod /\ next.schedule \notin next.todo /\ next.step = "trying"
  BY <1>3, <1>4, PodTypes, NextRuns DEF Pod
<1> HIDE DEF next
<1> QED
  BY <1>1, <1>5, PodLocks

LEMMA ExecuteLocks == ASSUME NEW p \in Pods, IInv, executeSchedule(p) PROVE Locks'
<1> DEFINE next == [pod[p] EXCEPT !.step = "releasing"]
<1>1. /\ Goes(p, next) /\ Executes(p)
      /\ UNCHANGED <<time, row, call, lastSlot, behind, had>>
  BY DEF executeSchedule, Executes
<1>2. /\ next \in Pod /\ next.schedule = pod[p].schedule /\ next.todo = pod[p].todo
      /\ next.lockedAt = pod[p].lockedAt
  BY PodTypes DEF Pod
<1>3. next.schedule \notin next.todo /\ next.schedule # NoSchedule
  BY <1>1, <1>2, PodTypes DEF IInv, Locks, TypeOK, Executes
<1> HIDE DEF next
<1> QED
  BY <1>1, <1>2, <1>3, PodLocks

(* What a pod is left with when it is through with a schedule.                     *)
LEMMA ProceedType ==
    ASSUME IInv, NEW p \in Pods, Proceed(p)
    PROVE  \E next \in Pod : /\ Goes(p, next) /\ next.step \in {"idle", "trying"}
                             /\ next.schedule \notin next.todo
<1>1. CASE pod[p].todo = {}
  BY <1>1, Blanks, PodTypes DEF Proceed, IdlePod
<1>2. CASE pod[p].todo # {}
  <2> DEFINE next == [pod[p] EXCEPT !.step = "trying", !.schedule = NoSchedule,
                                    !.since = time, !.lockedAt = 0]
  <2>1. Goes(p, next) /\ next \in Pod /\ next.step = "trying"
        /\ next.schedule \notin next.todo
    BY <1>2, PodTypes, NextRuns, NullsAssumption DEF Proceed, Pod
  <2> QED
    BY <2>1
<1> QED
  BY <1>1, <1>2

LEMMA FaultLocks == ASSUME NEW p \in Pods, IInv, ReleaseFails(p) \/ Crash(p) PROVE Locks'
<1>1. CASE ReleaseFails(p)
  <2>1. Proceed(p) /\ UNCHANGED <<time, row, call, lastSlot, behind, had>>
    BY <1>1 DEF ReleaseFails
  <2> QED
    BY <2>1, ProceedType, PodLocks
<1>2. CASE Crash(p)
  BY <1>2, Blanks, PodTypes, PodLocks DEF Crash, IdlePod
<1> QED
  BY <1>1, <1>2

(* Taking a lock: the schedule had no holder, or one whose time was up.            *)
LEMMA AcquireLocks ==
    ASSUME NEW p \in Pods, NEW s \in Schedules, NEW now \in Times, IInv,
           TryAcquireLock(p, s, now), Acquirable(row[s], now)
    PROVE  Locks'
<1> USE DEF IInv, Locks
<1> DEFINE locked == [row[s] EXCEPT !.holder = p, !.lockTime = now]
           slot == IF row[s].next > lastSlot[s] THEN row[s].next ELSE lastSlot[s]
           next == [pod[p] EXCEPT !.step = "executing", !.todo = Untried(pod[p].todo, s),
                                  !.schedule = s, !.since = now, !.lockedAt = now]
<1>1. /\ pod[p].step = "trying" /\ now \in 0..time
      /\ row' = [row EXCEPT ![s] = locked] /\ lastSlot' = [lastSlot EXCEPT ![s] = slot]
      /\ pod' = [pod EXCEPT ![p] = next]
      /\ behind' = IF row[s].next = Never /\ now < lastSlot[s] THEN behind \cup {s} ELSE behind
      /\ UNCHANGED <<time, call, faults, had>>
  <2>1. row' = [row EXCEPT ![s].holder = p, ![s].lockTime = now]
    BY DEF TryAcquireLock
  <2>2. row' = [row EXCEPT ![s] = locked]
    BY <2>1 DEF TypeOK
  <2> QED
    BY <2>2, PodTypes, NextRuns DEF TryAcquireLock, Goes, Pod, Times
<1>2. /\ row \in [Schedules -> Row] /\ pod \in [Pods -> Pod] /\ time \in Times
      /\ lastSlot \in [Schedules -> Nat]
  BY DEF TypeOK
<1>3. /\ locked \in Row /\ locked.holder = p /\ locked.lockTime = now
      /\ locked.status = "active" /\ row[s].status = "active"
      /\ locked.next = row[s].next /\ row[s].next \in Int /\ row[s].next <= now
      /\ row[s].next = Never \/ row[s].next > 0
      /\ row[s].holder = NoPod \/ row[s].lockTime < now - LockTimeout
      /\ row[s].lockTime \in Nat /\ now \in Nat /\ time \in Nat /\ LockTimeout \in Nat
  <2>1. /\ row[s].status = "active" /\ row[s].next <= now
        /\ row[s].holder = NoPod \/ row[s].lockTime < now - LockTimeout
    BY DEF Acquirable, Lapsed
  <2>2. row[s].next = Never \/ row[s].next > 0
    BY <2>1, ActiveMeansPlanned DEF Plans, Planned
  <2>3. row[s].next \in Nat \cup {Never} /\ row[s].lockTime \in Times
    BY <1>2 DEF Row
  <2>4. /\ row[s].lockTime \in Nat /\ now \in Nat /\ time \in Nat /\ LockTimeout \in Nat
        /\ row[s].next \in Int
    BY <1>2, <2>3, NextRuns, TimesAssumption
  <2>5. /\ locked \in Row /\ locked.holder = p /\ locked.lockTime = now
        /\ locked.status = row[s].status /\ locked.next = row[s].next
    BY <1>2 DEF Row
  <2> QED
    BY <2>1, <2>2, <2>4, <2>5
<1>4. /\ next \in Pod /\ next.step = "executing" /\ next.schedule = s
      /\ next.lockedAt = now /\ next.todo = pod[p].todo \ {s}
  BY <1>2, NextRuns DEF Pod, Untried
<1>5. slot \in Nat /\ behind' \in {behind, behind \cup {s}} /\ (s \notin behind' => slot <= now)
  <2>1. slot \in Nat
    BY <1>2, <1>3
  <2>2. s \notin behind /\ row[s].holder = NoPod /\ row[s].next > 0 => row[s].next > lastSlot[s]
    BY <1>3 DEF SlotsGoForward, Exists
  <2>3. s \notin behind /\ row[s].holder # NoPod => lastSlot[s] <= row[s].lockTime
    BY DEF SlotsBehindLock
  <2>4. s \notin behind' => s \notin behind /\ (row[s].next = Never => lastSlot[s] <= now)
    BY <1>1, <1>2, <1>3
  <2> QED
    BY <1>1, <1>2, <1>3, <2>1, <2>2, <2>3, <2>4, NextRuns
<1>6. s # NoSchedule /\ p # NoPod
  BY NullsAssumption
<1> HIDE DEF locked, slot, next
<1>7. TypeOK'
  <2>1. row' \in [Schedules -> Row] /\ pod' \in [Pods -> Pod] /\ lastSlot' \in [Schedules -> Nat]
    BY <1>1, <1>2, <1>3, <1>4, <1>5
  <2>2. \A q \in Pods : /\ pod'[q].step \in {"executing", "releasing"}
                           => pod'[q].schedule # NoSchedule
                        /\ pod'[q].schedule \notin pod'[q].todo
    BY <1>1, <1>2, <1>4, <1>6 DEF TypeOK
  <2>3. behind' \subseteq Schedules
    BY <1>5 DEF TypeOK
  <2> QED
    BY <1>1, <2>1, <2>2, <2>3 DEF TypeOK
<1>8. LocksHaveRows'
  <2>1. \A t \in Schedules : t # s => row'[t] = row[t] /\ lastSlot'[t] = lastSlot[t]
    BY <1>1, <1>2
  <2>2. row'[s] = locked /\ Exists(locked) /\ locked.status # "absent"
    BY <1>1, <1>2, <1>3 DEF Exists
  <2>3. \A q \in Pods : Executes(q)' => row'[pod'[q].schedule].status # "absent"
    <3> SUFFICES ASSUME NEW q \in Pods, Executes(q)'
                 PROVE  row'[pod'[q].schedule].status # "absent"
      OBVIOUS
    <3>1. CASE q = p
      BY <1>1, <1>2, <1>4, <2>2, <3>1
    <3>2. CASE q # p
      <4>1. pod'[q] = pod[q] /\ Executes(q)
        BY <1>1, <1>2, <3>2 DEF Executes
      <4>2. pod[q].schedule \in Schedules /\ row[pod[q].schedule].status # "absent"
        BY <4>1, PodTypes DEF LocksHaveRows
      <4> QED
        BY <2>1, <2>2, <4>1, <4>2
    <3> QED
      BY <3>1, <3>2
  <2> QED
    BY <2>1, <2>2, <2>3 DEF LocksHaveRows
<1>9. CallsNameSchedules'
  BY <1>1 DEF CallsNameSchedules
<1>10. LockOutlivesTimeout' /\ HolderKnows'
  <2> SUFFICES ASSUME NEW q \in Pods, Executes(q)'
               PROVE  LET t == pod'[q].schedule
                      IN /\ Exists(row'[t]) /\ time <= pod'[q].lockedAt + LockTimeout
                            => row'[t].holder = q /\ row'[t].lockTime = pod'[q].lockedAt
                         /\ row'[t].holder = q => row'[t].lockTime = pod'[q].lockedAt
    BY <1>1 DEF LockOutlivesTimeout, HolderKnows, Executes
  <2>1. CASE q = p
    BY <1>1, <1>2, <1>3, <1>4, <2>1
  <2>2. CASE q # p
    <3>1. pod'[q] = pod[q] /\ Executes(q) /\ pod[q].schedule \in Schedules
          /\ pod[q].lockedAt \in Nat
      BY <1>1, <1>2, <2>2, PodTypes, NextRuns DEF Executes, Pod
    <3>2. CASE pod[q].schedule # s
      <4>1. row'[pod[q].schedule] = row[pod[q].schedule]
        BY <1>1, <1>2, <3>1, <3>2
      <4> QED
        BY <3>1, <4>1 DEF LockOutlivesTimeout, HolderKnows, Executes
    <3>3. CASE pod[q].schedule = s
      <4>1. row'[s] = locked /\ Exists(row[s]) /\ now <= time
        BY <1>1, <1>2, <1>3 DEF Exists
      <4>2. ~(time <= pod[q].lockedAt + LockTimeout)
        <5> SUFFICES ASSUME time <= pod[q].lockedAt + LockTimeout PROVE FALSE
          OBVIOUS
        <5>1. row[s].holder = q /\ row[s].lockTime = pod[q].lockedAt
          BY <3>1, <3>3, <4>1 DEF LockOutlivesTimeout, Executes
        <5>2. row[s].lockTime < now - LockTimeout
          BY <1>3, <5>1, NullsAssumption
        <5> QED
          BY <1>3, <3>1, <4>1, <5>1, <5>2
      <4> QED
        BY <1>3, <2>2, <3>1, <3>3, <4>1, <4>2
    <3> QED
      BY <3>2, <3>3
  <2> QED
    BY <2>1, <2>2
<1>11. SlotsBehindLock' /\ SlotsGoForward'
  <2>1. \A t \in Schedules : t # s => row'[t] = row[t] /\ lastSlot'[t] = lastSlot[t]
    BY <1>1, <1>2
  <2>2. row'[s] = locked /\ lastSlot'[s] = slot
    BY <1>1, <1>2
  <2>3. SlotsBehindLock'
    BY <1>3, <1>5, <2>1, <2>2 DEF SlotsBehindLock
  <2>4. SlotsGoForward'
    BY <1>3, <1>5, <1>6, <2>1, <2>2 DEF SlotsGoForward
  <2> QED
    BY <2>3, <2>4
<1> QED
  BY <1>7, <1>8, <1>9, <1>10, <1>11

LEMMA TryLocks ==
    ASSUME NEW p \in Pods, NEW s \in Schedules, NEW now \in Times, IInv,
           TryAcquireLock(p, s, now)
    PROVE  Locks'
<1>1. CASE Acquirable(row[s], now)
  BY <1>1, AcquireLocks
<1>2. CASE ~Acquirable(row[s], now)
  <2> DEFINE todo == Untried(pod[p].todo, s)
             next == [pod[p] EXCEPT !.todo = todo, !.since = now]
  <2>1. /\ Goes(p, IF todo = {} THEN IdlePod ELSE next) /\ pod[p].step = "trying"
        /\ UNCHANGED <<time, row, call, lastSlot, behind, had>>
    BY <1>2 DEF TryAcquireLock
  <2>2. /\ next \in Pod /\ next.step = "trying" /\ next.schedule = pod[p].schedule
        /\ next.todo \subseteq pod[p].todo
    BY <2>1, PodTypes DEF Pod, Untried
  <2>3. next.schedule \notin next.todo
    BY <2>2, PodTypes
  <2> HIDE DEF todo, next
  <2>4. CASE todo = {}
    BY <2>1, <2>4, Blanks, PodTypes, PodLocks DEF IdlePod
  <2>5. CASE todo # {}
    BY <2>1, <2>2, <2>3, <2>5, PodLocks
  <2> QED
    BY <2>4, <2>5
<1> QED
  BY <1>1, <1>2

(* Releasing it: the next run is after the time of the lock, so after every slot     *)
(* that was run, unless a handler set the schedule back in between.                 *)
LEMMA ReleaseLocks == ASSUME NEW p \in Pods, IInv, ReleaseLock(p) PROVE Locks'
<1> USE DEF IInv, Locks
<1> DEFINE s == pod[p].schedule
           run == CalculateNextRunTime(pod[p].cron[s], pod[p].lockedAt)
           released == [row[s] EXCEPT !.holder = NoPod, !.lockTime = 0, !.next = run]
<1>1. /\ pod[p].step = "releasing" /\ Executes(p) /\ Proceed(p)
      /\ UNCHANGED <<time, call, faults, lastSlot, had>>
      /\ IF HoldsLock(p, row[s])
         THEN row' = [row EXCEPT ![s] = released] /\ behind' = CaughtUp(s, released)
         ELSE UNCHANGED <<row, behind>>
  BY DEF ReleaseLock, Executes
<1>2. PICK next \in Pod : /\ pod' = [pod EXCEPT ![p] = next]
                          /\ next.step \in {"idle", "trying"} /\ next.schedule \notin next.todo
  BY <1>1, ProceedType DEF Goes
<1>3. /\ s \in Schedules /\ row \in [Schedules -> Row] /\ pod \in [Pods -> Pod]
      /\ pod[p].lockedAt \in Times /\ pod[p].cron[s] \in Crons
      /\ lastSlot \in [Schedules -> Nat] /\ behind \subseteq Schedules
  BY <1>1, PodTypes DEF TypeOK, Pod
<1>4. /\ run \in Nat \cup {Never} /\ pod[p].lockedAt \in Nat
      /\ run > 0 => run > pod[p].lockedAt
  <2>1. \/ run = Never
        \/ run \in Nat /\ run > pod[p].lockedAt
    BY <1>3, NextRuns
  <2> HIDE DEF run
  <2>2. pod[p].lockedAt \in Nat /\ run \in Nat \cup {Never}
    BY <1>3, <2>1, NextRuns
  <2>3. run = Never => ~(run > 0)
    BY NextRuns
  <2> QED
    BY <2>1, <2>2, <2>3
<1>5. /\ released \in Row /\ released.holder = NoPod /\ released.next = run
      /\ released.status = row[s].status
  BY <1>3, <1>4, NextRuns DEF Row
<1>6. \A q \in Pods : Executes(q)' => q # p /\ pod'[q] = pod[q] /\ Executes(q)
  BY <1>2, <1>3 DEF Executes
<1> HIDE DEF s, run, released
<1>7. CASE ~HoldsLock(p, row[s])
  <2>1. UNCHANGED <<time, row, call, lastSlot, behind, had>> /\ Goes(p, next)
    BY <1>1, <1>2, <1>7 DEF Goes
  <2> QED
    BY <1>2, <2>1, PodLocks
<1>8. CASE HoldsLock(p, row[s])
  <2>1. /\ row' = [row EXCEPT ![s] = released] /\ behind' = CaughtUp(s, released)
        /\ Exists(row[s]) /\ row[s].holder = p /\ row[s].lockTime = pod[p].lockedAt
    BY <1>1, <1>8 DEF HoldsLock, HolderKnows, s
  <2>2. \A t \in Schedules : row'[t] = IF t = s THEN released ELSE row[t]
    BY <1>3, <2>1
  <2>3. /\ behind' \subseteq behind /\ behind \subseteq behind' \cup {s}
        /\ s \notin behind' /\ run > 0 => run > lastSlot[s]
    <3>1. s \notin behind => lastSlot[s] <= pod[p].lockedAt
      BY <1>3, <2>1, NullsAssumption DEF SlotsBehindLock
    <3> QED
      BY <1>3, <1>4, <1>5, <2>1, <3>1, NextRuns DEF CaughtUp
  <2>4. TypeOK'
    <3>1. /\ row' \in [Schedules -> Row] /\ pod' \in [Pods -> Pod] /\ behind' \subseteq Schedules
      BY <1>2, <1>3, <1>5, <2>1, <2>3
    <3>2. \A q \in Pods : /\ pod'[q].step \in {"executing", "releasing"}
                             => pod'[q].schedule # NoSchedule
                          /\ pod'[q].schedule \notin pod'[q].todo
      BY <1>2, <1>3 DEF TypeOK
    <3> QED
      BY <1>1, <3>1, <3>2 DEF TypeOK
  <2>5. LocksHaveRows' /\ CallsNameSchedules'
    <3>1. \A t \in Schedules : row'[t].status = row[t].status
      BY <1>5, <2>2
    <3>2. \A q \in Pods : Executes(q) => pod[q].schedule \in Schedules
      BY PodTypes
    <3>3. \A t \in Schedules : ~Exists(row'[t]) => row'[t].holder = NoPod
      BY <1>5, <2>2, <3>1 DEF LocksHaveRows, Exists
    <3>4. LocksHaveRows'
      BY <1>1, <1>6, <3>1, <3>2, <3>3 DEF LocksHaveRows
    <3> QED
      BY <1>1, <3>4 DEF CallsNameSchedules
  <2>6. LockOutlivesTimeout' /\ HolderKnows'
    <3> SUFFICES ASSUME NEW q \in Pods, Executes(q)'
                 PROVE  LET t == pod'[q].schedule
                        IN /\ Exists(row'[t]) /\ time <= pod'[q].lockedAt + LockTimeout
                              => row'[t].holder = q /\ row'[t].lockTime = pod'[q].lockedAt
                           /\ row'[t].holder = q => row'[t].lockTime = pod'[q].lockedAt
      BY <1>1 DEF LockOutlivesTimeout, HolderKnows, Executes
    <3>1. q # p /\ q # NoPod /\ pod'[q] = pod[q] /\ Executes(q)
      BY <1>6, NullsAssumption
    <3>2. pod[q].schedule \in Schedules
      BY <3>1, PodTypes
    <3>3. CASE pod[q].schedule # s
      <4>1. row'[pod[q].schedule] = row[pod[q].schedule]
        BY <2>2, <3>2, <3>3
      <4> QED
        BY <3>1, <4>1 DEF LockOutlivesTimeout, HolderKnows, Executes
    <3>4. CASE pod[q].schedule = s
      <4>1. row'[s].holder = NoPod
        BY <1>3, <1>5, <2>2
      <4>2. ~(time <= pod[q].lockedAt + LockTimeout)
        BY <2>1, <3>1, <3>4 DEF LockOutlivesTimeout, Executes
      <4> QED
        BY <3>1, <3>4, <4>1, <4>2
    <3> QED
      BY <3>3, <3>4
  <2>7. SlotsBehindLock'
    BY <1>1, <1>5, <2>2, <2>3 DEF SlotsBehindLock
  <2>8. SlotsGoForward'
    BY <1>1, <1>5, <2>2, <2>3 DEF SlotsGoForward
  <2> QED
    BY <2>4, <2>5, <2>6, <2>7, <2>8
<1> QED
  BY <1>7, <1>8

-------------------------------------------------------------------------------
LEMMA NextLocks == IInv /\ [Next]_vars => Locks'
<1> SUFFICES ASSUME IInv, [Next]_vars PROVE Locks'
  OBVIOUS
<1>1. CASE Tick
  BY <1>1, TickLocks
<1>2. CASE \E s \in Schedules, status \in {"active", "inactive"}, cron \in Crons :
              CreateSchedule(s, status, cron)
  BY <1>2, CreateLocks
<1>3. CASE \E c \in Callers : Handler(c)
  <2> PICK c \in Callers : Handler(c)
    BY <1>3
  <2>1. CASE UpdateSchedule(c) \/ UpdateScheduleStatus(c) \/ DeleteSchedules(c)
    BY <2>1, WritesLocks
  <2>2. CASE ~(UpdateSchedule(c) \/ UpdateScheduleStatus(c) \/ DeleteSchedules(c))
    <3> PICK s \in Schedules :
             \/ \E cron \in Crons : AskUpdate(c, s, cron)
             \/ \E status \in {"active", "inactive"} : AskStatus(c, s, status)
             \/ AskDelete(c, s)
      BY <2>2 DEF Handler
    <3> QED
      BY AsksLocks
  <2> QED
    BY <2>1, <2>2
<1>4. CASE \E p \in Pods : PollLoop(p) \/ ReleaseFails(p) \/ Crash(p)
  <2> PICK p \in Pods : PollLoop(p) \/ ReleaseFails(p) \/ Crash(p)
    BY <1>4
  <2>1. CASE ReleaseFails(p) \/ Crash(p)
    BY <2>1, FaultLocks
  <2>2. CASE PollLoop(p)
    BY <2>2, PollLocks, TryLocks, ExecuteLocks, ReleaseLocks DEF PollLoop
  <2> QED
    BY <2>1, <2>2
<1>5. CASE UNCHANGED vars
  BY <1>5 DEF vars, IInv, Locks, TypeOK, LocksHaveRows, CallsNameSchedules, LockOutlivesTimeout,
     HolderKnows, Executes, SlotsBehindLock, SlotsGoForward
<1> QED
  BY <1>1, <1>2, <1>3, <1>4, <1>5 DEF Next

-------------------------------------------------------------------------------
(* Next runs: what is known of expressions only grows.                            *)

Grows ==
    /\ time \in Times /\ time' \in Times /\ time <= time'
    /\ \A s \in Schedules : had[s] \subseteq had'[s]

LEMMA NextGrows == ASSUME IInv, [Next]_vars PROVE Grows
<1>1. had \in [Schedules -> SUBSET Crons] /\ time \in Times /\ time' \in Times
      /\ row' \in [Schedules -> Row]
  BY NextLocks DEF IInv, Locks, TypeOK
<1>2. (time' = time \/ time' = time + 1) /\ (had' = had \/ Remember)
  <2>1. CASE Tick \/ UNCHANGED vars
    BY <2>1 DEF Tick, vars
  <2>2. ASSUME NEW s \in Schedules, NEW status, NEW cron, CreateSchedule(s, status, cron)
        PROVE  time' = time /\ Remember
    BY <2>2 DEF CreateSchedule
  <2>3. ASSUME NEW c \in Callers, Handler(c)
        PROVE  time' = time /\ (had' = had \/ Remember)
    BY <2>3 DEF Handler, AskUpdate, AskStatus, AskDelete, Ask, Table, UpdateSchedule,
       UpdateScheduleStatus, DeleteSchedules, Writes
  <2>4. ASSUME NEW p \in Pods, PollLoop(p) \/ ReleaseFails(p) \/ Crash(p)
        PROVE  time' = time /\ had' = had
    BY <2>4 DEF PollLoop, pollAndExecute, TryAcquireLock, executeSchedule, ReleaseLock,
       ReleaseFails, Crash
  <2> QED
    BY <2>1, <2>2, <2>3, <2>4 DEF Next
<1>3. \A s \in Schedules : had[s] \subseteq had'[s]
  BY <1>1, <1>2 DEF Remember
<1> QED
  BY <1>1, <1>2, <1>3, NextRuns DEF Grows

LEMMA PodsKeep == ASSUME IInv, Grows, UNCHANGED pod PROVE PodsKnowCrons'
<1>1. \A p \in Pods : pod[p].todo \subseteq Schedules
                      /\ (Executes(p) => pod[p].schedule \in Schedules)
  BY PodTypes
<1> QED
  BY <1>1, NextRuns DEF IInv, Plans, PodsKnowCrons, Executes, Grows

LEMMA CallsKeep ==
    ASSUME IInv, Grows, \A c \in Callers : call'[c] = call[c] \/ call'[c] = NoCall
    PROVE  CallsCarryNext'
<1> SUFFICES ASSUME NEW c \in Callers
             PROVE  /\ call'[c].op = "status" /\ call'[c].status = "active"
                       => Planned(call'[c].next, had'[call'[c].schedule], time')
                    /\ call'[c].op = "update"
                       => call'[c].next = 0 \/ Planned(call'[c].next, {call'[c].cron}, time')
  BY DEF CallsCarryNext, Planned
<1>1. CASE call'[c] = NoCall
  BY <1>1 DEF NoCall
<1>2. CASE call'[c] = call[c] /\ call[c].op # "none"
  <2>1. had[call[c].schedule] \subseteq had'[call[c].schedule]
    BY <1>2 DEF IInv, Locks, CallsNameSchedules, Grows
  <2> QED
    BY <1>2, <2>1, StaysPlanned, NextRuns DEF IInv, Plans, CallsCarryNext, Grows
<1> QED
  BY <1>1, <1>2

LEMMA RowsKeep ==
    ASSUME IInv, Grows,
           \A s \in Schedules :
               row'[s].status = "active" =>
                   \/ row[s].status = "active" /\ row'[s].next = row[s].next
                   \/ Planned(row'[s].next, had'[s], time')
    PROVE  ActiveHasNextRun'
<1>1. \A s \in Schedules :
         row'[s].status = "active" => Planned(row'[s].next, had'[s], time')
  <2> SUFFICES ASSUME NEW s \in Schedules, row[s].status = "active", row'[s].next = row[s].next
               PROVE  Planned(row[s].next, had'[s], time')
    OBVIOUS
  <2>1. Planned(row[s].next, had[s], time)
    BY ActiveMeansPlanned DEF IInv, Plans
  <2> QED
    BY <2>1, StaysPlanned, NextRuns DEF Grows
<1> QED
  BY <1>1 DEF ActiveHasNextRun, Slotless, Planned

(* Whatever time it is asked at, an expression in the history explains its answer. *)
LEMMA AnswersArePlanned ==
    ASSUME NEW cron \in Crons, NEW crons, cron \in crons, NEW now \in Times, NEW from \in 0..now
    PROVE  Planned(CalculateNextRunTime(cron, from), crons, now)
<1>1. from \in Times
  BY NextRuns, TimesAssumption DEF Times
<1> QED
  BY <1>1, NextRuns DEF Planned

LEMMA HandlersPlan ==
    ASSUME NEW c \in Callers, IInv, Grows, Handler(c), Locks'
    PROVE  Plans'
<1> USE DEF IInv, Locks
<1>1. UNCHANGED <<time, pod>>
  BY DEF Handler, AskUpdate, AskStatus, AskDelete, Ask, Table, UpdateSchedule,
     UpdateScheduleStatus, DeleteSchedules, Writes
<1>2. PodsKnowCrons'
  BY <1>1, PodsKeep
<1>3. ASSUME NEW s \in Schedules, NEW new, Writes(c, s, new),
             Exists(row[s]) /\ new.status = "active" =>
                 \/ row[s].status = "active" /\ new.next = row[s].next
                 \/ Planned(new.next, had[s] \cup {new.cron}, time)
      PROVE  Plans'
  <2>1. /\ Remember /\ call' = [call EXCEPT ![c] = NoCall]
        /\ row' = IF Exists(row[s]) THEN [row EXCEPT ![s] = new] ELSE row
    BY <1>3 DEF Writes
  <2>2. row \in [Schedules -> Row] /\ call \in [Callers -> Call]
    BY DEF TypeOK
  <2>3. RowsKnowCrons'
    BY <2>1 DEF Remember, RowsKnowCrons
  <2>4. CallsCarryNext'
    BY <2>1, <2>2, CallsKeep
  <2>5. ActiveHasNextRun'
    <3> SUFFICES ASSUME NEW t \in Schedules, row'[t].status = "active"
                 PROVE  \/ row[t].status = "active" /\ row'[t].next = row[t].next
                        \/ Planned(row'[t].next, had'[t], time')
      BY RowsKeep
    <3>1. CASE t # s \/ ~Exists(row[s])
      BY <2>1, <2>2, <3>1
    <3>2. CASE t = s /\ Exists(row[s])
      <4>1. row'[s] = new /\ Exists(row'[s])
        BY <2>1, <2>2, <3>2 DEF Exists
      <4>2. had[s] \cup {new.cron} \subseteq had'[s]
        BY <2>1, <4>1 DEF Remember
      <4>3. Planned(new.next, had[s] \cup {new.cron}, time) => Planned(new.next, had'[s], time)
        BY <4>2, StaysPlanned, NextRuns DEF Grows
      <4> QED
        BY <1>1, <1>3, <3>2, <4>1, <4>3
    <3> QED
      BY <3>1, <3>2
  <2> QED
    BY <1>2, <2>3, <2>4, <2>5 DEF Plans
<1>4. ASSUME NEW s \in Schedules, NEW request \in Call, Ask(c, request), request.schedule = s,
             request.op = "status" /\ request.status = "active"
                 => Planned(request.next, had[s], time),
             request.op = "update" => request.next = 0 \/ Planned(request.next, {request.cron}, time)
      PROVE  Plans'
  <2>1. call' = [call EXCEPT ![c] = request] /\ UNCHANGED <<row, had, time>>
    BY <1>4 DEF Ask, Table
  <2>2. RowsKnowCrons' /\ ActiveHasNextRun'
    BY <2>1 DEF Plans, RowsKnowCrons, ActiveHasNextRun, Slotless
  <2>3. CallsCarryNext'
    BY <1>4, <2>1 DEF TypeOK, Plans, CallsCarryNext, Planned
  <2> QED
    BY <1>2, <2>2, <2>3 DEF Plans
<1>5. time \in Times /\ time \in 0..time
  BY NextRuns DEF TypeOK
<1>6. ASSUME NEW s \in Schedules, NEW cron \in Crons, AskUpdate(c, s, cron)
      PROVE  Plans'
  <2> DEFINE next == IF row[s].status = "active" THEN CalculateNextRunTime(cron, time) ELSE 0
             request == [op |-> "update", schedule |-> s, status |-> "inactive", cron |-> cron,
                         next |-> next]
  <2>1. Ask(c, request)
    BY <1>6 DEF AskUpdate
  <2>2. request \in Call
    BY <1>5, NextRuns DEF Call
  <2>3. next = 0 \/ Planned(next, {cron}, time)
    BY <1>5, AnswersArePlanned
  <2>4. request.schedule = s /\ request.op = "update" /\ request.next = next
        /\ request.cron = cron
    OBVIOUS
  <2> HIDE DEF next, request
  <2> QED
    BY <1>4, <2>1, <2>2, <2>3, <2>4
<1>7. ASSUME NEW s \in Schedules, NEW status \in {"active", "inactive"}, AskStatus(c, s, status)
      PROVE  Plans'
  <2> DEFINE next == NextRunOf(status, row[s].cron)
             request == [op |-> "status", schedule |-> s, status |-> status,
                         cron |-> row[s].cron, next |-> next]
  <2>1. Ask(c, request) /\ Exists(row[s]) /\ row[s].cron \in Crons
    BY <1>7 DEF AskStatus, TypeOK, Row
  <2>2. request \in Call
    BY <1>5, <2>1, NextRuns DEF Call, NextRunOf
  <2>3. status = "active" => Planned(next, had[s], time)
    BY <1>5, <2>1, AnswersArePlanned DEF NextRunOf, Plans, RowsKnowCrons
  <2>4. request.schedule = s /\ request.op = "status" /\ request.next = next
        /\ request.status = status
    OBVIOUS
  <2> HIDE DEF next, request
  <2> QED
    BY <1>4, <2>1, <2>2, <2>3, <2>4
<1>8. ASSUME NEW s \in Schedules, AskDelete(c, s)
      PROVE  Plans'
  <2> DEFINE request == [NoCall EXCEPT !.op = "delete", !.schedule = s]
  <2>1. Ask(c, request) /\ request \in Call
    BY <1>8, Blanks DEF AskDelete, Call, NoCall
  <2>2. request.schedule = s /\ request.op = "delete"
    BY DEF NoCall
  <2> HIDE DEF request
  <2> QED
    BY <1>4, <2>1, <2>2
<1> DEFINE s == call[c].schedule
<1>9. call[c].op # "none" => s \in Schedules /\ row[s] \in Row /\ call[c] \in Call
  BY DEF TypeOK, CallsNameSchedules
<1>10. CASE UpdateSchedule(c)
  <2> DEFINE new == [row[s] EXCEPT !.cron = call[c].cron,
                                   !.next = IF call[c].next # 0 THEN call[c].next ELSE @]
  <2>1. Writes(c, s, new) /\ call[c].op = "update"
    BY <1>10 DEF UpdateSchedule
  <2>2. /\ new.status = row[s].status /\ new.cron = call[c].cron
        /\ new.next = IF call[c].next # 0 THEN call[c].next ELSE row[s].next
    BY <1>9, <2>1 DEF Row
  <2>3. call[c].next # 0 => Planned(call[c].next, had[s] \cup {call[c].cron}, time)
    BY <2>1 DEF Plans, CallsCarryNext, Planned
  <2> HIDE DEF new, s
  <2> QED
    BY <1>3, <1>9, <2>1, <2>2, <2>3
<1>11. CASE UpdateScheduleStatus(c)
  <2> DEFINE new == [row[s] EXCEPT !.status = call[c].status, !.next = call[c].next]
  <2>1. Writes(c, s, new) /\ call[c].op = "status"
    BY <1>11 DEF UpdateScheduleStatus
  <2>2. new.status = call[c].status /\ new.next = call[c].next
    BY <1>9, <2>1 DEF Row
  <2>3. call[c].status = "active" => Planned(call[c].next, had[s] \cup {new.cron}, time)
    BY <2>1 DEF Plans, CallsCarryNext, Planned
  <2> HIDE DEF new, s
  <2> QED
    BY <1>3, <1>9, <2>1, <2>2, <2>3
<1>12. CASE DeleteSchedules(c)
  <2>1. Writes(c, s, [NoRow EXCEPT !.status = "deleted"]) /\ call[c].op = "delete"
    BY <1>12 DEF DeleteSchedules
  <2>2. [NoRow EXCEPT !.status = "deleted"].status # "active"
    BY DEF NoRow
  <2> HIDE DEF s
  <2> QED
    BY <1>3, <1>9, <2>1, <2>2
<1> QED
  BY <1>6, <1>7, <1>8, <1>10, <1>11, <1>12 DEF Handler

(* A pod goes by expressions it read in a row.                                     *)
LEMMA PodsPlan ==
    ASSUME NEW p \in Pods, IInv, Grows, Locks', PollLoop(p) \/ ReleaseFails(p) \/ Crash(p)
    PROVE  Plans'
<1> USE DEF IInv, Locks
<1>1. UNCHANGED <<time, call, had>>
  BY DEF PollLoop, pollAndExecute, TryAcquireLock, executeSchedule, ReleaseLock, ReleaseFails,
         Crash
<1>2. /\ pod \in [Pods -> Pod] /\ row \in [Schedules -> Row] /\ row' \in [Schedules -> Row]
      /\ time \in Times
  BY DEF TypeOK
<1>3. CallsCarryNext'
  BY <1>1, CallsKeep
<1>4. \A s \in pod[p].todo : s \in Schedules /\ pod[p].cron[s] \in had[s]
  BY PodTypes DEF Plans, PodsKnowCrons
<1>5. ASSUME NEW next, Goes(p, next),
             \A s \in next.todo : next.cron[s] \in had[s],
             next.step \in {"executing", "releasing"} =>
                 /\ next.cron[next.schedule] \in had[next.schedule]
                 /\ next.lockedAt \in 0..time
      PROVE  PodsKnowCrons'
  BY <1>1, <1>2, <1>5 DEF Goes, Plans, PodsKnowCrons, Executes
<1>6. ASSUME \A s \in Schedules : /\ row'[s].status = row[s].status /\ row'[s].cron = row[s].cron
                                  /\ \/ row'[s].next = row[s].next
                                     \/ Planned(row'[s].next, had[s], time)
      PROVE  RowsKnowCrons' /\ ActiveHasNextRun'
  <2>1. RowsKnowCrons'
    BY <1>1, <1>6 DEF Plans, RowsKnowCrons, Exists
  <2>2. ActiveHasNextRun'
    BY <1>1, <1>6, RowsKeep
  <2> QED
    BY <2>1, <2>2
<1>7. ASSUME UNCHANGED row PROVE RowsKnowCrons' /\ ActiveHasNextRun'
  BY <1>6, <1>7
<1>8. ASSUME Proceed(p) PROVE PodsKnowCrons'
  <2>1. CASE pod[p].todo = {}
    BY <1>5, <1>8, <2>1 DEF Proceed, IdlePod
  <2>2. CASE pod[p].todo # {}
    <3> DEFINE next == [pod[p] EXCEPT !.step = "trying", !.schedule = NoSchedule,
                                      !.since = time, !.lockedAt = 0]
    <3>1. Goes(p, next) /\ next.step = "trying" /\ next.todo = pod[p].todo
          /\ next.cron = pod[p].cron
      BY <1>2, <1>8, <2>2 DEF Proceed, Pod
    <3> HIDE DEF next
    <3> QED
      BY <1>4, <1>5, <3>1
  <2> QED
    BY <2>1, <2>2
<1>9. CASE pollAndExecute(p)
  <2> DEFINE due == {s \in Schedules : Due(row[s], time)}
             next == [step |-> "trying", todo |-> due,
                      cron |-> [s \in Schedules |-> IF s \in due THEN row[s].cron
                                                    ELSE IdlePod.cron[s]],
                      schedule |-> NoSchedule, since |-> time, lockedAt |-> 0]
  <2>1. Goes(p, next) /\ UNCHANGED row
    BY <1>9 DEF pollAndExecute
  <2>2. \A s \in due : s \in Schedules /\ row[s].cron \in had[s]
    BY DEF Due, Exists, Plans, RowsKnowCrons
  <2>3. next.step = "trying" /\ \A s \in next.todo : next.cron[s] \in had[s]
    BY <2>2
  <2> HIDE DEF due, next
  <2> QED
    BY <1>3, <1>5, <1>7, <2>1, <2>3 DEF Plans
<1>10. ASSUME NEW s \in Schedules, NEW now \in Times, TryAcquireLock(p, s, now)
       PROVE  Plans'
  <2>1. pod[p].step = "trying" /\ s \in pod[p].todo /\ now \in 0..time
    BY <1>2, <1>10, NextRuns DEF TryAcquireLock, Pod, Times
  <2>2. CASE Acquirable(row[s], now)
    <3> DEFINE next == [pod[p] EXCEPT !.step = "executing", !.todo = Untried(pod[p].todo, s),
                                      !.schedule = s, !.since = now, !.lockedAt = now]
    <3>1. Goes(p, next) /\ row' = [row EXCEPT ![s].holder = p, ![s].lockTime = now]
      BY <1>10, <2>2 DEF TryAcquireLock
    <3>2. /\ next.todo \subseteq pod[p].todo /\ next.schedule = s /\ next.lockedAt = now
          /\ next.cron = pod[p].cron
      BY <1>2 DEF Pod, Untried
    <3>3. \A t \in Schedules : /\ row'[t].status = row[t].status /\ row'[t].cron = row[t].cron
                               /\ row'[t].next = row[t].next
      BY <1>2, <3>1 DEF Row
    <3> HIDE DEF next
    <3>4. PodsKnowCrons'
      BY <1>4, <1>5, <2>1, <3>1, <3>2
    <3> QED
      BY <1>3, <1>6, <3>3, <3>4 DEF Plans
  <2>3. CASE ~Acquirable(row[s], now)
    <3> DEFINE todo == Untried(pod[p].todo, s)
               next == [pod[p] EXCEPT !.todo = todo, !.since = now]
    <3>1. Goes(p, IF todo = {} THEN IdlePod ELSE next) /\ UNCHANGED row
      BY <1>10, <2>3 DEF TryAcquireLock
    <3>2. next.todo \subseteq pod[p].todo /\ next.step = "trying" /\ next.cron = pod[p].cron
      BY <1>2, <2>1 DEF Pod, Untried
    <3>3. IdlePod.todo = {} /\ IdlePod.step = "idle"
      BY DEF IdlePod
    <3> HIDE DEF todo, next
    <3>4. PodsKnowCrons'
      BY <1>4, <1>5, <3>1, <3>2, <3>3
    <3> QED
      BY <1>3, <1>7, <3>1, <3>4 DEF Plans
  <2> QED
    BY <2>2, <2>3
<1>11. CASE executeSchedule(p)
  <2> DEFINE next == [pod[p] EXCEPT !.step = "releasing"]
  <2>1. Goes(p, next) /\ Executes(p) /\ UNCHANGED row
    BY <1>11 DEF executeSchedule, Executes
  <2>2. /\ next.todo = pod[p].todo /\ next.schedule = pod[p].schedule
        /\ next.lockedAt = pod[p].lockedAt /\ next.cron = pod[p].cron
    BY <1>2 DEF Pod
  <2>3. /\ pod[p].cron[pod[p].schedule] \in had[pod[p].schedule]
        /\ pod[p].lockedAt \in 0..time
    BY <2>1 DEF Plans, PodsKnowCrons
  <2> HIDE DEF next
  <2> QED
    BY <1>3, <1>4, <1>5, <1>7, <2>1, <2>2, <2>3 DEF Plans
<1>12. CASE ReleaseLock(p)
  <2> DEFINE s == pod[p].schedule
             run == CalculateNextRunTime(pod[p].cron[s], pod[p].lockedAt)
             released == [row[s] EXCEPT !.holder = NoPod, !.lockTime = 0, !.next = run]
  <2>1. /\ Executes(p) /\ Proceed(p)
        /\ row' = row \/ row' = [row EXCEPT ![s] = released]
    BY <1>12 DEF ReleaseLock, Executes
  <2>2. s \in Schedules /\ pod[p].cron[s] \in Crons
    BY <1>2, <2>1, PodTypes DEF Pod
  <2>3. Planned(run, had[s], time)
    BY <1>2, <2>1, <2>2, AnswersArePlanned DEF Plans, PodsKnowCrons
  <2>4. released.status = row[s].status /\ released.cron = row[s].cron /\ released.next = run
    BY <1>2, <2>2 DEF Row
  <2> HIDE DEF s, run, released
  <2>5. RowsKnowCrons' /\ ActiveHasNextRun'
    BY <1>2, <1>6, <2>1, <2>2, <2>3, <2>4
  <2> QED
    BY <1>3, <1>8, <2>1, <2>5 DEF Plans
<1>13. CASE ReleaseFails(p) \/ Crash(p)
  <2>1. UNCHANGED row /\ (Proceed(p) \/ Goes(p, IdlePod))
    BY <1>13 DEF ReleaseFails, Crash
  <2>2. IdlePod.todo = {} /\ IdlePod.step = "idle"
    BY DEF IdlePod
  <2> QED
    BY <1>3, <1>5, <1>7, <1>8, <2>1, <2>2 DEF Plans
<1> QED
  BY <1>9, <1>10, <1>11, <1>12, <1>13 DEF PollLoop

LEMMA NextPlans == IInv /\ [Next]_vars => Plans'
<1> SUFFICES ASSUME IInv, [Next]_vars PROVE Plans'
  OBVIOUS
<1>1. Grows /\ Locks'
  BY NextGrows, NextLocks
<1>2. CASE Tick \/ UNCHANGED vars
  <2>1. UNCHANGED <<row, pod, call, had>>
    BY <1>2 DEF Tick, vars
  <2>2. RowsKnowCrons'
    BY <2>1 DEF IInv, Plans, RowsKnowCrons
  <2> QED
    BY <1>1, <2>1, <2>2, PodsKeep, CallsKeep, RowsKeep DEF Plans
<1>3. ASSUME NEW s \in Schedules, NEW status \in {"active", "inactive"}, NEW cron \in Crons,
             CreateSchedule(s, status, cron)
      PROVE  Plans'
  <2> DEFINE new == [NoRow EXCEPT !.status = status, !.cron = cron,
                                  !.next = NextRunOf(status, cron)]
  <2>1. /\ row' = [row EXCEPT ![s] = new] /\ Remember
        /\ UNCHANGED <<time, pod, call>>
    BY <1>3 DEF CreateSchedule
  <2>2. new.status = status /\ new.cron = cron /\ new.next = NextRunOf(status, cron)
    BY DEF NoRow
  <2>3. /\ row \in [Schedules -> Row] /\ row' \in [Schedules -> Row]
        /\ had \in [Schedules -> SUBSET Crons]
    BY <1>1 DEF IInv, Locks, TypeOK
  <2> HIDE DEF new
  <2>4. RowsKnowCrons'
    BY <2>1 DEF Remember, RowsKnowCrons
  <2>5. row'[s] = new /\ \A t \in Schedules : t # s => row'[t] = row[t]
    BY <2>1, <2>3
  <2>6. status = "active" => Planned(new.next, had'[s], time)
    <3>1. time \in Times /\ time \in 0..time
      BY <1>1, NextRuns DEF Grows
    <3>2. cron \in had'[s]
      BY <2>1, <2>2, <2>5 DEF Remember, Exists
    <3> QED
      BY <2>2, <3>1, <3>2, AnswersArePlanned DEF NextRunOf
  <2>7. ActiveHasNextRun'
    BY <1>1, <2>1, <2>2, <2>5, <2>6, RowsKeep
  <2> QED
    BY <1>1, <2>1, <2>4, <2>7, PodsKeep, CallsKeep DEF Plans
<1> QED
  BY <1>1, <1>2, <1>3, HandlersPlan, PodsPlan DEF Next

-------------------------------------------------------------------------------
(* What the schedule table, the pods and the handlers hold, and what a lock says   *)
(* about past runs, for any number of pods, handlers and faults.                   *)
THEOREM Invariance == Spec => []IInv
<1>1. IInv /\ [Next]_vars => IInv'
  BY NextLocks, NextPlans DEF IInv
<1> QED
  BY <1>1, InitInv, PTL DEF Spec

(* Rows, the pods' lists and the handlers' memory keep their types.                 *)
THEOREM TypeCorrect == Spec => []TypeOK
<1>1. IInv => TypeOK
  BY DEF IInv, Locks
<1> QED
  BY <1>1, Invariance, PTL

(* A pod that executes a schedule holds its lock until LockTimeout is over: no      *)
(* other pod's acquisition or release and no handler takes it away before.          *)
THEOREM LockHolds == Spec => []LockOutlivesTimeout
<1>1. IInv => LockOutlivesTimeout
  BY DEF IInv, Locks
<1> QED
  BY <1>1, Invariance, PTL

(* A free schedule's next run lies behind all its runs, however pods and handlers    *)
(* interleave, unless a handler wrote a time it had computed before the last run, or *)
(* a pod with an older clock locked it while it had none.                          *)
THEOREM SlotsForward == Spec => []SlotsGoForward
<1>1. IInv => SlotsGoForward
  BY DEF IInv, Locks
<1> QED
  BY <1>1, Invariance, PTL

(* Updates, status changes and releases in any order leave an active schedule with   *)
(* a next run, unless an expression it has or had was without a slot.               *)
THEOREM ActiveIsPlanned == Spec => []ActiveHasNextRun
<1>1. IInv => ActiveHasNextRun
  BY DEF IInv, Plans
<1> QED
  BY <1>1, Invariance, PTL
===============================================================================
