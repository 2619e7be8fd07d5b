------------------------------- MODULE Scheduler -------------------------------
(***************************************************************************)
(* When a scheduled task runs                                              *)
(* (src/main/features/scheduler/engine.ts, service.ts, shared/scheduler.ts):*)
(* the due check, the runs, and the two files they are kept in, over quits, *)
(* crashes and launches.                                                   *)
(*                                                                         *)
(* One task: tasks share nothing but the files.  Slots lie on a fixed grid. *)
(* The runs file is written before the tasks file and a run starts once     *)
(* both are; all else in a step is one synchronous call.  Timers, zones and *)
(* the words of a record are left out: the due check may come at any time. *)
(***************************************************************************)
EXTENDS Integers, FiniteSets

CONSTANTS
  MaxTime,            \* the clock's last value
  MaxRuns,            \* records ever made
  Schedules,          \* the schedules the task may have
  HISTORY_LIMIT,      \* records kept
  CATCH_UP_WINDOW,    \* how late a slot still runs
  ClockBack,          \* the clock may be set back
  LastChange,         \* the user changes the task up to then
  None

ASSUME BoundsAssumption ==
  /\ MaxTime \in Nat /\ MaxRuns \in Nat /\ HISTORY_LIMIT \in Nat \ {0}
  /\ CATCH_UP_WINDOW \in Nat /\ LastChange \in Nat /\ ClockBack \in BOOLEAN
ASSUME ScheduleAssumption ==
  Schedules \subseteq [kind : {"once", "every"}, at : Nat \ {0}]
ASSUME NoneAssumption == None \notin Int

VARIABLES
  now,       \* the wall clock
  up,        \* the app: off, loaded, on, or stopped by a quit
  task,      \* the task, or None once it is removed
  runs,      \* its records
  active,    \* the id of the run in progress
  work,      \* the same, once `execute` was called
  byUser,    \* the user stopped that run
  cutOff,    \* ids of the runs load() found cut off, until they are looked at
  resumed,   \* this launch has looked at them
  between,   \* the runs file is written, the tasks file not yet
  disk,      \* the two files
  made,      \* how many records were ever made; ids count them
  \* What happened, for the properties.
  ran,       \* <<slot, run>>: execute was called for the slot
  accounted, \* slots a record was made for, in memory and on disk
  retried,   \* <<run, its automatic retry>>
  stopped    \* runs the user stopped in an app that did not crash then

memory == <<task, runs, active, work, byUser, cutOff, resumed>>
ghosts == <<ran, accounted, retried, stopped>>
vars == <<now, up, memory, between, disk, made, ghosts>>

-----------------------------------------------------------------------------
(* Slots.                                                                  *)

IsSlot(sch, t) == IF sch.kind = "once" THEN t = sch.at ELSE t % sch.at = 0

nextRunAfter(sch, t) ==
  IF sch.kind = "once" THEN IF sch.at > t THEN sch.at ELSE None
  ELSE (t \div sch.at + 1) * sch.at

\* countSlots and latestDue: the slots due from the one waited for, and the
\* last of them.
Due(t) == {s \in t.next .. now : IsSlot(t.schedule, s)}
latestDue(t) == CHOOSE s \in Due(t) : \A u \in Due(t) : u <= s

-----------------------------------------------------------------------------
(* Records.                                                                *)

Newer(r, q) == r.at > q.at \/ (r.at = q.at /\ r.id > q.id)

\* trimRuns.
Trim(t, rs) ==
  IF t = None THEN {}
  ELSE {r \in rs : Cardinality({q \in rs : Newer(q, r)}) < HISTORY_LIMIT}

latestStatus(rs, default) ==
  LET shown == {r \in rs : r.status # "skipped"}
  IN IF shown = {} THEN default
     ELSE (CHOOSE r \in shown : \A q \in shown : ~Newer(q, r)).status

\* The record of a run that goes on, and what settles it.
Recorded(id) == \E r \in runs : r.id = id /\ r.status = "running"

Settled(rs, id, status, quit) ==
  {IF r.id = id THEN [r EXCEPT !.status = status, !.quit = quit] ELSE r : r \in rs}

Blank == [id |-> made + 1, at |-> now, status |-> "running", quit |-> FALSE,
          retryOf |-> None, blockedBy |-> None, slot |-> None]

\* commit: the runs file is written, the tasks file comes next.
Commit(t, rs) ==
  /\ task' = t /\ runs' = Trim(t, rs)
  /\ disk' = [disk EXCEPT !.runs = Trim(t, rs)]
  /\ between' = TRUE

\* The handlers run to their end, so the next finds both files written.
Ready == up \in {"loaded", "on"} /\ ~between /\ task # None

-----------------------------------------------------------------------------
(* Runs.                                                                   *)

\* Bug: the next slot is taken from the last one, not from now.
Advance_FromLast(t) ==
  IF t.schedule.kind = "once" THEN [t EXCEPT !.enabled = FALSE, !.next = None]
  ELSE [t EXCEPT !.next = nextRunAfter(t.schedule, t.next)]

\* Bug: a one-off is switched off but keeps its time.
Advance_KeepsTime(t) ==
  IF t.schedule.kind = "once" THEN [t EXCEPT !.enabled = FALSE]
  ELSE [t EXCEPT !.next = nextRunAfter(t.schedule, now)]

\* advance: past the slots just used up.
Advance(t) ==
  IF t.schedule.kind = "once" THEN [t EXCEPT !.enabled = FALSE, !.next = None]
  ELSE [t EXCEPT !.next = nextRunAfter(t.schedule, now)]

\* begin, up to the commit.
Begin(t, run) ==
  /\ made < MaxRuns /\ made' = made + 1
  /\ active' = run.id
  /\ Commit([t EXCEPT !.lastStatus = "running"], runs \cup {run})
  /\ UNCHANGED <<now, up, work, byUser, ran, stopped>>

\* runNow and retry, of any run that is over: extra, no slot is used up.
RunNow ==
  /\ Ready /\ active = None
  /\ \E of \in {None} \cup {r.id : r \in runs} :
       Begin(task, [Blank EXCEPT !.retryOf = of])
  /\ UNCHANGED <<cutOff, resumed, accounted, retried>>

\* Bug: a retry that is cut off is tried again in turn.
Candidates_Again ==
  {r \in runs : /\ r.id \in cutOff /\ now - r.at <= CATCH_UP_WINDOW
                /\ task.enabled \/ (task.next = None /\ task.updated <= r.at)
                /\ \A q \in runs : q.retryOf # r.id}

\* interruptedAtLoad and cutOffPurchasesToRetry: cut off, no retry and not
\* retried, within the day, the schedule still on, and nothing run since.
Candidates ==
  {r \in runs : /\ r.id \in cutOff /\ r.retryOf = None
                /\ now - r.at <= CATCH_UP_WINDOW
                /\ \/ task.enabled
                   \/ /\ task.schedule.kind = "once"
                      /\ task.next = None /\ task.updated <= r.at
                /\ \A q \in runs : /\ q.retryOf # r.id
                                   /\ q.at > r.at => q.status \in {"missed", "skipped"}}

\* resumeCutOffPurchases, once per launch.  Whether a run may have bought
\* something is for the payments engine to say; a second one finds the task
\* running.
Resume ==
  /\ Ready /\ up = "on" /\ ~resumed /\ resumed' = TRUE /\ cutOff' = {}
  /\ \/ \E r \in Candidates :
          /\ active = None
          /\ Begin(task, [Blank EXCEPT !.retryOf = r.id])
          /\ retried' = retried \cup {<<r.id, made + 1>>}
          /\ UNCHANGED accounted
     \/ UNCHANGED <<now, up, task, runs, active, work, byUser, between, disk,
                    made, ghosts>>

\* The tasks file is written, and a run that has just begun starts.
SaveTask ==
  /\ between /\ between' = FALSE
  /\ disk' = [disk EXCEPT !.task = task]
  /\ work' = active
  /\ ran' = ran \cup {<<r.slot, r.id>> : r \in {q \in runs : q.id = active /\ q.id # work
                                                             /\ q.slot # None}}
  /\ UNCHANGED <<now, up, task, runs, active, byUser, cutOff, resumed, made,
                 accounted, retried, stopped>>

\* Bug: the late report of a run a quit has settled counts.
Report_Late ==
  /\ up # "off" /\ ~between /\ work # None
  /\ IF \E r \in runs : r.id = work
     THEN LET rs == Settled(runs, work, "ended", FALSE)
          IN Commit([task EXCEPT !.lastStatus = latestStatus(rs, "ended")], rs)
     ELSE UNCHANGED <<task, runs, disk, between>>
  /\ active' = None /\ work' = None /\ byUser' = FALSE
  /\ UNCHANGED <<now, up, cutOff, resumed, made, ghosts>>

\* finish: the run reports, unless its record is gone or settled already.  How
\* it went is all the same here.
Report ==
  /\ up # "off" /\ ~between /\ work # None
  /\ IF Recorded(work)
     THEN LET rs == Settled(runs, work, "ended", FALSE)
          IN Commit([task EXCEPT !.lastStatus = latestStatus(rs, "ended")], rs)
     ELSE UNCHANGED <<task, runs, disk, between>>
  /\ active' = None /\ work' = None /\ byUser' = FALSE
  /\ UNCHANGED <<now, up, cutOff, resumed, made, ghosts>>

\* cancel: the run is told; its report comes when it comes.
Cancel ==
  /\ Ready /\ active # None /\ ~byUser /\ byUser' = TRUE
  /\ stopped' = stopped \cup {active}
  /\ UNCHANGED <<now, up, task, runs, active, work, cutOff, resumed, between,
                 disk, made, ran, accounted, retried>>

-----------------------------------------------------------------------------
(* The due check.                                                          *)

\* A slot, or several, came due while the last run goes on: recorded, all in
\* one record for one run.
Skip ==
  /\ active # None /\ task.next <= now
  /\ IF \E r \in runs : r.blockedBy = active
     THEN Commit(Advance(task), runs) /\ UNCHANGED made
     ELSE /\ made < MaxRuns /\ made' = made + 1
          /\ Commit(Advance(task),
                    runs \cup {[Blank EXCEPT !.at = task.next, !.status = "skipped",
                                             !.blockedBy = active]})
  /\ accounted' = accounted \cup Due(task)
  /\ UNCHANGED active

\* The clock went back: a sooner slot is taken.
PullIn ==
  /\ active = None /\ task.next > now
  /\ nextRunAfter(task.schedule, now) < task.next
  /\ Commit([task EXCEPT !.next = nextRunAfter(task.schedule, now)], runs)
  /\ UNCHANGED <<active, made, accounted>>

\* planDue: the latest of the slots due is too old.
Miss ==
  /\ active = None /\ task.next <= now /\ now - latestDue(task) > CATCH_UP_WINDOW
  /\ made < MaxRuns /\ made' = made + 1
  /\ Commit([Advance(task) EXCEPT !.lastStatus = "missed"],
            runs \cup {[Blank EXCEPT !.at = latestDue(task), !.status = "missed"]})
  /\ accounted' = accounted \cup Due(task)
  /\ UNCHANGED active

\* planDue: one run for all of them.
Run ==
  /\ active = None /\ task.next <= now /\ now - latestDue(task) <= CATCH_UP_WINDOW
  /\ Begin(Advance(task), [Blank EXCEPT !.slot = latestDue(task)])
  /\ accounted' = accounted \cup Due(task)

\* Bug: a task that runs is passed over.
Tick_Later ==
  /\ Ready /\ up = "on" /\ task.enabled
  /\ Miss \/ Run
  /\ UNCHANGED <<now, up, work, byUser, cutOff, resumed, ran, retried, stopped>>

\* tick.
Tick ==
  /\ Ready /\ up = "on" /\ task.enabled
  /\ Skip \/ PullIn \/ Miss \/ Run
  /\ UNCHANGED <<now, up, work, byUser, cutOff, resumed, ran, retried, stopped>>

-----------------------------------------------------------------------------
(* The task.                                                               *)

\* save, of a schedule that does not lie in the past.
Save ==
  /\ Ready /\ now <= LastChange
  /\ \E sch \in Schedules, on \in BOOLEAN :
       /\ on => nextRunAfter(sch, now) # None
       /\ LET kept == sch = task.schedule /\ task.enabled
          IN Commit([task EXCEPT !.schedule = sch, !.enabled = on, !.updated = now,
                       !.next = IF ~on THEN None
                                ELSE IF kept THEN @ ELSE nextRunAfter(sch, now)], runs)
  /\ UNCHANGED <<now, up, active, work, byUser, cutOff, resumed, made, ghosts>>

\* setEnabled: switched on, it waits for its next slot from now, even if it was on.
SetEnabled ==
  /\ Ready /\ now <= LastChange
  /\ \E next \in {None, nextRunAfter(task.schedule, now)} :
       Commit([task EXCEPT !.enabled = next # None, !.next = next, !.updated = now], runs)
  /\ UNCHANGED <<now, up, active, work, byUser, cutOff, resumed, made, ghosts>>

\* remove, which stops a run in progress.
Remove ==
  /\ Ready /\ now <= LastChange /\ Commit(None, runs)
  /\ UNCHANGED <<now, up, active, work, byUser, cutOff, resumed, made, ghosts>>

-----------------------------------------------------------------------------
(* The app.                                                                *)

\* load, with settleInterrupted.
Load ==
  /\ up = "off" /\ up' = "loaded"
  /\ cutOff' = {r.id : r \in {q \in disk.runs :
                  /\ q.status = "running" \/ q.quit
                  /\ \A other \in disk.runs : other.retryOf # q.id}}
  /\ LET rs == {IF r.status = "running" THEN [r EXCEPT !.status = "failed"] ELSE r :
                 r \in disk.runs}
         t == disk.task
     IN Commit(IF t = None THEN None
               ELSE [t EXCEPT !.lastStatus = latestStatus(rs, @)], rs)
  /\ active' = None /\ work' = None /\ byUser' = FALSE /\ resumed' = FALSE
  /\ UNCHANGED <<now, made, ghosts>>

Start ==
  /\ up = "loaded" /\ ~between /\ up' = "on"
  /\ UNCHANGED <<now, memory, between, disk, made, ghosts>>

\* Bug: a run the user stopped is taken for one the quit cut off.
Quit_CutsAll ==
  /\ up \in {"loaded", "on"} /\ ~between /\ up' = "stopped"
  /\ IF Recorded(active)
     THEN LET rs == Settled(runs, active, "cancelled", TRUE)
          IN Commit([task EXCEPT !.lastStatus = latestStatus(rs, None)], rs)
     ELSE UNCHANGED <<task, runs, disk, between>>
  /\ UNCHANGED <<now, active, work, byUser, cutOff, resumed, made, ghosts>>

\* stop: the run in progress is recorded as cut off, or as stopped by the user.
Quit ==
  /\ up \in {"loaded", "on"} /\ ~between /\ up' = "stopped"
  /\ IF Recorded(active)
     THEN LET rs == Settled(runs, active, "cancelled", ~byUser)
          IN Commit([task EXCEPT !.lastStatus = latestStatus(rs, None)], rs)
     ELSE UNCHANGED <<task, runs, disk, between>>
  /\ UNCHANGED <<now, active, work, byUser, cutOff, resumed, made, ghosts>>

\* The process ends, after a quit or by a crash, at any point: what the quit
\* had recorded of a run the user stopped stays, a crash forgets it.
End ==
  /\ up # "off" /\ up' = "off"
  /\ task' = None /\ runs' = {} /\ active' = None /\ work' = None
  /\ byUser' = FALSE /\ cutOff' = {} /\ resumed' = FALSE /\ between' = FALSE
  /\ stopped' = stopped \ {r.id : r \in {q \in disk.runs : q.status = "running"}}
  /\ UNCHANGED <<now, disk, made, ran, accounted, retried>>

\* Time passes, awake or asleep, or the clock is set back.  Once the app quits
\* nothing reads it.
Clock ==
  /\ ~between /\ up # "stopped"
  /\ \/ now < MaxTime /\ now' = now + 1
     \/ ClockBack /\ now' \in 0 .. now - 1
  /\ UNCHANGED <<up, memory, between, disk, made, ghosts>>

-----------------------------------------------------------------------------

Init ==
  /\ now = 0 /\ up = "off" /\ task = None /\ runs = {}
  /\ active = None /\ work = None /\ byUser = FALSE
  /\ cutOff = {} /\ resumed = FALSE /\ between = FALSE /\ made = 0
  /\ \E sch \in Schedules :
       disk = [runs |-> {}, task |-> [schedule |-> sch, enabled |-> TRUE, updated |-> 0,
                                      next |-> nextRunAfter(sch, 0), lastStatus |-> None]]
  /\ ran = {} /\ accounted = {} /\ retried = {} /\ stopped = {}

Next == \/ Load \/ Start \/ Quit \/ End \/ Clock
        \/ Tick \/ SaveTask \/ Report
        \/ RunNow \/ Resume \/ Cancel \/ Save \/ SetEnabled \/ Remove

\* A call that has begun ends, and the heartbeat gets its turn between two calls,
\* however many there are.
Fairness == SF_vars(Tick) /\ WF_vars(SaveTask)

Spec == Init /\ [][Next]_vars /\ Fairness

-----------------------------------------------------------------------------
(* Properties.                                                             *)

Statuses == {"running", "ended", "failed", "cancelled", "missed", "skipped"}
Ids == 1 .. made
Record == [id : Ids, at : Nat, status : Statuses, quit : BOOLEAN,
           retryOf : Ids \cup {None}, blockedBy : Ids \cup {None},
           slot : Nat \cup {None}]
Task == [schedule : Schedules, enabled : BOOLEAN, updated : Nat,
         next : Nat \cup {None}, lastStatus : Statuses \cup {None}]

ASSUME NoTaskAssumption == None \notin Task

\* A task waits for a slot exactly while it is on.
TypeOK ==
  /\ now \in Nat /\ made \in Nat /\ up \in {"off", "loaded", "on", "stopped"}
  /\ disk.task = None \/ (disk.task \in Task /\ (disk.task.enabled <=> disk.task.next # None))
  /\ task = None \/ (task \in Task /\ (task.enabled <=> task.next # None))
  /\ runs \subseteq Record /\ disk.runs \subseteq Record
  /\ {active, work} \subseteq Ids \cup {None} /\ cutOff \subseteq Ids
  /\ {byUser, resumed, between} \subseteq BOOLEAN
  /\ ran \subseteq Nat \X Ids /\ accounted \subseteq Nat
  /\ retried \subseteq Ids \X Ids /\ stopped \subseteq Ids

\* Once a record on disk is settled no report, quit or launch changes what it
\* says.
SettledStays ==
  [][\A r \in disk.runs, q \in disk'.runs :
       r.id = q.id /\ r.status # "running" => q.status = r.status /\ q.quit = r.quit]_vars

\* No slot is run for twice, whatever quits and crashes come between (unless
\* the clock is set back, which makes slots come again).
NoSlotTwice == \A p, q \in ran : p[1] = q[1] => p = q

\* No slot passes silently: each one since the task was last changed and before
\* the one it waits for has been run for, skipped on record or missed on
\* record, also as the disk has it.
NoSlotSilent ==
  \A t \in {task, disk.task} \ {None} :
    t.enabled => \A s \in t.updated + 1 .. t.next - 1 :
                   IsSlot(t.schedule, s) => s \in accounted

\* Every slot is run for or accounted for, and run for once at most.
EverySlotOnce == NoSlotTwice /\ NoSlotSilent

\* A run that was cut off is made again by the app once at most, and the second
\* try is not tried again.
RetriedOnce ==
  \A p, q \in retried : /\ p[1] = q[1] => p = q
                        /\ p[2] # q[1]

\* A run the user stopped is not made again by the app.
UserStopIsFinal == \A p \in retried : p[1] \notin stopped

\* While the app is on, a slot that is due is dealt with, even if the run
\* before it never ends.
DueIsHandled ==
  up = "on" ~> \/ up # "on" \/ made = MaxRuns \/ task = None
               \/ task.next = None \/ task.next > now

\* "every run (and every slot that didn't run, with why) as its own record in
\* `scheduled-runs.json`".
RunHasRecord ==
  up \in {"loaded", "on"} /\ work # None /\ task # None => \E r \in runs : r.id = work

=============================================================================
