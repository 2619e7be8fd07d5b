------------------------------ MODULE WorkerRuns ------------------------------
(***************************************************************************)
(* The runs of one worker (src/src/main/features/workers/engine.ts, with   *)
(* the receipts of executions.ts): mail and other wake-ups for its         *)
(* threads, the tick that starts what is due within the limit, how runs    *)
(* end, and what a quit, a crash and the next launch make of those that    *)
(* were going.                                                             *)
(*                                                                         *)
(* `eng` is the engine's memory. Of its fields, what stands in             *)
(* workers.json is on disk with each commit (a synchronous save); receipts *)
(* and transcripts are saved asynchronously and are on disk, `disk`, once  *)
(* their write has landed. Every handler ends in tick() where the code's   *)
(* does. Which of several due threads goes first (the oldest) is left      *)
(* open, as are limits that concern several workers, and whether a         *)
(* heartbeat is steady. A launch comes within a day of the runs it finds   *)
(* cut off. While the app is down, `eng` is what the next launch will read.*)
(*                                                                         *)
(* `newest` is not in the code: what each thread's newest run really was,  *)
(* whatever a crash has left of its receipt. No action's guard reads it.   *)
(***************************************************************************)
EXTENDS FiniteSets, Naturals

CONSTANTS
  Threads,   \* the worker's threads
  Main,      \* its main thread, which cannot be closed
  Routines,  \* the threads a repeating routine of the worker runs in
  Buying,    \* those of them whose routine is a purchase schedule
  Beating,   \* the threads whose runs set wake-ups for themselves
  Retried,   \* the threads whose runs the user retries
  Mail,      \* the messages the user may send
  Limit,     \* MAX_RUNNING_PER_WORKER
  SlowDisk   \* whether asynchronous writes may still be under way at a crash

ASSUME ThreadsAssumption ==
  /\ Main \in Threads \ Routines
  /\ Buying \subseteq Routines /\ Routines \subseteq Threads
  /\ Beating \subseteq Threads /\ Retried \subseteq Threads
  /\ Limit \in Nat /\ SlowDisk \in BOOLEAN

VARIABLES
  up,    \* started: between start() and stop()
  eng,   \* the engine's memory
  disk,  \* the receipts and transcripts whose write landed
  newest \* history: each thread's newest run

vars == <<up, eng, disk, newest>>

\* What became of a thread's newest run, and what started it: the user (mail, a
\* check-in, a retry), a routine, a heartbeat, or the launch after it was cut off.
RunStates == {"none", "running", "ended", "interrupted"}
Triggers == {"asked", "routine", "heartbeat", "resume"}

Receipts ==
  [run     : [Threads -> RunStates],
   trigger : [Threads -> Triggers],
   acted   : SUBSET Threads,   \* its sideEffects
   later   : SUBSET Threads,   \* a receipt that never ran stands after it
   past    : SUBSET Retried]   \* those of them with a receipt that has ended

\* A run as it was: what began it, whether it has acted and is over, and whether a
\* crash came before the write of what its receipt said last had landed.
Runs == [by : Triggers, acted : BOOLEAN, over : BOOLEAN, lost : BOOLEAN]

State ==
  [inbox   : [Threads -> SUBSET Mail],
   read    : [Threads -> SUBSET Mail],   \* the mail in the transcript
   receipt : Receipts,
   beat    : [Threads -> {"none", "set", "due"}],  \* heartbeat.nextAt
   slots   : SUBSET Routines,     \* routines whose nextAt has come
   closed  : SUBSET Threads,
   paused  : BOOLEAN,
   running : SUBSET Threads,      \* the maps of the class
   waiting : SUBSET Threads,
   resumes : SUBSET Threads,
   retries : SUBSET Threads,
   woken   : BOOLEAN,             \* wakes has the worker
   fired   : SUBSET Threads,      \* runs with a `fired` heartbeat
   took    : SUBSET Routines,     \* runs with `firedRoutines`
   reset   : SUBSET Threads]      \* runs that chose a heartbeat (`heartbeatSet`)

NoReceipts ==
  [run |-> [t \in Threads |-> "none"], trigger |-> [t \in Threads |-> "asked"],
   acted |-> {}, later |-> {}, past |-> {}]

Over == [by |-> "asked", acted |-> FALSE, over |-> TRUE, lost |-> FALSE]

Init ==
  /\ up = TRUE /\ newest = [t \in Threads |-> Over]
  /\ eng = [inbox |-> [t \in Threads |-> {}], read |-> [t \in Threads |-> {}],
            receipt |-> NoReceipts, beat |-> [t \in Threads |-> "none"],
            slots |-> {}, closed |-> {}, paused |-> FALSE,
            running |-> {}, waiting |-> {}, resumes |-> {}, retries |-> {},
            woken |-> FALSE, fired |-> {}, took |-> {}, reset |-> {}]
  /\ disk = [receipt |-> NoReceipts, read |-> [t \in Threads |-> {}]]

\* What asynchronous writes put on the disk: all of it, or some later.
Saved(e) == [receipt |-> e.receipt, read |-> e.read]

Goes(e) ==
  /\ eng' = e
  /\ disk' \in {Saved(e)} \cup IF SlowDisk THEN {disk} ELSE {}

-----------------------------------------------------------------------------
(* The tick.                                                               *)

\* skipOverlappingRoutines: a slot that comes while a run is going in the
\* routine's thread is passed over, and a receipt says so.
Skipped(e) ==
  LET over == IF e.paused THEN {} ELSE e.slots \cap e.running IN
  [e EXCEPT !.slots = @ \ over,
            !.receipt.later = @ \cup over, !.receipt.past = @ \cup (over \cap Retried)]

\* slotsOf: threads that are open, or written to since they closed.
Open(e) == {t \in Threads : t \notin e.closed \/ e.inbox[t] # {}}

Checked(e) == IF e.woken THEN {Main} ELSE {}

\* dueSlots.
Due(e) ==
  IF e.paused THEN {}
  ELSE {t \in Open(e) \ e.running :
          \/ e.inbox[t] # {} \/ e.beat[t] = "due"
          \/ t \in Checked(e) \cup e.resumes \cup e.retries \cup e.slots}

Priority(e) == {t \in Threads : e.inbox[t] # {} \/ t \in Checked(e) \cup e.retries}

\* Bug: a run that only its heartbeat started has no trigger.
Trigger_None(e, t) ==
  CASE t \in e.resumes \ e.retries -> "resume"
    [] t \in e.slots \ (e.retries \cup e.resumes \cup Checked(e)) -> "routine"
    [] t \notin e.resumes \cup e.slots \cup Priority(e) -> "none"
    [] OTHER -> "asked"

\* What the receipt says started the run, the first that holds: a retry, a pick-up,
\* a check-in, its routine's slot, mail, or its heartbeat.
Trigger(e, t) ==
  CASE t \in e.resumes \ e.retries -> "resume"
    [] t \in e.slots \ (e.retries \cup e.resumes \cup Checked(e)) -> "routine"
    [] t \notin e.resumes \cup e.slots \cup Priority(e) -> "heartbeat"
    [] OTHER -> "asked"

\* The receipt of a run that starts: the queued one, if there was one.
Started(e, S) ==
  [e.receipt EXCEPT !.run = [t \in Threads |-> IF t \in S THEN "running" ELSE @[t]],
                    !.trigger = [t \in Threads |-> IF t \in S THEN Trigger(e, t) ELSE @[t]],
                    !.acted = @ \ S, !.later = @ \ S]

\* Bug: the mail stays in the inbox of a run that starts.
InboxAfter_Kept(e, S) == e.inbox

InboxAfter(e, S) == [t \in Threads |-> IF t \in S THEN {} ELSE e.inbox[t]]

\* begin, for each of the threads S: the inbox goes into the transcript, and
\* everything that woke the thread is used up but its heartbeat, which the end
\* of the run looks at.
Begun(e, S) ==
  [e EXCEPT !.inbox = InboxAfter(e, S),
            !.read = [t \in Threads |-> IF t \in S THEN @[t] \cup e.inbox[t] ELSE @[t]],
            !.running = @ \cup S, !.waiting = @ \ S,
            !.resumes = @ \ S, !.retries = @ \ S,
            !.woken = @ /\ Main \notin S, !.slots = @ \ S,
            !.fired = @ \cup {t \in S : e.beat[t] = "due"},
            !.took = @ \cup (e.slots \cap S), !.reset = @ \ S,
            !.receipt = Started(e, S)]

\* dropWaiting and the tick's own: the queued receipts of S end as cancelled.
Dropped(e, S) ==
  [e EXCEPT !.waiting = @ \ S, !.receipt.past = @ \cup (e.waiting \cap S \cap Retried)]

\* markQueued: a receipt for each of S that has to wait.
Queued(e, S) == [e EXCEPT !.waiting = @ \cup S, !.receipt.later = @ \cup S]

\* Bug: a run that waits holds a place of its own.
Fits_Waiting(e, S, due) ==
  /\ Cardinality(e.running \cup e.waiting \cup S) <= Limit
  /\ S = due \/ Cardinality(e.running \cup e.waiting \cup S) = Limit

\* S of the threads `due` start: as many as there is room for.
Fits(e, S, due) ==
  /\ Cardinality(e.running \cup S) <= Limit
  /\ S = due \/ Cardinality(e.running \cup S) = Limit

\* The runs as they are once those that f leaves out have ended and S have begun.
NewestAfter(f, S) ==
  [t \in Threads |->
     IF t \in S
     THEN [by |-> Trigger(f, t), acted |-> FALSE, over |-> FALSE, lost |-> FALSE]
     ELSE IF t \in eng.running \ f.running THEN Over ELSE newest[t]]

\* tick: of what is due, what is over the hourly budget rests, as much as fits
\* starts, and the others have a queued receipt, which is cancelled once they
\* are not due any more.
Tick(f) ==
  \E e \in {Skipped(f)} :
    \E rest \in SUBSET (Due(e) \ Priority(e)) :
      \E due \in {Due(e) \ rest} :
        \E S \in SUBSET due :
          /\ Fits(e, S, due) /\ newest' = NewestAfter(e, S)
          /\ \E g \in {Queued(Begun(e, S), due \ S)} :
               Goes(Dropped(g, g.waiting \ (due \ S)))

-----------------------------------------------------------------------------
(* The user.                                                               *)

Given(m) == \E t \in Threads : m \in eng.inbox[t] \cup eng.read[t]

\* send: writing to a closed thread opens it again.
Give(t, m) ==
  /\ up /\ ~Given(m)
  /\ Tick([eng EXCEPT !.inbox[t] = @ \cup {m}, !.closed = @ \ {t}])
  /\ UNCHANGED up

Wake ==
  /\ up /\ ~eng.paused
  /\ Tick([eng EXCEPT !.woken = TRUE])
  /\ UNCHANGED up

\* retry, of a receipt of the thread that has ended.
Retry(t) ==
  /\ up /\ ~eng.paused /\ t \in eng.receipt.past
  /\ Tick([eng EXCEPT !.retries = @ \cup {t}, !.closed = @ \ {t}])
  /\ UNCHANGED up

\* closeThread: a run in it is told to stop, its wake-up goes, a queued run is
\* dropped.
Close(t) ==
  /\ up /\ t # Main
  /\ Goes(Dropped([eng EXCEPT !.closed = @ \cup {t}, !.beat[t] = "none"], {t}))
  /\ UNCHANGED <<up, newest>>

Reopen(t) ==
  /\ up /\ t \in eng.closed
  /\ Goes([eng EXCEPT !.closed = @ \ {t}])
  /\ UNCHANGED <<up, newest>>

\* setPaused: every run is told to stop, what was queued is dropped.
Pause ==
  /\ up /\ ~eng.paused
  /\ Goes(Dropped([eng EXCEPT !.paused = TRUE], Threads))
  /\ UNCHANGED <<up, newest>>

Unpause ==
  /\ up /\ eng.paused
  /\ Tick([eng EXCEPT !.paused = FALSE])
  /\ UNCHANGED up

-----------------------------------------------------------------------------
(* A run.                                                                  *)

\* onToolRun: the receipt says the run may have changed something, before the
\* first tool that could runs.
Act(t) ==
  /\ up /\ t \in eng.running
  /\ Goes([eng EXCEPT !.receipt.acted = @ \cup {t}])
  /\ newest' = [newest EXCEPT ![t].acted = TRUE]
  /\ UNCHANGED up

\* setHeartbeat and sleep, by the worker during its run.
SetBeat(t) ==
  /\ up /\ t \in eng.running \cap Beating
  /\ \E b \in {"set", "none"} :
       Goes([eng EXCEPT !.beat[t] = b, !.reset = @ \cup {t}])
  /\ UNCHANGED <<up, newest>>

\* Bug: the end of a run spends the thread's heartbeat, whoever set it.
BeatAfter_Spent(e, t) == IF t \in e.fired THEN {"set", "none"} ELSE {e.beat[t]}

\* The heartbeat a run has used up goes on if it is steady and else is spent,
\* unless the worker chose one in this run.
BeatAfter(e, t) == IF t \in e.fired \ e.reset THEN {"set", "none"} ELSE {e.beat[t]}

\* The receipt of a run that has ended. What started it, and what it did, nothing
\* asks for any more.
Ended(r, t) ==
  [r EXCEPT !.run[t] = "ended", !.trigger[t] = "asked",
            !.acted = @ \ {t}, !.past = @ \cup ({t} \cap Retried)]

\* finish: however the run ended. A routine that took its slot is next due later.
Finish(t) ==
  /\ up /\ t \in eng.running
  /\ \E b \in BeatAfter(eng, t) :
       Tick([eng EXCEPT !.running = @ \ {t}, !.beat[t] = b,
                        !.slots = @ \ (eng.took \cap {t}),
                        !.fired = @ \ {t}, !.took = @ \ {t},
                        !.reset = @ \ {t}, !.receipt = Ended(@, t)])
  /\ UNCHANGED up

-----------------------------------------------------------------------------
(* Time, the timer, and the app.                                           *)

BeatDue(t) ==
  /\ eng.beat[t] = "set"
  /\ eng' = [eng EXCEPT !.beat[t] = "due"]
  /\ UNCHANGED <<up, disk, newest>>

SlotDue(r) ==
  /\ r \notin eng.slots
  /\ eng' = [eng EXCEPT !.slots = @ \cup {r}]
  /\ UNCHANGED <<up, disk, newest>>

\* The interval and the timer armed for what is next due.
Timer == up /\ Tick(eng) /\ UNCHANGED up

\* Bug: nothing is recorded for the runs that were cut off.
Interrupted_Not(e) == e

\* The receipts of the runs that were going say they were cut off (stop, recover).
Interrupted(e) ==
  [e EXCEPT !.receipt.run = [t \in Threads |-> IF @[t] = "running" THEN "interrupted" ELSE @[t]],
            !.receipt.past = @ \cup {t \in Retried : e.receipt.run[t] = "running"}]

\* What the class keeps in maps is gone with the process.
Forgotten(e) ==
  [e EXCEPT !.running = {}, !.waiting = {}, !.resumes = {}, !.retries = {},
            !.woken = FALSE, !.fired = {}, !.took = {}, !.reset = {}]

\* stop: the runs that were going are recorded as cut off, those that waited as
\* cancelled, and the quit waits until every write has landed.
Quit ==
  /\ up /\ up' = FALSE
  /\ eng' = Forgotten(Interrupted(Dropped(eng, Threads)))
  /\ disk' = Saved(eng') /\ UNCHANGED newest

\* What a receipt says of the thread's newest run.
Says(r, t) == <<r.run[t], r.trigger[t], t \in r.acted>>

\* Environment: the process ends, with what has reached the disk.
Crash ==
  /\ up /\ up' = FALSE
  /\ newest' = [t \in Threads |->
                  [newest[t] EXCEPT
                     !.lost = @ \/ Says(disk.receipt, t) # Says(eng.receipt, t)]]
  /\ eng' = [Forgotten(eng) EXCEPT !.receipt = disk.receipt, !.read = disk.read]
  /\ UNCHANGED disk

\* Environment: an asynchronous write lands.
Land ==
  /\ up /\ disk # Saved(eng)
  /\ \/ disk' = [disk EXCEPT !.receipt = eng.receipt]
     \/ \E t \in Threads : disk' = [disk EXCEPT !.read[t] = eng.read[t]]
  /\ UNCHANGED <<up, eng, newest>>

\* Bug: a pick-up that was cut off is picked up again.
CutOff_Any(e) ==
  {t \in Threads : e.receipt.run[t] = "interrupted" /\ t \notin e.receipt.later}

\* The threads whose newest receipt is of a run that was cut off and was not
\* itself the pick-up of one.
CutOff(e) ==
  {t \in Threads : /\ e.receipt.run[t] = "interrupted" /\ t \notin e.receipt.later
                   /\ e.receipt.trigger[t] # "resume"}

\* A purchase schedule's run that has acted is picked up only when mayHaveBought,
\* of the payments engine, says that nothing was bought.
NothingBought(e) ==
  {t \in CutOff(e) \cap e.receipt.acted \cap Buying : e.receipt.trigger[t] = "routine"}

\* load, with the log's recover, and start.
Launch ==
  /\ ~up /\ up' = TRUE
  /\ LET e == Interrupted(eng) IN
     \E clear \in SUBSET NothingBought(e) :
       Tick([e EXCEPT !.resumes = (CutOff(e) \ e.receipt.acted) \cup clear,
                      !.receipt.past = @ \cup (e.receipt.later \cap Retried)])

Next ==
  \/ \E t \in Threads, m \in Mail : Give(t, m)
  \/ \E t \in Threads : \/ Retry(t) \/ Close(t) \/ Reopen(t)
                        \/ Act(t) \/ SetBeat(t) \/ Finish(t) \/ BeatDue(t)
  \/ \E r \in Routines : SlotDue(r)
  \/ Wake \/ Pause \/ Unpause \/ Timer
  \/ Quit \/ Crash \/ Land \/ Launch

Spec == Init /\ [][Next]_vars

-----------------------------------------------------------------------------
(* Properties.                                                             *)

TypeOK ==
  /\ up \in BOOLEAN /\ eng \in State
  /\ disk \in [receipt : Receipts, read : [Threads -> SUBSET Mail]]
  /\ newest \in [Threads -> Runs]

\* What the receipts say is what runs: while the app is up, a thread's newest
\* run is shown as running exactly while it is, and a thread that waits has its
\* queued receipt and no run (begin, finish, markQueued, recover).
RunsAsShown ==
  up => \A t \in Threads :
          /\ (eng.receipt.run[t] = "running") <=> (t \in eng.running)
          /\ t \in eng.waiting => t \in eng.receipt.later \ eng.running

\* No more runs than the limit; and nothing that has its queued receipt waits, and
\* no mail or check-in of the user, while there is room: whatever ends a run or
\* lets go of a thread also starts what waited (tick, at the end of the handlers).
RoomIsUsed ==
  /\ Cardinality(eng.running) <= Limit
  /\ up /\ ~eng.paused /\ Cardinality(eng.running) < Limit =>
       /\ eng.waiting = {} /\ (eng.woken => Main \in eng.running)
       /\ \A t \in Threads : eng.inbox[t] # {} => t \in eng.running

Lost(t, m) == up /\ ~up' /\ m \notin disk.read[t]

\* Mail is handed to its thread once: it stays in the inbox until a run has it in
\* the transcript, over quits, crashes, pauses and closed threads, and then never
\* wakes the thread again (begin, stop, load).
MailKept ==
  [][\A t \in Threads, m \in Mail :
       /\ m \in eng.inbox[t] =>
            IF m \in eng'.inbox[t] THEN m \notin eng'.read[t] ELSE m \in eng'.read[t]
       /\ m \in eng.read[t] =>
            /\ m \notin eng'.inbox[t]
            /\ m \in eng'.read[t] \/ Lost(t, m)]_vars

\* A run is picked up only if it really was cut off, was no pick-up itself, and had
\* really changed nothing, but for a purchase schedule's that bought nothing;
\* whatever ran in the thread meanwhile, and however often the app was quit or
\* crashed (load, begin). Left out is a run that a crash overtook before what its
\* receipt said last was on disk: its state, what began it, or that it had acted.
PickedUpOnce ==
  [][\A t \in eng'.running \ eng.running :
       newest'[t].by = "resume" /\ ~newest[t].lost =>
         /\ ~newest[t].over /\ newest[t].by # "resume"
         /\ newest[t].acted => t \in Buying /\ newest[t].by = "routine"]_vars

\* A wake-up the worker chose in a run outlives it, whether the run ends, is cut
\* off by a quit or a crash, or was started by an earlier wake-up (finish's
\* heartbeatSet).
ChosenWakeUpKept ==
  [][\A t \in eng.running \ eng'.running :
       t \in eng.reset => eng'.beat[t] = eng.beat[t]]_vars

-----------------------------------------------------------------------------
(* What the code's comments say and the code does not do.                  *)

\* loop.ts:799 and executions.ts:9: a run cut off by a crash is never replayed if it
\* may already have acted, for that is in its receipt before it acts. So none is,
\* with the write of the receipt still under way either.
NeverReplayed ==
  [][\A t \in eng'.running \ eng.running :
       newest'[t].by = "resume" /\ newest[t].acted /\ ~newest[t].over => t \in Buying]_vars

\* engine.ts:718: a run that may already have acted is left for the user to retry.
\* So one that a heartbeat began, that has acted and chosen no other, does not leave
\* that heartbeat due when the process ends: the launch would begin it again.
ActedWaitsForRetry ==
  [][up /\ ~up' =>
       \A t \in eng.running \cap eng.fired :
         t \in eng.receipt.acted \ eng.reset => eng'.beat[t] # "due"]_vars

CutShort(t) == eng.receipt.run[t] \in {"running", "interrupted"} /\ t \notin eng.running

\* engine.ts:751: a run that was cut off is picked up when nothing ran in its
\* thread since and it had changed nothing.
CutOffIsPickedUp ==
  [][~up /\ up' =>
       \A t \in Threads :
         CutShort(t) /\ t \notin eng.receipt.acted /\ eng.receipt.trigger[t] # "resume"
         => t \in eng'.resumes \cup eng'.running]_vars

=============================================================================
