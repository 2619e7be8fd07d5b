------------------------------ MODULE WorkerJobs ------------------------------
(***************************************************************************)
(* Jobs that workers hand to each other (delegations:                      *)
(* src/src/main/features/workers/engine.ts and delegations.ts): handing    *)
(* over, the thread a job is worked on in, reporting back, and the ways a  *)
(* job ends otherwise: a failed or stopped run, its deadline, a worker     *)
(* removed.                                                                *)
(*                                                                         *)
(* A thread is a worker's main one, written as the worker, or the thread   *)
(* of a job, written as the job. Sending copies files and so takes time:   *)
(* Hand and Report begin it, Sent, Unsent, Reported and Unreported end it. *)
(* Every handler that ends in tick() may begin threads that are due; which *)
(* of them find room, and are not resting or paused, is left open.         *)
(* Writes to the disk have landed when the app quits. Left out: questions  *)
(* to the user, which keep a job waiting as a wake-up does.                *)
(*                                                                         *)
(* `spent` counts what is not the plain course of a job (the user writing  *)
(* or stopping, runs cut short, deadlines, removals, quits, a report from  *)
(* another thread), up to Budget.                                          *)
(***************************************************************************)
EXTENDS FiniteSets, Naturals

CONSTANTS
  Workers, Jobs,
  Depth,     \* MAX_DELEGATION_DEPTH
  MaxOpen,   \* MAX_OPEN_DELEGATIONS
  MaxFor,    \* MAX_OPEN_HANDOFFS
  Asked,     \* the threads the user writes to
  Budget,    \* how often the work is disturbed from outside
  Nobody

ASSUME JobsAssumption ==
  /\ {Depth, MaxOpen, MaxFor, Budget} \subseteq Nat
  /\ Workers \cap Jobs = {} /\ Nobody \notin Workers \cup Jobs
  /\ Asked \subseteq Workers \cup Jobs

VARIABLES eng, spent

vars == <<eng, spent>>

Threads == Workers \cup Jobs
OpenStates == {"assigned", "running", "waiting"}
Ended == {"completed", "failed", "cancelled"}

Memory ==
  [alive    : SUBSET Workers,
   state    : [Jobs -> {"none"} \cup OpenStates \cup Ended],
   from     : [Jobs -> Threads \cup {Nobody}],   \* the thread that waits for it
   to       : [Jobs -> Workers \cup {Nobody}],
   chain    : [Jobs -> SUBSET Workers],
   sending  : SUBSET Jobs,                       \* handOff awaits message
   thread   : [Jobs -> {"none", "open", "closed", "gone"}],
   mail     : SUBSET Threads,                    \* threads with mail to read
   run      : [Threads -> {"idle", "going", "stopping", "again", "cut"}],
   beat     : [Jobs -> {"none", "set", "used"}], \* the thread's heartbeat
   reports  : [Jobs -> SUBSET {"own", "away"}],  \* finishHandoff awaits message
   told     : [Jobs -> 0..2]]                    \* results its parent was sent

Init ==
  /\ spent = 0
  /\ eng = [alive |-> Workers,
         state |-> [j \in Jobs |-> "none"], from |-> [j \in Jobs |-> Nobody],
         to |-> [j \in Jobs |-> Nobody], chain |-> [j \in Jobs |-> {}],
         sending |-> {}, thread |-> [j \in Jobs |-> "none"], mail |-> {},
         run |-> [t \in Threads |-> "idle"], beat |-> [j \in Jobs |-> "none"],
         reports |-> [j \in Jobs |-> {}], told |-> [j \in Jobs |-> 0]]

Owner(e, t) == IF t \in Workers THEN t ELSE e.to[t]
Open(e) == {j \in Jobs : e.state[j] \in OpenStates}
Here(e, t) == t \in Workers \cup {j \in Jobs : e.thread[j] \in {"open", "closed"}}
Running(e) == {t \in Threads : e.run[t] \in {"going", "stopping"}}

\* abortRun, for each of the threads S.
Aborted(e, S) ==
  [e EXCEPT !.run = [t \in Threads |-> IF t \in S /\ @[t] = "going" THEN "stopping" ELSE @[t]]]

\* deliverMail: to each thread of S, or its worker's main one when it is gone;
\* writing to a closed thread opens it again.
Mailed(e, S) ==
  [e EXCEPT !.mail = @ \cup {IF Here(e, t) THEN t ELSE Owner(e, t) : t \in S},
            !.thread = [j \in Jobs |-> IF j \in S /\ Here(e, j) THEN "open" ELSE @[j]]]

-----------------------------------------------------------------------------
(* The tick.                                                               *)

\* dueSlots: "again" is a run cut off by a quit that will be picked up.
Due(e) ==
  {t \in Threads \ Running(e) :
     /\ Owner(e, t) \in e.alive
     /\ t \in Workers \/ e.thread[t] = "open" \/ (e.thread[t] = "closed" /\ t \in e.mail)
     /\ t \in e.mail \/ e.run[t] = "again" \/ (t \in Jobs /\ e.beat[t] = "set")}

\* begin, for the threads S, with the heartbeats of F due.
Begun(e, S, F) ==
  [e EXCEPT !.mail = @ \ S,
            !.run = [t \in Threads |-> IF t \in S THEN "going" ELSE @[t]],
            !.beat = [j \in Jobs |-> IF j \in F THEN "used" ELSE @[j]],
            !.state = [j \in Jobs |-> IF j \in S /\ @[j] \in OpenStates THEN "running" ELSE @[j]]]

\* The threads tick may begin, with those whose heartbeat has come due.
Starts(e) ==
  UNION {{<<S, F>> : F \in {H \in SUBSET {j \in S \cap Jobs : e.beat[j] = "set"} :
                            \A t \in S : t \in e.mail \cup H \/ e.run[t] = "again"}} :
         S \in SUBSET Due(e)}

Tick(f) == \E e \in {f} : \E p \in Starts(e) : eng' = Begun(e, p[1], p[2])

-----------------------------------------------------------------------------
(* How a job ends.                                                         *)

\* The parents' threads get the results of the jobs S, and are woken by them.
Told(e, S) ==
  Mailed([e EXCEPT !.told = [j \in Jobs |-> IF j \in S /\ @[j] < 2 THEN @[j] + 1 ELSE @[j]]],
         {t \in {e.from[j] : j \in S} : Owner(e, t) \in e.alive})

\* endDelegation, for each of the jobs S that is open: the work on it is stopped
\* and its thread closed.
End(e, S, how) ==
  LET ends == S \cap Open(e)
      open == {j \in ends : e.thread[j] = "open"}
  IN Told(Aborted(
       [e EXCEPT !.state = [j \in Jobs |-> IF j \in ends THEN how ELSE @[j]],
                 !.thread = [j \in Jobs |-> IF j \in open THEN "closed" ELSE @[j]],
                 !.beat = [j \in Jobs |-> IF j \in open /\ @[j] = "set" THEN "none" ELSE @[j]]],
       ends), ends)

\* What handOff's catch takes back.
Unlisted(e, S) ==
  [e EXCEPT !.state = [j \in Jobs |-> IF j \in S THEN "none" ELSE @[j]],
            !.from = [j \in Jobs |-> IF j \in S THEN Nobody ELSE @[j]],
            !.to = [j \in Jobs |-> IF j \in S THEN Nobody ELSE @[j]],
            !.chain = [j \in Jobs |-> IF j \in S THEN {} ELSE @[j]],
            !.told = [j \in Jobs |-> IF j \in S THEN 0 ELSE @[j]],
            !.sending = @ \ S]

-----------------------------------------------------------------------------
(* Handing over.                                                           *)

\* Bug: only the worker itself, not those that wait above it.
ChainFrom_Alone(e, t) == {Owner(e, t)}

\* Bug: a job's thread, not its worker.
ChainFrom_Thread(e, t) == (IF t \in Jobs THEN e.chain[t] ELSE {}) \cup {t}

\* The workers from the first that handed over down to the one that does now.
ChainFrom(e, t) == (IF t \in Jobs THEN e.chain[t] ELSE {}) \cup {Owner(e, t)}

\* Bug: one more than the limits.
Refused_More(e, t, w) ==
  \/ w = Owner(e, t) \/ w \in ChainFrom(e, t)
  \/ Cardinality(ChainFrom(e, t)) > Depth
  \/ Cardinality(Open(e)) > MaxOpen
  \/ Cardinality({j \in Open(e) : e.to[j] = w}) > MaxFor

\* delegationRefusal, and handOff's own limit.
Refused(e, t, w) ==
  \/ w = Owner(e, t) \/ w \in ChainFrom(e, t)
  \/ Cardinality(ChainFrom(e, t)) > Depth
  \/ Cardinality(Open(e)) >= MaxOpen
  \/ Cardinality({j \in Open(e) : e.to[j] = w}) >= MaxFor

\* handOff, in a run of thread t, up to the await.
Hand(t, w, j) ==
  /\ eng.run[t] = "going" /\ Owner(eng, t) \in eng.alive
  /\ w \in eng.alive /\ eng.state[j] = "none"
  /\ ~Refused(eng, t, w)
  /\ eng' = [eng EXCEPT !.state[j] = "assigned", !.from[j] = t, !.to[j] = w,
                        !.chain[j] = ChainFrom(eng, t), !.sending = @ \cup {j}]

\* message goes through: the job gets its thread, with the mail that starts it.
Sent(j) ==
  /\ j \in eng.sending /\ eng.to[j] \in eng.alive
  /\ Tick(Mailed([eng EXCEPT !.sending = @ \ {j}, !.thread[j] = "open"], {j}))

\* The budget, the copy, a stopped run, or a colleague gone: nothing was sent.
Unsent(j) ==
  /\ j \in eng.sending
  /\ eng' = Unlisted(eng, {j})

\* finishHandoff up to the await, in a run of the job's own thread or in another
\* of the worker's ("away").
Report(j, how) ==
  /\ j \in Open(eng) \ eng.sending /\ eng.to[j] \in eng.alive
  /\ how \notin eng.reports[j]
  /\ how = "own" => eng.run[j] = "going"
  /\ eng' = [eng EXCEPT !.reports[j] = @ \cup {how}]

\* message goes through: the parent has the result and the job is settled,
\* whatever became of it meanwhile.
Reported(j) ==
  /\ \E how \in eng.reports[j], as \in {"completed", "failed"} :
       /\ Owner(eng, eng.from[j]) \in eng.alive
       /\ how = "own" => j \in Running(eng)
       /\ Tick(Told([eng EXCEPT !.state[j] = as, !.reports[j] = @ \ {how}], {j}))

Unreported(j) ==
  \E how \in eng.reports[j] : eng' = [eng EXCEPT !.reports[j] = @ \ {how}]

-----------------------------------------------------------------------------
(* A run.                                                                  *)

SetBeat(j) ==
  /\ eng.run[j] \in {"going", "stopping"} /\ Here(eng, j)
  /\ \E b \in {"set", "none"} : eng' = [eng EXCEPT !.beat[j] = b]

\* Bug: a run that ends without reporting leaves the job as it is.
JobAfter_Forgets(e, j, outcome) ==
  CASE j \notin Open(e) \/ outcome = "cut" \/ (outcome = "completed" /\ e.beat[j] = "none") -> e
    [] j \in Open(e) /\ outcome \in {"failed", "cancelled"} -> End(e, {j}, outcome)
    [] OTHER -> [e EXCEPT !.state[j] = "waiting"]

\* Bug: a failed run settles the job, and the parent is not told.
JobAfter_Silent(e, j, outcome) ==
  CASE j \notin Open(e) \/ outcome = "cut" -> e
    [] j \in Open(e) /\ outcome \in {"failed", "cancelled"} -> [e EXCEPT !.state[j] = outcome]
    [] j \in Open(e) /\ outcome = "completed" /\ e.beat[j] # "none" ->
         [e EXCEPT !.state[j] = "waiting"]
    [] OTHER -> Told([e EXCEPT !.state[j] = "completed"], {j})

\* The end of a run of job j's thread, as it bears on the job: a failed one fails
\* it, one the engine stopped cancels it, one that ended with nothing set to come
\* back to it reports its last reply (autoReport); one cut short leaves it as it is.
JobAfter(e, j, outcome) ==
  CASE j \notin Open(e) \/ outcome = "cut" -> e
    [] j \in Open(e) /\ outcome \in {"failed", "cancelled"} -> End(e, {j}, outcome)
    [] j \in Open(e) /\ outcome = "completed" /\ e.beat[j] # "none" ->
         [e EXCEPT !.state[j] = "waiting"]
    [] OTHER -> Told([e EXCEPT !.state[j] = "completed"], {j})

\* A job that has ended closes its thread, unless someone has written there.
Closing(e, j) ==
  IF j \notin Open(e) /\ e.thread[j] = "open" /\ j \notin e.mail
  THEN [e EXCEPT !.thread[j] = "closed"] ELSE e

BeatAfter(b) == IF b = "used" THEN {"set", "none"} ELSE {b}

RunAfter(outcome) == IF outcome = "cut" THEN "cut" ELSE "idle"

\* finish. The main thread's has nothing more to do here, nor one whose thread or
\* worker is gone.
RunEnds(t, outcome) ==
  IF t \in Workers \/ ~Here(eng, t) \/ Owner(eng, t) \notin eng.alive
  THEN Tick([eng EXCEPT !.run[t] = "idle"])
  ELSE /\ "own" \notin eng.reports[t]
       /\ \E b \in BeatAfter(eng.beat[t]) :
            LET e == [eng EXCEPT !.run[t] = RunAfter(outcome), !.beat[t] = b]
            IN Tick(Closing(JobAfter(e, t, outcome), t))

\* A run that the engine told to stop is cancelled unless it failed first.
Finish(t) ==
  /\ t \in Running(eng)
  /\ \E outcome \in {"failed", IF eng.run[t] = "going" THEN "completed" ELSE "cancelled"} :
       RunEnds(t, outcome)

\* The emergency stop of the computer's use ends the run itself, and the engine
\* only learns that it was cut short; a main thread's bears on no job.
CutShort(j) == eng.run[j] = "going" /\ RunEnds(j, "cut")

-----------------------------------------------------------------------------
(* The user, time, and the app.                                            *)

\* send, retry and wake.
Write(t) ==
  /\ t \in Asked /\ Here(eng, t) /\ Owner(eng, t) \in eng.alive
  /\ Tick(Mailed(eng, {t}))

\* stopTurn, and a pause; a main thread's bears on no job.
StopTurn(j) ==
  /\ eng.run[j] = "going"
  /\ eng' = Aborted(eng, {j})

CloseThread(j) ==
  /\ eng.thread[j] = "open" /\ eng.to[j] \in eng.alive
  /\ eng' = Aborted([eng EXCEPT !.thread[j] = "closed",
                                !.beat[j] = IF @ = "used" THEN @ ELSE "none"], {j})

RemoveThread(j) ==
  /\ Here(eng, j) /\ eng.to[j] \in eng.alive
  /\ eng' = Aborted([eng EXCEPT !.thread[j] = "gone", !.mail = @ \ {j}, !.beat[j] = "none"], {j})

\* expireDelegations, in tick.
Expire(j) ==
  /\ j \in Open(eng)
  /\ Tick(End(eng, {j}, "failed"))

\* A worker that is left out of the list, and its threads.
Forgotten(e, w) ==
  LET own == {t \in Threads : Owner(e, t) = w} IN
  [e EXCEPT !.alive = @ \ {w}, !.mail = @ \ own,
            !.thread = [j \in Jobs |-> IF j \in own THEN "gone" ELSE @[j]],
            !.beat = [j \in Jobs |-> IF j \in own THEN "none" ELSE @[j]],
            !.run = [t \in Threads |-> IF t \in own \ Running(e) THEN "idle" ELSE @[t]]]

\* remove: its runs are stopped, the jobs it has or waits for are cancelled, each
\* with a tick (taken as one here), and only then is it left out of the list.
Remove(w) ==
  /\ w \in eng.alive
  /\ LET own == {t \in Threads : Owner(eng, t) = w}
         jobs == {j \in Open(eng) : w \in {eng.to[j], Owner(eng, eng.from[j])}}
     IN \E e \in {End(Aborted(eng, own), jobs, "cancelled")} :
          \E p \in (IF jobs = {} THEN {<<{}, {}>>} ELSE Starts(e)) :
            eng' = Forgotten(Begun(e, p[1], p[2]), w)

\* A job's run that was going is picked up after a quit, or left to the user to
\* retry; a main thread's bears on no job until someone writes there again.
RunAfterQuit(e, again) ==
  [t \in Threads |->
     IF t \in Workers \/ e.run[t] = "idle" \/ ~Here(e, t) \/ Owner(e, t) \notin e.alive
     THEN "idle" ELSE IF t \in again THEN "again" ELSE "cut"]

\* A quit and the next launch. Hand-overs and reports under way are gone, and with
\* them the jobs being handed over, but those the list was saved with meanwhile.
Restart ==
  \E again \in SUBSET {j \in Jobs : eng.run[j] \in {"going", "stopping", "again"}},
     saved \in SUBSET eng.sending :
    LET e == [eng EXCEPT !.run = RunAfterQuit(eng, again),
                         !.beat = [j \in Jobs |-> IF @[j] # "used" THEN @[j]
                                     ELSE IF eng.thread[j] = "open" THEN "set" ELSE "none"],
                         !.reports = [j \in Jobs |-> {}], !.sending = {}]
    IN Tick(Unlisted(e, eng.sending \ saved))

\* The interval and the timers.
Timer == Tick(eng)

Work ==
  \/ \E t \in Threads, w \in Workers, j \in Jobs : Hand(t, w, j)
  \/ \E j \in Jobs : \/ Sent(j) \/ Unsent(j) \/ Report(j, "own") \/ Reported(j) \/ Unreported(j)
                     \/ SetBeat(j)
  \/ \E t \in Threads : Finish(t)
  \/ Timer

Disturbance ==
  \/ \E t \in Threads : Write(t)
  \/ \E j \in Jobs : \/ StopTurn(j) \/ CutShort(j) \/ CloseThread(j) \/ RemoveThread(j)
                     \/ Expire(j)
  \/ \E j \in Jobs : Report(j, "away")
  \/ \E w \in Workers : Remove(w)
  \/ Restart

Next ==
  \/ Work /\ UNCHANGED spent
  \/ spent < Budget /\ Disturbance /\ spent' = spent + 1

Spec == Init /\ [][Next]_vars

-----------------------------------------------------------------------------
(* Properties.                                                             *)

TypeOK == eng \in Memory /\ spent \in 0..Budget

\* A job's parent hears of its end: however a job ended, its result was sent to the
\* thread that asked for it, and none was while it is open (endDelegation,
\* finishHandoff, autoReport).
ToldWhenEnded ==
  \A j \in Jobs :
    /\ eng.state[j] \in Ended => eng.told[j] > 0
    /\ j \in Open(eng) => eng.told[j] = 0

\* No one waits for a job nobody will come back to: while a job is open it is being
\* sent, or its thread has mail, a run or a wake-up. Left out are a thread the user
\* closed or deleted, a job a quit took out of the sender's hands, and a run that
\* was cut: by a quit that left it to the user to retry, or short of its end by
\* the emergency stop, after which only the user or the deadline ends the wait.
OpenJobIsWorkedOn ==
  \A j \in Open(eng) :
    \/ j \in eng.sending \cup eng.mail
    \/ eng.run[j] \in {"going", "stopping", "again"} \/ eng.beat[j] = "set"
    \/ eng.thread[j] # "open" \/ eng.run[j] = "cut"

\* The limits on open jobs hold, although sending takes time and several hand over
\* at once (handOff lists the job before it awaits).
OpenJobsBounded ==
  /\ Cardinality(Open(eng)) <= MaxOpen
  /\ \A w \in Workers : Cardinality({j \in Open(eng) : eng.to[j] = w}) <= MaxFor

\* A job and the jobs above it: from each, to the one in whose thread it was handed
\* over, up to a worker's main thread.
Line(e, j) ==
  {k \in Jobs : \A S \in SUBSET Jobs :
     j \in S /\ (\A i \in S : e.from[i] \in Jobs => e.from[i] \in S) => k \in S}

\* The workers waiting above a job, by the threads that asked.
Above(e, j) == {Owner(e, t) : t \in {e.from[k] : k \in Line(e, j)} \cap Threads}

\* No worker is handed a job it waits for itself, through however many colleagues,
\* and none is nested deeper than the limit (delegationRefusal).
NoWaitingCircle ==
  \A j \in Open(eng) :
    eng.to[j] \notin Above(eng, j) /\ Cardinality(Above(eng, j)) <= Depth

-----------------------------------------------------------------------------
(* What the code's comments say and the code does not do.                  *)

\* engine.ts:1075: removing a worker stops its runs.
RemovedIsStopped ==
  \A t \in Threads : eng.run[t] = "going" => Owner(eng, t) \in eng.alive

\* engine.ts:1647: a job that is called off tells its parent and stops the
\* recipient's work on it. So it is not begun by what calls it off.
CalledOffIsStopped ==
  [][\A j \in Open(eng) :
       eng'.state[j] \in {"failed", "cancelled"} /\ eng.run[j] # "going" => eng'.run[j] # "going"]_vars

\* engine.ts:3709: the worker that asked is never left waiting for a job whose turn
\* ended with nothing to come back to it. So however a run ends in an open thread,
\* the job has ended, or has mail, a wake-up or the next run.
NeverLeftWaiting ==
  [][\A j \in Open(eng) :
       CutShort(j) \/ Finish(j) =>
         \/ j \notin Open(eng') \/ j \in eng'.mail \/ eng'.beat[j] = "set"
         \/ eng'.run[j] = "going" \/ eng'.thread[j] # "open"]_vars

\* engine.ts:1635: a state a job is settled in is final.
EndedIsFinal ==
  [][\A j \in Jobs : eng.state[j] \in Ended => eng'.state[j] \in {eng.state[j], "none"}]_vars

=============================================================================
