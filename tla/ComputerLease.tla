---------------------------- MODULE ComputerLease ----------------------------
(***************************************************************************)
(* The computer's one pointer and keyboard, shared by every run that may   *)
(* use the `computer` tool (src/src/main/features/computer/lease.ts), with *)
(* the tool call that holds it (computer/tool.ts), the run table it asks   *)
(* (agent/loop.ts: activeRuns, cancelRun) and the emergency stop           *)
(* (computer/session.ts: driving, stopAll).                                *)
(*                                                                         *)
(* Time is abstract: `idle` says that idleMs passed since the holder's     *)
(* last action, a waiter's timer may fire at any time, and `news[r]` is    *)
(* the part of the `acted` map that is later than r's last screenshot.     *)
(* A run stands for one turn of one chat, worker or scheduled task, each   *)
(* with an owner of its own; it calls the tool one call at a time (the     *)
(* loop runs mutating calls in order, and sub-agents are not offered it).  *)
(***************************************************************************)
EXTENDS FiniteSets

CONSTANTS Runs, None

ASSUME RunsAssumption == None \notin Runs

VARIABLES
  phase,     \* where each run's tool call stands
  live,      \* activeRuns: the runs isRunning answers true for
  aborted,   \* runs whose AbortSignal fired
  holder,    \* the run the lease is with, or None
  idle,      \* the holder's lastActive is idleMs old
  waiters,   \* runs in the waiters array
  ahead,     \* for a waiter, the runs in front of it in that array
  revoked,   \* runs the user took control back from
  watched,   \* runs whose abort releases the lease
  sweeping,  \* the sweep interval is set
  driving,   \* runs the emergency stop ends
  shot,      \* runs with a screenshot on record (shotAt)
  news,      \* runs recorded as having acted after that screenshot
  moved,     \* runs whose screenshot really predates another run's input
  inside     \* the run whose action is being done in `exclusive`, or None

leaseVars == <<holder, idle, waiters, ahead, revoked, watched, sweeping>>
screenVars == <<shot, news, moved>>
runVars == <<live, aborted>>
vars == <<phase, runVars, leaseVars, driving, screenVars, inside>>

\* Inside `exclusive`: making sure focus is away from Eaon, about to send
\* input (Eaon's windows being hidden), sending it.
Acting == {"focusing", "aiming", "sending"}

Phases == {"out", "ready", "called", "waiting", "granted", "queued", "ended"}
            \cup Acting

Init ==
  /\ phase = [r \in Runs |-> "out"]
  /\ live = {} /\ aborted = {}
  /\ holder = None /\ idle = FALSE
  /\ waiters = {} /\ ahead = [r \in Runs |-> {}]
  /\ revoked = {} /\ watched = {} /\ sweeping = FALSE
  /\ driving = {}
  /\ shot = {} /\ news = [r \in Runs |-> {}] /\ moved = {}
  /\ inside = None

-----------------------------------------------------------------------------
(* The waiters array.                                                      *)

\* Bug: any waiter is, not the first.
IsFirst_Anyone(h, W) == IF W = {} THEN h = None ELSE h \in W

\* h is the first of the runs W in the array, None when there is none.
IsFirst(h, W) ==
  IF W = {} THEN h = None ELSE h \in W /\ ahead[h] \cap W = {}

\* splice: of the array, the runs W remain.
Remain(W) ==
  /\ waiters' = W
  /\ ahead' = [q \in Runs |-> IF q \in W THEN ahead[q] \cap W ELSE {}]

\* Bug: r stands in front (unshift).
StandBehind_InFront(r, W) ==
  /\ waiters' = W \cup {r}
  /\ ahead' = [q \in Runs |-> IF q = r THEN {}
                              ELSE IF q \in W THEN ahead[q] \cap W ELSE {}]

\* push: r stands behind the runs W, which remain.
StandBehind(r, W) ==
  /\ waiters' = W \cup {r}
  /\ ahead' = [q \in Runs |-> IF q = r THEN W
                              ELSE IF q \in W THEN ahead[q] \cap W ELSE {}]

\* Who a hand-over to h takes out of the array W: h, and the runs that ended
\* in front of it (all that ended, when nobody is left to take over).
PassedOver(h, W) ==
  {h} \cup {w \in W \ live : h = None \/ w \in ahead[h]}

\* grant() and next(): h becomes the holder, not idle.
HandTo(h) == holder' = h /\ idle' = FALSE

\* Bug: the refused are never told.
Answer_OnlyGrants(refused, h) ==
  phase' = [r \in Runs |-> IF r = h THEN "granted" ELSE phase[r]]

\* The refusals a waiter is answered with all end its tool call; a hand-over
\* answers h with { ok: true }.
Answer(refused, h) ==
  phase' = [r \in Runs |-> IF r = h THEN "granted"
                           ELSE IF r \in refused THEN "ready"
                           ELSE phase[r]]

-----------------------------------------------------------------------------
(* touch and the record of who acted.                                      *)

\* touch(owner): lastActive if r is the holder, and its entry in `acted`,
\* which is later than every screenshot taken before.
Noted(r) == [c \in Runs |-> IF c # r /\ c \in shot THEN news[c] \cup {r}
                            ELSE news[c]]

Touch(r) == idle' = (idle /\ holder # r) /\ news' = Noted(r)

\* Bug: an entry without a run is left in it.
See_Nobody(r) ==
  /\ shot' = shot \cup {r}
  /\ news' = [news EXCEPT ![r] = {None}]
  /\ moved' = moved \ {r}

\* A screenshot by r: nobody has acted since.
See(r) ==
  /\ shot' = shot \cup {r}
  /\ news' = [news EXCEPT ![r] = {}]
  /\ moved' = moved \ {r}

\* sweep() drops the `acted` entries of ended runs that are more than ten
\* minutes old. How old they are is the environment's choice, except that the
\* action under way is not that old.
Ended == Runs \ (live \cup {inside})

Forget(gone) == news' = [c \in Runs |-> news[c] \ gone]

-----------------------------------------------------------------------------
(* Runs: they start, end, and are stopped.                                 *)

Start(r) ==
  /\ phase[r] = "out"
  /\ phase' = [phase EXCEPT ![r] = "ready"]
  /\ live' = live \cup {r}
  /\ UNCHANGED <<aborted, leaseVars, driving, screenVars, inside>>

\* The finally of runOwnLoop: the turn is over, between tool calls.
End(r) ==
  /\ phase[r] = "ready"
  /\ phase' = [phase EXCEPT ![r] = "ended"]
  /\ live' = live \ {r}
  /\ UNCHANGED <<aborted, leaseVars, driving, screenVars, inside>>

\* The abort listeners: the waiter's own takes r out of the array and answers
\* 'aborted'; release(r), if r is watched, passes the lease to h.
Release(r, h) ==
  LET W == waiters \ {r} IN
  /\ watched' = watched \ {r}
  /\ \/ /\ r \in watched /\ holder = r
        /\ IsFirst(h, W \cap live)
        /\ HandTo(h)
        /\ Remain(W \ PassedOver(h, W))
        /\ Answer((waiters \cap {r}) \cup PassedOver(h, W), h)
     \/ /\ ~(r \in watched /\ holder = r)
        /\ h = None
        /\ Remain(W)
        /\ Answer(waiters \cap {r}, None)
        /\ UNCHANGED <<holder, idle>>
  /\ UNCHANGED <<revoked, sweeping>>

\* Bug: a stop does not reach the lease.
Stop_SignalOnly(r) ==
  /\ r \in live \ aborted
  /\ aborted' = aborted \cup {r}
  /\ live' \in {live, live \ {r}}
  /\ driving' = driving \ {r}
  /\ UNCHANGED <<phase, leaseVars, screenVars, inside>>

\* The run is stopped: by cancelRun, which also takes it out of activeRuns,
\* or by the caller's own signal, which leaves it there until it unwinds.
\* stopAll, the emergency stop, is cancelRun for one driving run after another.
Stop(r) ==
  /\ r \in live \ aborted
  /\ aborted' = aborted \cup {r}
  /\ live' \in {live, live \ {r}}
  /\ driving' = driving \ {r}
  /\ \E h \in Runs \cup {None} : Release(r, h)
  /\ UNCHANGED <<screenVars, inside>>

\* The 500 ms poll of beginDriving.
Poll ==
  /\ driving' = driving \cap live
  /\ UNCHANGED <<phase, runVars, leaseVars, screenVars, inside>>

-----------------------------------------------------------------------------
(* The lease.                                                              *)

\* Bug: only idle holders are looked for.
LetsGo_IdleOnly == holder # None /\ idle

\* After the dead waiters are dropped: the lease lets go of a holder that
\* ended or went idle.
LetsGo == holder # None /\ (holder \notin live \/ idle)

\* Bug: every refusal is forgotten.
StillRevoked_None == {}

\* sweep() forgets the refusals of runs that ended.
StillRevoked == revoked \cap live

\* sweep(): h is the holder it leaves, the array keeps the live but for h.
Swept(h) == IF LetsGo THEN IsFirst(h, waiters \cap live) ELSE h = holder

Left(h) == (waiters \cap live) \ {h}

\* With it, the call of r is answered p (or parked), h's waiter is granted
\* the computer, and those that ended are answered 'aborted'.
Reply(r, p, h) ==
  phase' = [q \in Runs |-> IF q = r THEN p
                           ELSE IF q \notin waiters THEN phase[q]
                           ELSE IF q \notin live THEN "ready"
                           ELSE IF q = h THEN "granted" ELSE phase[q]]

Leave(h) == holder' = h /\ idle' = (idle /\ ~LetsGo)

\* acquire refuses: the user took control back from r, or r was stopped.
Refuse(r, h) ==
  /\ r \in StillRevoked \cup aborted
  /\ Reply(r, "ready", h) /\ Leave(h) /\ Remain(Left(h))
  /\ sweeping' = (sweeping /\ (h # None \/ Left(h) # {}))
  /\ UNCHANGED watched

\* acquire grants: the computer is free, or r's already.
Grant(r, h) ==
  /\ r \notin StillRevoked \cup aborted
  /\ h \in {None, r}
  /\ Reply(r, "granted", h) /\ HandTo(r) /\ Remain(Left(h))
  /\ watched' = watched \cup {r} /\ sweeping' = TRUE

\* acquire parks r behind everyone waiting.
Park(r, h) ==
  /\ r \notin StillRevoked \cup aborted
  /\ h \notin {None, r}
  /\ Reply(r, "waiting", h) /\ Leave(h) /\ StandBehind(r, Left(h))
  /\ watched' = watched \cup {r} /\ sweeping' = TRUE

\* acquire(owner), called by holdComputer for r's next action; its sweep
\* comes first.
Acquire(r) ==
  /\ phase[r] = "called"
  /\ \E h \in Runs \cup {None}, gone \in SUBSET Ended :
      /\ Swept(h) /\ Forget(gone)
      /\ Refuse(r, h) \/ Grant(r, h) \/ Park(r, h)
  /\ revoked' = StillRevoked
  /\ UNCHANGED <<runVars, driving, shot, moved, inside>>

\* sweep() from its interval.
Sweep ==
  /\ sweeping
  /\ \E h \in Runs \cup {None}, gone \in SUBSET Ended :
      /\ Swept(h) /\ Forget(gone)
      /\ Reply(None, "ready", h) /\ Leave(h) /\ Remain(Left(h))
      /\ sweeping' = (h # None \/ Left(h) # {})
  /\ revoked' = StillRevoked
  /\ UNCHANGED <<runVars, watched, driving, shot, moved, inside>>

\* idleMs pass without an action of the holder.
Idle ==
  /\ holder # None
  /\ idle' = TRUE
  /\ UNCHANGED <<phase, runVars, holder, waiters, ahead, revoked, watched,
                 sweeping, driving, screenVars, inside>>

\* The waiter's timer: waitMs passed.
TimeOut(r) ==
  /\ r \in waiters
  /\ Remain(waiters \ {r})
  /\ Answer({r}, None)
  /\ UNCHANGED <<runVars, holder, idle, revoked, watched, sweeping,
                 driving, screenVars, inside>>

\* takeBack: revoke(), and nobody refused is driving any more.
TakeBack ==
  LET refused == waiters \cup ({holder} \ {None}) IN
  /\ revoked' = revoked \cup refused
  /\ holder' = None /\ idle' = FALSE
  /\ Remain({})
  /\ Answer(waiters, None)
  /\ driving' = driving \ refused
  /\ UNCHANGED <<runVars, watched, sweeping, screenVars, inside>>

\* dispose, as Eaon quits: the waiters are answered, the lease and the stop
\* are put away, and the runs go with the process.
Dispose ==
  /\ sweeping' = FALSE
  /\ Remain({})
  /\ holder' = None /\ idle' = FALSE
  /\ driving' = {} /\ live' = {} /\ inside' = None
  /\ phase' = [r \in Runs |-> "ended"]
  /\ UNCHANGED <<aborted, revoked, watched, screenVars>>

-----------------------------------------------------------------------------
(* The tool call.                                                          *)

\* The loop breaks off before the next call once the signal fired, and
\* runComputer refuses a revoked run anything, looking included.
MayCall(r) == phase[r] = "ready" /\ r \notin aborted /\ r \notin revoked

\* A screenshot, which waits its turn in `exclusive` but needs no lease.
Look(r) ==
  /\ MayCall(r) /\ inside = None
  /\ See(r)
  /\ driving' = driving \cup {r}
  /\ UNCHANGED <<phase, runVars, leaseVars, inside>>

\* Bug: the call does not count as driving.
Call_NotDriving(r) ==
  /\ MayCall(r)
  /\ phase' = [phase EXCEPT ![r] = "called"]
  /\ UNCHANGED <<runVars, leaseVars, driving, screenVars, inside>>

\* A call that will send input; the checks and the user's approval follow.
Call(r) ==
  /\ MayCall(r)
  /\ phase' = [phase EXCEPT ![r] = "called"]
  /\ driving' = driving \cup {r}
  /\ UNCHANGED <<runVars, leaseVars, screenVars, inside>>

\* Input is blocked, or the user says no.
Decline(r) ==
  /\ phase[r] = "called"
  /\ phase' = [phase EXCEPT ![r] = "ready"]
  /\ UNCHANGED <<runVars, leaseVars, driving, screenVars, inside>>

\* The rest of holdComputer once it has the lease: look again first if
\* someone acted since this run's screenshot, which is then forgotten.
Proceed(r) ==
  /\ phase[r] = "granted"
  /\ \/ /\ news[r] # {}
        /\ shot' = shot \ {r} /\ moved' = moved \ {r}
        /\ news' = [news EXCEPT ![r] = {}]
        /\ phase' = [phase EXCEPT ![r] = "ready"]
     \/ /\ news[r] = {}
        /\ phase' = [phase EXCEPT ![r] = IF r \in aborted THEN "ready"
                                         ELSE "queued"]
        /\ UNCHANGED screenVars
  /\ UNCHANGED <<runVars, leaseVars, driving, inside>>

\* Its turn in `exclusive`. A keyboard action makes sure focus is away from
\* Eaon before it touches the lease; the others touch it at once.
Enter(r) ==
  /\ phase[r] = "queued" /\ inside = None
  /\ \/ /\ r \in aborted \/ holder # r
        /\ phase' = [phase EXCEPT ![r] = "ready"]
        /\ UNCHANGED <<inside, idle, news>>
     \/ /\ r \notin aborted /\ holder = r
        /\ inside' = r
        /\ \/ /\ phase' = [phase EXCEPT ![r] = "focusing"]
              /\ UNCHANGED <<idle, news>>
           \/ phase' = [phase EXCEPT ![r] = "aiming"] /\ Touch(r)
  /\ UNCHANGED <<runVars, holder, waiters, ahead, revoked, watched, sweeping,
                 driving, shot, moved>>

\* ensureFocusAway is done.
Aim(r) ==
  /\ phase[r] = "focusing"
  /\ phase' = [phase EXCEPT ![r] = "aiming"]
  /\ Touch(r)
  /\ UNCHANGED <<runVars, holder, waiters, ahead, revoked, watched, sweeping,
                 driving, shot, moved, inside>>

\* Eaon's windows are hidden: perform() posts the input, a slice of it when
\* it is text. Other runs' screenshots no longer show the screen.
Send(r) ==
  /\ phase[r] = "aiming"
  /\ phase' = [phase EXCEPT ![r] = "sending"]
  /\ moved' = moved \cup (shot \ {r})
  /\ UNCHANGED <<runVars, leaseVars, driving, shot, news, inside>>

\* between(): the lease is looked at again before the next slice of text.
More(r) ==
  /\ phase[r] = "sending" /\ holder = r
  /\ phase' = [phase EXCEPT ![r] = "aiming"]
  /\ UNCHANGED <<runVars, leaseVars, driving, screenVars, inside>>

\* The action is done and, unless the call asked for none, photographed.
Finish(r) ==
  /\ phase[r] = "sending"
  /\ phase' = [phase EXCEPT ![r] = "ready"]
  /\ inside' = None
  /\ idle' = (idle /\ holder # r)
  /\ \/ news' = Noted(r) /\ UNCHANGED <<shot, moved>>
     \/ /\ news' = [Noted(r) EXCEPT ![r] = {}]
        /\ shot' = shot \cup {r} /\ moved' = moved \ {r}
  /\ UNCHANGED <<runVars, holder, waiters, ahead, revoked, watched, sweeping,
                 driving>>

\* Focus could not be given back, the backend failed, input was interrupted,
\* the signal fired in a sleep, or between() found the lease gone.
Fail(r) ==
  /\ phase[r] \in Acting
  /\ phase' = [phase EXCEPT ![r] = "ready"]
  /\ inside' = None
  /\ UNCHANGED <<runVars, leaseVars, driving, screenVars>>

-----------------------------------------------------------------------------

LeaseStep(r) == Acquire(r) \/ TimeOut(r)

RunStep(r) == Start(r) \/ End(r) \/ Stop(r)

ToolStep(r) ==
  \/ Look(r) \/ Call(r) \/ Decline(r) \/ Proceed(r) \/ Enter(r)
  \/ Aim(r) \/ Send(r) \/ More(r) \/ Finish(r) \/ Fail(r)

Next ==
  \/ \E r \in Runs : LeaseStep(r) \/ RunStep(r) \/ ToolStep(r)
  \/ Sweep \/ Idle \/ TakeBack \/ Poll \/ Dispose

\* Timers fire: a waiter's own timeout and the sweep's interval.
Fairness ==
  /\ \A r \in Runs : WF_vars(TimeOut(r))
  /\ WF_vars(Sweep)

Spec == Init /\ [][Next]_vars /\ Fairness

-----------------------------------------------------------------------------
(* Properties.                                                             *)

TypeOK ==
  /\ phase \in [Runs -> Phases]
  /\ live \subseteq Runs /\ aborted \subseteq Runs
  /\ holder \in Runs \cup {None} /\ idle \in BOOLEAN
  /\ waiters \subseteq Runs /\ ahead \in [Runs -> SUBSET Runs]
  /\ revoked \subseteq Runs /\ watched \subseteq Runs
  /\ sweeping \in BOOLEAN /\ driving \subseteq Runs
  /\ shot \subseteq Runs /\ news \in [Runs -> SUBSET Runs]
  /\ moved \subseteq Runs /\ inside \in Runs \cup {None}

\* No run waits for a computer nobody has: every way the lease is let go
\* (abort, sweep, a newcomer's own sweep) hands it on, and the sweep that
\* looks after holder and waiters is set as long as there are any.
NobodyWaitsForNobody ==
  /\ waiters # {} => holder # None
  /\ holder # None => sweeping

\* The array and the calls agree: a call is parked in acquire exactly while
\* its waiter is in the array, so no answer is lost and none given twice; the
\* holder is never also waiting behind itself.
WaitersAreParked ==
  /\ waiters = {r \in Runs : phase[r] = "waiting"}
  /\ holder \notin waiters

\* Nobody who waits is lost: there is someone to wait for and a sweep that looks
\* after both, and each parked call has its place in the array.
NoWaiterIsLost == NobodyWaitsForNobody /\ WaitersAreParked

\* The lease is a line for one thing: read as who stands before whom, the array
\* only loses runs, gains one at the end, or hands the lease to its front.
Queue == INSTANCE LeaseQueue WITH
  line <- waiters, before <- {p \in waiters \X waiters : p[1] \in ahead[p[2]]}

IsQueue == Queue!Spec

\* A run the user took the computer back from neither has it nor waits for it.
TakenBack == revoked \cap (waiters \cup {holder}) = {}

\* A stopped run has let go at once, not at the next sweep: it is not the
\* holder and not in the array.
StoppedLetsGo == aborted \cap (waiters \cup {holder}) = {}

\* Taken back or stopped, a run is off the computer at once, wherever its call
\* stood (revoke, the abort listeners).
OffAtOnce == TakenBack /\ StoppedLetsGo

\* The emergency stop, which ends the driving runs only, would end every
\* run that is going and has the computer or waits for it.
EmergencyStopReaches == live \cap (waiters \cup {holder}) \subseteq driving

\* Once control is taken back from a run that is not in the middle of an
\* action, that run never gets another action under way.
TakenBackForTheRun ==
  \A r \in Runs : [](r \in revoked /\ phase[r] \notin Acting
                       => [](phase[r] \notin Acting))

\* "The longest-waiting run that is still going gets the computer": when the
\* lease changes hands, no other run that was waiting and is still going has
\* waited longer, and nobody who just came takes it past those who waited.
LongestWaiting ==
  [][holder' \notin {holder, None} =>
       \A s \in (waiters \cap live \cap live') \ {holder'} :
          holder' \in waiters /\ s \notin ahead[holder']]_vars

\* A wait is bounded: the holder lets go, the timer fires, or the run is told.
WaitIsBounded == \A r \in Runs : r \in waiters ~> r \notin waiters

\* A run that ended, however it ended, does not keep the computer.
EndedLetsGo == \A r \in Runs :
  (holder = r /\ r \notin live) ~> holder # r

\* The lease moves on: nobody waits for good and nobody who ended keeps it.
LeaseMovesOn == WaitIsBounded /\ EndedLetsGo

\* "A run must hold this lease to send input": input goes out only for the
\* run the lease is with at that moment.
InputUnderLease ==
  [][\A r \in Runs :
       phase[r] = "aiming" /\ phase'[r] = "sending" => holder = r]_vars

\* "If anyone else acted on the screen after this chat's last screenshot, the
\* coordinates the model has are out of date: it must look again first": no
\* input goes out on a screenshot another run's input has overtaken.
ActsOnWhatItSaw ==
  [][\A r \in Runs :
       phase[r] = "aiming" /\ phase'[r] = "sending" => r \notin moved]_vars

=============================================================================
