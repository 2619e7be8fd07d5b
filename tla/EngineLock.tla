------------------------------ MODULE EngineLock ------------------------------
(***************************************************************************)
(* Which CLI session runs the workers and trading engines                  *)
(* (src/cli/src/bus/bus.ts, src/cli/src/runtime/engines.ts).  Sessions are *)
(* processes of one machine that share a lock file and a folder of         *)
(* registrations; every operation on a file is a step of its own.          *)
(*                                                                         *)
(* A session lives once.  The file is opened with `wx` and then written, so *)
(* it is empty in between; a session whose file was removed writes to a    *)
(* file nobody sees.  Waits are abstract: whoever waits may go on.         *)
(***************************************************************************)
EXTENDS Integers

CONSTANTS Sessions, None

ASSUME NoneAssumption == None \notin Sessions

VARIABLES
  lock,        \* engines.lock: who created it and whether it is written yet
  young,       \* it was written less than the grace period ago
  registered,  \* the sessions with a file on the bus
  pc,          \* what each session is doing
  joined,      \* it has tried to attach once, so a lost claim settles it
  attempt,     \* of the two a claim makes
  seen,        \* the lock it looked at and is about to remove
  follows,     \* the session an attached one is subscribed to
  channels,    \* it has stand-ins for the owner's channels
  cleared      \* a lock was removed that was not the one looked at, or was
               \* just being written

links == <<follows, channels>>
claim == <<joined, attempt, seen>>
vars == <<lock, young, registered, pc, claim, links, cleared>>

NoLock == [by |-> None, written |-> FALSE]

Init ==
  /\ lock = NoLock /\ young = FALSE /\ registered = {}
  /\ pc = [s \in Sessions |-> "off"]
  /\ joined = [s \in Sessions |-> FALSE]
  /\ attempt = [s \in Sessions |-> 1]
  /\ seen = [s \in Sessions |-> NoLock]
  /\ follows = [s \in Sessions |-> None]
  /\ channels = [s \in Sessions |-> FALSE]
  /\ cleared = FALSE

isAlive(s) == pc[s] \notin {"off", "gone"}

-----------------------------------------------------------------------------
(* Reading the lock.                                                       *)

\* Bug: only the age of the lock is looked at.
Holder_ByAge(s) ==
  IF /\ lock.written /\ isAlive(lock.by)
     /\ lock.by = s \/ young
  THEN lock.by ELSE None

\* readEngineLock, by session s: the live holder, or None.
Holder(s) ==
  IF /\ lock.written /\ isAlive(lock.by)
     /\ lock.by = s \/ young \/ lock.by \in registered
  THEN lock.by ELSE None

\* BusNode.owner.
Owner(s) == IF Holder(s) \in registered \ {s} THEN Holder(s) ELSE None

-----------------------------------------------------------------------------
(* claimEngines.                                                           *)

Goes(s, to) == pc' = [pc EXCEPT ![s] = to]

\* The claim failed: on joining the session tries to attach, otherwise it
\* counts as attached.
Lost(s) == Goes(s, IF joined[s] THEN "attached" ELSE "attaching")

\* openSync with `wx`.
Create(s) ==
  /\ pc[s] = "creating"
  /\ IF lock = NoLock
     THEN lock' = [by |-> s, written |-> FALSE] /\ Goes(s, "writing")
     ELSE UNCHANGED lock /\ Goes(s, "judging")
  /\ UNCHANGED <<young, registered, claim, links, cleared>>

\* writeSync; the claim succeeded.
Write(s) ==
  /\ pc[s] = "writing" /\ Goes(s, "booting")
  /\ IF lock.by = s
     THEN lock' = [by |-> s, written |-> TRUE] /\ young' = TRUE
     ELSE UNCHANGED <<lock, young>>
  /\ UNCHANGED <<registered, claim, links, cleared>>

\* The file was there: who holds it?
Judge(s) ==
  /\ pc[s] = "judging"
  /\ CASE Holder(s) = None -> Goes(s, "clearing")
       [] Holder(s) = s -> Goes(s, "booting")
       [] OTHER -> Lost(s)
  /\ seen' = [seen EXCEPT ![s] = IF Holder(s) = None THEN lock ELSE NoLock]
  /\ UNCHANGED <<lock, young, registered, joined, attempt, links, cleared>>

\* rmSync, of whatever is there by now.
Remove(s) ==
  /\ lock' = NoLock /\ young' = FALSE
  /\ seen' = [seen EXCEPT ![s] = NoLock]
  /\ cleared' = (cleared \/ (lock # NoLock /\
                  (lock # seen[s] \/ (~lock.written /\ isAlive(lock.by)))))

\* Bug: the next claim does not start counting anew.
Clear_Counts(s) ==
  /\ pc[s] = "clearing" /\ Remove(s)
  /\ IF attempt[s] = 1 THEN Goes(s, "creating") ELSE Lost(s)
  /\ attempt' = [attempt EXCEPT ![s] = @ + 1]
  /\ UNCHANGED <<registered, joined, links>>

\* A lock nobody holds is removed, and the claim tried once more.
Clear(s) ==
  /\ pc[s] = "clearing" /\ Remove(s)
  /\ IF attempt[s] = 1 THEN Goes(s, "creating") ELSE Lost(s)
  /\ attempt' = [attempt EXCEPT ![s] = 3 - attempt[s]]
  /\ UNCHANGED <<registered, joined, links>>

Claim(s) == Create(s) \/ Write(s) \/ Judge(s) \/ Clear(s)

-----------------------------------------------------------------------------
(* Roles.                                                                  *)

\* BusNode.open, then joinEngines.
Open(s) ==
  /\ pc[s] = "off" /\ Goes(s, "creating")
  /\ registered' = registered \cup {s}
  /\ UNCHANGED <<lock, young, claim, links, cleared>>

\* startEngines and serveEngines are done; the stand-ins are gone.
BecomeOwner(s) ==
  /\ pc[s] = "booting" /\ Goes(s, "owner")
  /\ follows' = [follows EXCEPT ![s] = None]
  /\ channels' = [channels EXCEPT ![s] = FALSE]
  /\ UNCHANGED <<lock, young, registered, claim, cleared>>

\* attach with an owner that answers; one that is still starting answers that
\* it has no channels.
Attach(s) ==
  /\ pc[s] \in {"attaching", "taking over"} /\ Owner(s) # None
  /\ Goes(s, "attached")
  /\ follows' = [follows EXCEPT ![s] = Owner(s)]
  /\ channels' = [channels EXCEPT ![s] = channels[s] \/ pc[Owner(s)] = "owner"]
  /\ joined' = [joined EXCEPT ![s] = TRUE]
  /\ UNCHANGED <<lock, young, registered, attempt, seen, cleared>>

\* There is no owner, or a request to it fails: on joining once more after a
\* pause, otherwise the engines are claimed.
NotAttached(s) ==
  /\ pc[s] \in {"attaching", "taking over"}
  /\ Goes(s, IF joined[s] THEN "creating" ELSE "attaching")
  /\ joined' = [joined EXCEPT ![s] = TRUE]
  /\ follows' = [follows EXCEPT ![s] = IF Owner(s) # None THEN None ELSE @]
  /\ UNCHANGED <<lock, young, registered, attempt, seen, channels, cleared>>

\* The subscription ended with the session it went to.
Lapsed(s) == follows[s] # None /\ follows[s] \notin registered

\* Bug: only the subscription tells.
Watch_LinkOnly(s) ==
  /\ pc[s] = "attached" /\ Lapsed(s) /\ Goes(s, "taking over")
  /\ follows' = [follows EXCEPT ![s] = None]
  /\ UNCHANGED <<lock, young, registered, claim, channels, cleared>>

\* The watcher finds no owner, or the subscription ended, which is told once.
Watch(s) ==
  /\ pc[s] = "attached" /\ (Owner(s) = None \/ Lapsed(s))
  /\ Goes(s, "taking over")
  /\ follows' = [follows EXCEPT ![s] = IF Lapsed(s) THEN None ELSE @]
  /\ UNCHANGED <<lock, young, registered, claim, channels, cleared>>

-----------------------------------------------------------------------------
(* Leaving.                                                                *)

\* leaveEngines, in releaseEngines: is the lock its own?  An exit handler takes
\* the registration down first.
Leave(s) ==
  /\ pc[s] = "owner"
  /\ registered' \in {registered, registered \ {s}}
  /\ Goes(s, IF Holder(s) = s THEN "releasing" ELSE "closing")
  /\ seen' = [seen EXCEPT ![s] = IF Holder(s) = s THEN lock ELSE NoLock]
  /\ UNCHANGED <<lock, young, joined, attempt, links, cleared>>

\* Its rmSync.
Release(s) ==
  /\ pc[s] = "releasing" /\ Goes(s, "closing") /\ Remove(s)
  /\ UNCHANGED <<registered, joined, attempt, links>>

\* BusNode.close; the engines run until shutdown has stopped the features.
Close(s) ==
  /\ pc[s] = "closing" /\ Goes(s, "stopping")
  /\ registered' = registered \ {s}
  /\ UNCHANGED <<lock, young, claim, links, cleared>>

\* The process ends, at the end of shutdown or killed at any time; whoever
\* notices removes its files.
End(s) ==
  /\ isAlive(s) /\ Goes(s, "gone")
  /\ registered' = registered \ {s}
  /\ seen' = [seen EXCEPT ![s] = NoLock]
  /\ UNCHANGED <<lock, young, joined, attempt, links, cleared>>

\* LOCK_GRACE_MS is over.
Ages ==
  /\ young /\ young' = FALSE
  /\ UNCHANGED <<lock, registered, pc, claim, links, cleared>>

-----------------------------------------------------------------------------

Step(s) ==
  \/ Claim(s) \/ BecomeOwner(s) \/ Attach(s) \/ NotAttached(s) \/ Watch(s)
  \/ Release(s) \/ Close(s) \/ (pc[s] = "stopping" /\ End(s))

Next == \/ \E s \in Sessions : Open(s) \/ Step(s) \/ Leave(s) \/ End(s)
        \/ Ages

\* A live process goes on.
Fairness == \A s \in Sessions : WF_vars(Step(s))

Spec == Init /\ [][Next]_vars /\ Fairness

-----------------------------------------------------------------------------
(* Properties.                                                             *)

Lock == [by : Sessions \cup {None}, written : BOOLEAN]

TypeOK ==
  /\ lock \in Lock /\ young \in BOOLEAN /\ registered \subseteq Sessions
  /\ pc \in [Sessions -> {"off", "creating", "writing", "judging", "clearing",
                          "booting", "owner", "attaching", "attached",
                          "taking over", "releasing", "closing", "stopping",
                          "gone"}]
  /\ joined \in [Sessions -> BOOLEAN]
  /\ attempt \in [Sessions -> 1 .. 2] /\ seen \in [Sessions -> Lock]
  /\ follows \in [Sessions -> Sessions \cup {None}]
  /\ channels \in [Sessions -> BOOLEAN] /\ cleared \in BOOLEAN

\* The claim won, the engines started, not leaving.
Owns(s) == pc[s] \in {"booting", "owner"}

\* The session's engines run, until its features have shut down.
EnginesRun(s) == pc[s] \in {"booting", "owner", "releasing", "closing", "stopping"}

\* Two sessions own the engines only after a lock was removed that was not the
\* one looked at, or was just being written: no other order of claims, deaths,
\* exits and takeovers leads there.
OneOwnerUnlessCleared ==
  ~cleared => \A s, t \in Sessions : Owns(s) /\ Owns(t) => s = t

\* With the same exception the lock on disk names whoever owns the engines.
OwnerIsNamed ==
  ~cleared => \A s \in Sessions :
                Owns(s) => lock = [by |-> s, written |-> TRUE]

\* A leaving session removes its own lock or none, and leaves none of its own
\* behind for the others to find stale.
LeavesNoLock ==
  ~cleared => \A s \in Sessions :
                pc[s] \in {"closing", "stopping"} => lock.by # s

\* The lock tells who owns the engines: one session at most, the one it names,
\* and never one that is leaving; with the exception of OneOwnerUnlessCleared.
LockTellsOwner == OneOwnerUnlessCleared /\ OwnerIsNamed /\ LeavesNoLock

\* As long as a session stays, the engines come to run for good, however the
\* others die or leave.
EnginesComeBack ==
  \A s \in Sessions :
    <>[](pc[s] # "off" /\ isAlive(s) /\ ~(pc[s] \in {"releasing", "closing",
                                                     "stopping"}))
      => <>[](\E t \in Sessions : pc[t] = "owner")

\* "Creating the file with `wx` is atomic, so two sessions starting together
\* can't both win".
OneOwner == \A s, t \in Sessions : Owns(s) /\ Owns(t) => s = t

\* "so every terminal sees one desk and one team, never two": even when every
\* lock removed was the one looked at.
OneTeam ==
  ~cleared => \A s, t \in Sessions : EnginesRun(s) /\ EnginesRun(t) => s = t

\* An attached session "registers stand-ins for the owner's IPC channels that
\* forward over the bus": one that follows an owner has them.
AttachedHasChannels ==
  \A s, t \in Sessions :
    pc[s] = "attached" /\ follows[s] = t /\ pc[t] = "owner" => channels[s]

\* An attached session "re-emits the owner's events": while there is an owner
\* it is subscribed to it, or to one whose end it has yet to be told of.
AttachedFollows ==
  \A s \in Sessions :
    pc[s] = "attached" /\ Owner(s) # None => follows[s] # None

=============================================================================
