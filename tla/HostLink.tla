------------------------------- MODULE HostLink -------------------------------
(***************************************************************************)
(* The desktop's end of the link to its worker computer                    *)
(* (src/src/main/workerHost/client.ts): one attempt at a time connects and *)
(* says hello, a closed connection or a failed attempt schedules another   *)
(* with a growing pause, and the user may start, stop, change the address  *)
(* or try again whatever the attempt is doing.                             *)
(*                                                                         *)
(* connectOnce is cut where it awaits: "dialing" (connect), "hello" (the   *)
(* first call) and "taking" (onConnected, which syncs, updates and resumes *)
(* the workers there).  Pauses and time limits are abstract: a timer that  *)
(* is set may fire at any time.  Only `attempt`, the index into the        *)
(* pauses, is kept; error texts and the hello's content are not.           *)
(***************************************************************************)
EXTENDS Naturals

CONSTANTS
  Addresses,  \* where a worker computer may be
  None,
  Pauses      \* the number of retry pauses

ASSUME AddressesAssumption == None \notin Addresses
ASSUME PausesAssumption == Pauses \in Nat \ {0}

VARIABLES
  target,      \* the configured address, None when no computer is linked
  running,     \* start() was called, stop() was not
  connection,  \* what the app shows
  peer,        \* this.peer: the address of the open connection, or None
  timer,       \* a retry is scheduled
  attempt,     \* retries since the last connection or reset
  step,        \* where the attempt in flight (this.connecting) is
  dialed,      \* the address it took from target()
  joined,      \* the last tryConnect was handed the attempt in flight
  up           \* addresses where a worker computer answers

vars == <<target, running, connection, peer, timer, attempt, step, dialed,
          joined, up>>

Init ==
  /\ target \in Addresses \cup {None}
  /\ running = FALSE /\ connection = "offline" /\ peer = None
  /\ timer = FALSE /\ attempt = 0
  /\ step = "none" /\ dialed = None /\ joined = FALSE
  /\ up \in SUBSET Addresses

-----------------------------------------------------------------------------
(* What the handlers share.                                                *)

\* The first lines of connectOnce, once it has a target.
Dial(to) ==
  /\ step' = "dialing" /\ dialed' = to /\ joined' = FALSE
  /\ connection' = IF connection = "updating" THEN "updating" ELSE "connecting"

\* tryConnect, with running = on and target() = to: the attempt in flight,
\* or a new one.
TryConnect(on, to) ==
  \/ /\ step # "none"
     /\ joined' = TRUE /\ UNCHANGED <<step, dialed, connection>>
  \/ step = "none" /\ on /\ to # None /\ Dial(to)
  \/ /\ step = "none" /\ ~(on /\ to # None)
     /\ UNCHANGED <<step, dialed, joined, connection>>

\* Bug: nothing is scheduled once the pauses are used up.
Schedule_GivesUp ==
  IF running /\ ~timer /\ attempt < Pauses - 1
  THEN timer' = TRUE /\ attempt' = attempt + 1
  ELSE UNCHANGED <<timer, attempt>>

\* Bug: the index runs past the last pause.
Schedule_PastTheEnd ==
  IF running /\ ~timer THEN timer' = TRUE /\ attempt' = attempt + 1
  ELSE UNCHANGED <<timer, attempt>>

\* schedule(); the index stays at the last pause.
Schedule ==
  IF running /\ ~timer
  THEN /\ timer' = TRUE
       /\ attempt' = IF attempt < Pauses - 1 THEN attempt + 1 ELSE attempt
  ELSE UNCHANGED <<timer, attempt>>

-----------------------------------------------------------------------------
(* The user and the feature.                                               *)

Start ==
  /\ ~running /\ running' = TRUE
  /\ attempt' = 0
  /\ TryConnect(TRUE, target)
  /\ UNCHANGED <<target, peer, timer, up>>

\* stop(); with the computer unlinked, target() is null from then on.
Stop ==
  /\ running' = FALSE
  /\ timer' = FALSE /\ peer' = None /\ connection' = "offline"
  /\ target' \in {target, None}
  /\ UNCHANGED <<attempt, step, dialed, joined, up>>

\* Bug: the open connection is not dropped first.
Reconnect_KeepsPeer ==
  /\ running' = TRUE /\ attempt' = 0
  /\ timer' = FALSE /\ UNCHANGED peer
  /\ \E to \in Addresses : target' = to /\ TryConnect(TRUE, to)
  /\ UNCHANGED up

\* reconnect(), for "Try again", a new address and a computer just linked;
\* started if stopped.
Reconnect ==
  /\ running' = TRUE /\ attempt' = 0
  /\ IF running THEN timer' = FALSE /\ peer' = None
                ELSE UNCHANGED <<timer, peer>>
  /\ \E to \in Addresses : target' = to /\ TryConnect(TRUE, to)
  /\ UNCHANGED up

\* pushUpdate, from onConnected or from the settings.
SetUpdating ==
  /\ connection = "connected" /\ peer # None
  /\ connection' = "updating"
  /\ UNCHANGED <<target, running, peer, timer, attempt, step, dialed, joined,
                 up>>

-----------------------------------------------------------------------------
(* The attempt.                                                            *)

\* connect() resolved.  Stopped meanwhile, the socket is closed again.
DialOk ==
  /\ step = "dialing" /\ dialed \in up
  /\ IF running THEN peer' = dialed /\ attempt' = 0 /\ step' = "hello"
                ELSE step' = "none" /\ UNCHANGED <<peer, attempt>>
  /\ UNCHANGED <<target, running, connection, timer, dialed, joined, up>>

\* connect() was refused or timed out.  An update in progress is given time
\* (UPDATE_GRACE_MS) before it counts as gone.
DialFail ==
  /\ step = "dialing" /\ dialed \notin up
  /\ step' = "none"
  /\ IF running
     THEN /\ connection' \in (IF connection = "updating"
                              THEN {"updating", "offline"} ELSE {"offline"})
          /\ Schedule
     ELSE UNCHANGED <<connection, timer, attempt>>
  /\ UNCHANGED <<target, running, peer, dialed, joined, up>>

\* The host answered hello, which it can only on a connection still open.
HelloOk ==
  /\ step = "hello" /\ peer # None
  /\ step' = "taking" /\ connection' = "connected"
  /\ UNCHANGED <<target, running, peer, timer, attempt, dialed, joined, up>>

\* hello timed out, or the connection closed under it.
HelloFail ==
  /\ step = "hello"
  /\ step' = "none"
  /\ UNCHANGED <<target, running, connection, peer, timer, attempt, dialed,
                 joined, up>>

\* onConnected is done, or failed.
TakeDone ==
  /\ step = "taking"
  /\ step' = "none"
  /\ UNCHANGED <<target, running, connection, peer, timer, attempt, dialed,
                 joined, up>>

\* The pause is over.
Retry ==
  /\ timer
  /\ timer' = FALSE
  /\ TryConnect(running, target)
  /\ UNCHANGED <<target, running, peer, attempt, up>>

\* Bug: the state is shown, and that is all.
PeerCloses_NoRetry ==
  /\ peer # None
  /\ peer' = None
  /\ connection' = IF connection = "updating" THEN "updating" ELSE "offline"
  /\ UNCHANGED <<target, running, timer, attempt, step, dialed, joined, up>>

\* The connection closes: the host restarts or is unplugged, a frame does not
\* open, two pings are missed.
PeerCloses ==
  /\ peer # None
  /\ peer' = None
  /\ connection' = IF connection = "updating" THEN "updating" ELSE "offline"
  /\ Schedule
  /\ UNCHANGED <<target, running, step, dialed, joined, up>>

\* Worker computers come and go on the network.
HostChanges ==
  /\ up' \in SUBSET Addresses
  /\ UNCHANGED <<target, running, connection, peer, timer, attempt, step,
                 dialed, joined>>

-----------------------------------------------------------------------------

User == Start \/ Stop \/ Reconnect \/ SetUpdating

Attempt == DialOk \/ DialFail \/ HelloOk \/ HelloFail \/ TakeDone

Next == User \/ Attempt \/ Retry \/ PeerCloses \/ HostChanges

\* Awaited promises settle (connect and every call have a time limit) and
\* timers fire.
Fairness == WF_vars(Attempt) /\ WF_vars(Retry)

Spec == Init /\ [][Next]_vars /\ Fairness

-----------------------------------------------------------------------------
(* Properties.                                                             *)

TypeOK ==
  /\ target \in Addresses \cup {None} /\ running \in BOOLEAN
  /\ connection \in {"offline", "connecting", "connected", "updating"}
  /\ peer \in Addresses \cup {None} /\ timer \in BOOLEAN
  /\ attempt \in 0 .. Pauses - 1
  /\ step \in {"none", "dialing", "hello", "taking"}
  /\ dialed \in Addresses \cup {None}
  /\ joined \in BOOLEAN /\ up \subseteq Addresses

\* A stopped link is down and stays down: no connection and no retry are left
\* behind by an attempt that was in flight when stop was called.
StoppedIsDown == ~running => peer = None /\ ~timer

\* Two connections are never up at once (connectOnce overwrites this.peer):
\* nothing that would open one is in flight or scheduled beside an open one.
OneSocket == (step = "dialing" \/ timer) => peer = None

\* However starts, stops and attempts cross, no connection is leaked: none is
\* left after a stop and none is opened over another.
NoSocketLeaked == StoppedIsDown /\ OneSocket

\* A link that should be up is up, being tried, or scheduled, but for a try
\* that was handed an attempt already in flight.
AlwaysTrying ==
  running /\ target # None /\ peer = None /\ step = "none" => timer \/ joined

\* The app shows "connected" only over a connection, with the same exception.
ShowsTheLink == connection = "connected" => peer # None \/ joined

\* The link leads where the settings say, with the same exception.
LeadsToTarget == peer # None => peer = target \/ joined

\* A link that should be up is up with the computer the settings name, and shown
\* so, or on its way there; all but for a try handed an attempt in flight.
LinkIsSound == AlwaysTrying /\ ShowsTheLink /\ LeadsToTarget

\* The worker computer at the address set is there and the user leaves the
\* link on: then it is connected again and again, whatever closes it, unless
\* a try was lost to an attempt in flight.
ComesBack ==
  <>[](running /\ target \in up /\ ~joined) => []<>(peer # None)

\* "connects, stays connected (trying again with a growing pause when the
\* computer is off or unplugged)": from when the computer stays reachable and
\* the user leaves the link alone, whatever came before.
StaysConnected ==
  <>[](running /\ target \in up) /\ <>[][~User /\ ~HostChanges]_vars
    => []<>(peer # None)

\* "Drops the connection and connects again at once (a new address, or 'Try
\* again')": a connected link is with the computer at the address set.
NewAddressTaken == connection = "connected" /\ peer # None => peer = target

=============================================================================
