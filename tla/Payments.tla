-------------------------------- MODULE Payments --------------------------------
(***************************************************************************)
(* The agent spending money (src/main/features/payments): what it may pay  *)
(* without asking, what counts against the day's limit, and an order of a  *)
(* purchase schedule (the scheduler's or a worker's) whose run a quit or a *)
(* crash cuts off.                                                         *)
(*                                                                         *)
(* Each call saves payments.json before it returns, so the records on disk *)
(* are those in memory.  The store is outside: an order it was sent is     *)
(* placed or refused at any later time.  It charges what was authorized,   *)
(* and the agent reports what the store did; a second press on autopilot   *)
(* comes only after a refusal.  One currency and one limit, fixed; a card  *)
(* that is removed is payments turned off, and the waiver is what lets     *)
(* them be automatic.                                                      *)
(***************************************************************************)
EXTENDS Integers, FiniteSets

CONSTANTS
  Purchases,     \* the records there may be
  Chats,         \* the chats the user starts
  Amounts,       \* what they may pay
  OrderAmounts,  \* what an order of the purchase schedule may come to
  DailyLimit,
  MaxDay         \* the last day

ASSUME AmountAssumption ==
  /\ Amounts \subseteq Nat \ {0} /\ OrderAmounts \subseteq Nat
  /\ DailyLimit \in Nat /\ MaxDay \in Nat

VARIABLES
  up,        \* the app runs
  mode,      \* off (also without a card), approve or auto (under the waiver)
  day,
  purchase,  \* the records
  asking,    \* a chat's authorize call: none, asked the user or not
  run,       \* the purchase schedule's run: none, the slot's or its retry
  started,   \* the slot's run was begun
  used,      \* the run's grant is used
  cutOff,    \* it was cut off, and launch has not looked at it yet
  order      \* what the store knows of a purchase

plan == <<run, started, used, cutOff>>
vars == <<up, mode, day, purchase, asking, plan, order>>

-----------------------------------------------------------------------------
(* Records.                                                                *)

NoPurchase == [status |-> "none", how |-> "auto", amount |-> 0, typed |-> FALSE,
               submitted |-> FALSE, expired |-> FALSE, day |-> 0]

mayHaveCharged(p) == p.status = "paid" \/ p.typed \/ p.submitted

\* What a purchase counts against the limit: what it charged or may have.
counted(p) ==
  IF \/ p.status \in {"none", "failed", "cancelled"}
     \/ p.status = "authorized" /\ ~p.typed /\ ~p.submitted /\ p.expired
  THEN 0 ELSE p.amount

\* A sum over a set: of each member, as many units as amount says.
Units(amount, S) == UNION {{i} \X (1 .. amount[i]) : i \in S}
Total(amount, S) == Cardinality(Units(amount, S))

SpentToday ==
  Total([i \in Purchases |-> counted(purchase[i])], {i \in Purchases : purchase[i].day = day})

\* assess: whether the user is asked.
NeedsUser(amount) == mode # "auto" \/ SpentToday + amount > DailyLimit

-----------------------------------------------------------------------------
(* The user's settings.                                                    *)

\* setMode, setCard, removeCard, acceptWaiver and revokeWaiver.
SetMode ==
  /\ up /\ mode' \in {"off", "approve", "auto"}
  /\ UNCHANGED <<up, day, purchase, asking, plan, order>>

-----------------------------------------------------------------------------
(* Paying.                                                                 *)

Record(i, how, amount) ==
  /\ purchase[i].status = "none"
  /\ purchase' = [purchase EXCEPT ![i] =
       [NoPurchase EXCEPT !.status = "authorized", !.how = how, !.amount = amount,
                          !.day = day]]

\* The permission policy asks the tool, once, whether the user must say yes.
Ask(c, amount) ==
  /\ up /\ asking[c].how = "none"
  /\ asking' = [asking EXCEPT ![c] =
       [how |-> IF NeedsUser(amount) THEN "approved" ELSE "auto", amount |-> amount]]
  /\ UNCHANGED <<up, mode, day, purchase, plan, order>>

Answered(c) == asking' = [asking EXCEPT ![c] = [how |-> "none", amount |-> 0]]

\* Bug: it fitted when the call was looked at.
Authorize_NotAgain(c) ==
  /\ up /\ asking[c].how # "none" /\ mode # "off" /\ Answered(c)
  /\ \E i \in Purchases : Record(i, asking[c].how, asking[c].amount)
  /\ UNCHANGED <<up, mode, day, plan, order>>

\* authorize, once the user has said yes if asked: an automatic purchase must
\* still fit.
Authorize(c) ==
  /\ up /\ asking[c].how # "none" /\ mode # "off" /\ Answered(c)
  /\ asking[c].how = "auto" => ~NeedsUser(asking[c].amount)
  /\ \E i \in Purchases : Record(i, asking[c].how, asking[c].amount)
  /\ UNCHANGED <<up, mode, day, plan, order>>

\* The user says no, payments are off by now, or it fits no more.
Refuse(c) ==
  /\ up /\ asking[c].how # "none" /\ Answered(c)
  /\ UNCHANGED <<up, mode, day, purchase, plan, order>>

\* authorize in the schedule's run, under the grant the schedule is; a free
\* order needs no card.
AuthorizeOrder(i, amount) ==
  /\ up /\ run # "none" /\ ~used /\ used' = TRUE
  /\ mode # "off" \/ amount = 0
  /\ Record(i, "scheduled", amount)
  /\ UNCHANGED <<up, mode, day, asking, run, started, cutOff, order>>

\* The chat of the purchase is at work: the schedule's, while its run goes on.
AtWork(i) == up /\ (purchase[i].how = "scheduled" => run # "none")

\* usable.
Live(i) == AtWork(i) /\ purchase[i].status = "authorized" /\ ~purchase[i].expired

\* fill: recorded before the first key.
Fill(i) ==
  /\ Live(i) /\ mode # "off"
  /\ purchase' = [purchase EXCEPT ![i].typed = TRUE]
  /\ UNCHANGED <<up, mode, day, asking, plan, order>>

\* The press of the order button needs nobody: the first, which claims the
\* authorization, and on autopilot another when the store refused it.
MayPress(i) ==
  \/ ~purchase[i].submitted /\ order[i] = "none"
  \/ purchase[i].how = "scheduled" /\ order[i] = "refused"

\* claimSpendingClick, or openPlanOrder and notePlanPress on autopilot: recorded
\* before it is made.
Press(i) ==
  /\ Live(i) /\ (mode # "off" \/ purchase[i].amount = 0) /\ MayPress(i)
  /\ purchase' = [purchase EXCEPT ![i].submitted = TRUE]
  /\ order' = [order EXCEPT ![i] = "sent"]
  /\ UNCHANGED <<up, mode, day, asking, plan>>

\* The store answers, whatever became of the run.
Store(i) ==
  /\ order[i] = "sent" /\ \E how \in {"placed", "refused"} : order' = [order EXCEPT ![i] = how]
  /\ UNCHANGED <<up, mode, day, purchase, asking, plan>>

\* complete: also after the authorization ran out.
Complete(i) ==
  /\ AtWork(i) /\ purchase[i].status = "authorized" /\ order[i] # "sent"
  /\ purchase' = [purchase EXCEPT ![i].status =
                    IF order[i] = "placed" THEN "paid" ELSE "failed"]
  /\ UNCHANGED <<up, mode, day, asking, plan, order>>

\* Twenty minutes pass.
Expire(i) ==
  /\ purchase[i].status = "authorized" /\ ~purchase[i].expired
  /\ purchase' = [purchase EXCEPT ![i].expired = TRUE]
  /\ UNCHANGED <<up, mode, day, asking, plan, order>>

NewDay ==
  /\ day < MaxDay /\ day' = day + 1
  /\ UNCHANGED <<up, mode, purchase, asking, plan, order>>

-----------------------------------------------------------------------------
(* The schedule's run and the app.                                         *)

StartRun ==
  /\ up /\ ~started /\ started' = TRUE /\ run' = "slot" /\ used' = FALSE
  /\ UNCHANGED <<up, mode, day, purchase, asking, cutOff, order>>

\* Bug: the grant is left behind.
EndRun_KeepsGrant ==
  /\ up /\ run # "none" /\ run' = "none"
  /\ UNCHANGED <<up, mode, day, purchase, asking, started, used, cutOff, order>>

\* endRun.
EndRun ==
  /\ up /\ run # "none" /\ run' = "none" /\ used' = FALSE
  /\ UNCHANGED <<up, mode, day, purchase, asking, started, cutOff, order>>

\* The app quits or crashes.
End ==
  /\ up /\ up' = FALSE
  /\ asking' = [c \in Chats |-> [how |-> "none", amount |-> 0]]
  /\ run' = "none" /\ used' = FALSE /\ cutOff' = (cutOff \/ run = "slot")
  /\ UNCHANGED <<mode, day, purchase, started, order>>

\* Bug: what was left is cancelled, used or not.
Settle_All(p) ==
  IF p.status # "authorized" THEN p ELSE [p EXCEPT !.status = "cancelled"]

\* settleAbandoned, of one record.
Settle(p) ==
  IF p.status # "authorized" THEN p
  ELSE IF mayHaveCharged(p) THEN [p EXCEPT !.expired = TRUE]
  ELSE [p EXCEPT !.status = "cancelled"]

Launch ==
  /\ ~up /\ up' = TRUE /\ purchase' = [i \in Purchases |-> Settle(purchase[i])]
  /\ UNCHANGED <<mode, day, asking, plan, order>>

\* Bug: only a purchase that was paid counts.
mayHaveBought_Paid ==
  \E i \in Purchases : purchase[i].how = "scheduled" /\ purchase[i].status = "paid"

\* mayHaveBoughtSince: the schedule's purchases since its run started.
mayHaveBought ==
  \E i \in Purchases : purchase[i].how = "scheduled" /\ mayHaveCharged(purchase[i])

\* resumeCutOffPurchases.
Resume ==
  /\ up /\ cutOff /\ cutOff' = FALSE
  /\ \/ run = "none" /\ ~mayHaveBought /\ run' = "retry" /\ used' = FALSE
     \/ UNCHANGED <<run, used>>
  /\ UNCHANGED <<up, mode, day, purchase, asking, started, order>>

-----------------------------------------------------------------------------

Init ==
  /\ up = TRUE /\ mode = "off" /\ day = 0
  /\ purchase = [i \in Purchases |-> NoPurchase]
  /\ asking = [c \in Chats |-> [how |-> "none", amount |-> 0]]
  /\ run = "none" /\ started = FALSE /\ used = FALSE /\ cutOff = FALSE
  /\ order = [i \in Purchases |-> "none"]

Next ==
  \/ SetMode \/ NewDay
  \/ \E c \in Chats : (\E a \in Amounts : Ask(c, a)) \/ Authorize(c) \/ Refuse(c)
  \/ \E i \in Purchases : \/ \E a \in OrderAmounts : AuthorizeOrder(i, a)
                          \/ Fill(i) \/ Press(i) \/ Store(i) \/ Complete(i) \/ Expire(i)
  \/ StartRun \/ EndRun \/ End \/ Launch \/ Resume

Spec == Init /\ [][Next]_vars

-----------------------------------------------------------------------------
(* Properties.                                                             *)

Statuses == {"none", "authorized", "paid", "failed", "cancelled"}
Hows == {"auto", "approved", "scheduled"}
PurchaseRecord ==
  [status : Statuses, how : Hows, amount : Nat, typed : BOOLEAN, submitted : BOOLEAN,
   expired : BOOLEAN, day : Nat]

\* Only a run that goes on, of an app that runs, has used its grant.
TypeOK ==
  /\ up \in BOOLEAN /\ mode \in {"off", "approve", "auto"}
  /\ day \in Nat /\ purchase \in [Purchases -> PurchaseRecord]
  /\ asking \in [Chats -> [how : {"none", "auto", "approved"}, amount : Nat]]
  /\ run \in {"none", "slot", "retry"} /\ {started, used, cutOff} \subseteq BOOLEAN
  /\ used => run # "none"
  /\ run # "none" => up
  /\ order \in [Purchases -> {"none", "sent", "placed", "refused"}]

\* What the store was sent and did not refuse counts against the limit,
\* whatever expires, quits or crashes: nothing that was charged, or may yet be,
\* is written off.
ChargesCount ==
  \A i \in Purchases : order[i] \in {"sent", "placed"} => counted(purchase[i]) = purchase[i].amount

\* The purchases nobody was asked about that are made on one day stay within
\* the day's limit, however many chats pay at once.
WithinDailyLimit ==
  \A d \in 0 .. MaxDay :
    Total([i \in Purchases |-> purchase[i].amount],
          {i \in Purchases : /\ purchase[i].how = "auto" /\ purchase[i].day = d
                             /\ order[i] \in {"sent", "placed"}}) <= DailyLimit

Ordered(i) == purchase[i].how = "scheduled" /\ order[i] \in {"sent", "placed"}

\* The schedule's order is placed once at most, although its run is made again
\* when a quit or a crash cuts it off.
NeverBoughtTwice ==
  \A i, j \in Purchases : Ordered(i) /\ Ordered(j) => i = j

\* "Withdraws the acceptance; automatic purchases stop at once."
RevokedStops ==
  [][\A i \in Purchases : purchase[i].how = "auto" /\ order'[i] = "sent" /\ order[i] # "sent"
                            => mode = "auto"]_vars

=============================================================================
