----------------------------- MODULE WorkQueue ------------------------------
(***************************************************************************)
(* The fair-share work queue of packages/services: src/aws/WorkQueue.ts    *)
(* over the SQS facade src/aws/Sqs.ts, with several consumers running      *)
(* receive() and ack() concurrently in one process, so that they share its *)
(* weighted token.                                                         *)
(*                                                                         *)
(* SQS itself is external: the priority queue is a standard queue, the     *)
(* fair queue a FIFO whose groups are the tenants.  A delivered message is *)
(* invisible until it is deleted or its visibility timeout passes.         *)
(*                                                                         *)
(* The token is a sum of doubles, and is one here: a weight is a whole     *)
(* number of units, One of which are 1, and a sum is rounded to a double.  *)
(***************************************************************************)
EXTENDS Integers, FiniteSets

CONSTANTS Consumers,    \* callers of receive()
          None,         \* no consumer
          Tenants,      \* fairness keys: the groups of the fair queue
          PerTenant,    \* fair messages each tenant ever submits
          Urgent,       \* priority messages; one may be submitted again once deleted
          Options,      \* the options a queue may be constructed with: is there a
                        \* priorityKey, and the fairWeight in units
          Whole,        \* the significands of a double: 2^53
          Half,         \* units between neighbouring doubles just below 1: half as
                        \* many as just above it
          Spacings,     \* units between neighbouring doubles anywhere below 2
          Window,       \* cycles after which the counters below start again
          MaxBatch      \* the max argument of receive()

One == Whole * Half

-----------------------------------------------------------------------------
(* The sum of two doubles, in units.                                       *)

\* The distance between neighbouring doubles around n.
Ulp(n) == CHOOSE s \in Spacings : /\ n < Whole * s
                                  /\ \A r \in Spacings : n < Whole * r => s <= r

\* The double nearest to n; of two, the one with the even significand.
Round(n) ==
  LET significand == n \div Ulp(n)
      rest        == n % Ulp(n)
      up == 2 * rest > Ulp(n) \/ (2 * rest = Ulp(n) /\ significand % 2 = 1)
  IN  (IF up THEN significand + 1 ELSE significand) * Ulp(n)

-----------------------------------------------------------------------------

ASSUME ConsumersAssumption == None \notin Consumers
ASSUME DoubleAssumption ==
  /\ Whole \in Nat /\ Whole >= 2 /\ Half \in Nat \ {0}
  /\ Spacings \subseteq Nat \ {0} /\ {Half, 2 * Half} \subseteq Spacings
  /\ \A r, s \in Spacings : r < s => 2 * r <= s
ASSUME OptionsAssumption ==
  /\ Options \subseteq [priorityKey : BOOLEAN, fairWeight : 0..One]
  /\ \A o \in Options : Round(o.fairWeight) = o.fairWeight
ASSUME WindowAssumption == Window \in Nat \ {0}
ASSUME LoadAssumption   == PerTenant \in Nat /\ MaxBatch \in Nat \ {0}
ASSUME KindsAssumption  == Urgent \cap (Tenants \X (1..PerTenant)) = {}

FairWork == Tenants \X (1..PerTenant)      \* <<tenant, place in its group>>
Message  == FairWork \cup Urgent

VARIABLES opts,     \* the options of this queue, which never change
          acc,      \* fairAccumulator, in units
          cycle,    \* cycles begun, modulo Window
          turns,    \* those of them that were the fair queue's
          stored,   \* messages in the two queues
          sent,     \* how many messages each tenant has submitted
          holder,   \* the consumer a message was last delivered to, None if visible
          pc,       \* where each consumer is in receive(), "idle", or "working"
          fairFirst,   \* the order its cycle has picked
          items     \* the items receive() returned to it and it has not acked

tokenVars == <<opts, acc, cycle, turns>>
queueVars == <<stored, sent, holder>>
callVars  == <<pc, fairFirst, items>>
vars == <<tokenVars, queueVars, callVars>>

Weight == opts.fairWeight

Init ==
  /\ opts \in Options
  /\ acc = 0 /\ cycle = 0 /\ turns = 0
  /\ stored = {} /\ sent = [t \in Tenants |-> 0]
  /\ holder = [m \in Message |-> None]
  /\ pc = [c \in Consumers |-> "idle"]
  /\ fairFirst = [c \in Consumers |-> FALSE]
  /\ items = [c \in Consumers |-> {}]

-----------------------------------------------------------------------------
(* SQS (external).                                                         *)

\* What one receive call on a queue may return: nothing that is in flight, at
\* most MaxBatch messages, and of a FIFO group a prefix, if none is in flight.
Deliverable(queue) ==
  {S \in SUBSET {m \in stored \cap queue : holder[m] = None} :
     /\ Cardinality(S) <= MaxBatch
     /\ queue = FairWork =>
          \A m \in S, n \in stored \cap FairWork :
            n[1] = m[1] => holder[n] = None /\ (n[2] < m[2] => n \in S)}

\* The visibility timeout passes: the message is redelivered, whatever the
\* consumer it was delivered to is doing with it.
Reappear(m) ==
  /\ m \in stored /\ holder[m] # None
  /\ holder' = [holder EXCEPT ![m] = None]
  /\ UNCHANGED <<tokenVars, stored, sent, callVars>>

-----------------------------------------------------------------------------
(* submit()                                                                *)

SubmitUrgent(m) ==
  /\ opts.priorityKey /\ m \notin stored
  /\ stored' = stored \cup {m}
  /\ holder' = [holder EXCEPT ![m] = None]
  /\ UNCHANGED <<tokenVars, sent, callVars>>

SubmitFair(t) ==
  /\ sent[t] < PerTenant
  /\ sent'   = [sent EXCEPT ![t] = @ + 1]
  /\ stored' = stored \cup {<<t, sent[t] + 1>>}
  /\ UNCHANGED <<tokenVars, holder, callVars>>

-----------------------------------------------------------------------------
(* receive()                                                               *)

\* Variant: the token is not kept between calls.
TurnForgets(c) ==
  /\ fairFirst' = [fairFirst EXCEPT ![c] = Weight >= One]
  /\ acc' = acc

\* Variant: a turn is not paid for.
TurnFree(c) ==
  LET sum == Round(acc + Weight)
  IN  /\ fairFirst' = [fairFirst EXCEPT ![c] = sum >= One]
      /\ acc' = IF sum >= One THEN One - Half ELSE sum

\* takeFairTurn(): of a sum from 1 to 2, 1 can be taken away exactly.
TakeFairTurn(c) ==
  \/ /\ Weight \in {0, One}
     /\ fairFirst' = [fairFirst EXCEPT ![c] = (Weight = One)]
     /\ acc' = acc
  \/ /\ Weight \notin {0, One}
     /\ LET sum == Round(acc + Weight)
        IN  /\ fairFirst' = [fairFirst EXCEPT ![c] = sum >= One]
            /\ acc' = IF sum >= One THEN sum - One ELSE sum

\* Cycles are counted where there is a share to keep, from 0 with every Window.
Count(c) ==
  IF Weight \in {0, One} \/ cycle + 1 = Window THEN cycle' = 0 /\ turns' = 0
  ELSE /\ cycle' = cycle + 1
       /\ turns' = IF fairFirst'[c] THEN turns + 1 ELSE turns

\* The call begins: without a priority queue it polls the fair one at once.
Receive(c) ==
  /\ pc[c] = "idle"
  /\ \/ /\ opts.priorityKey
        /\ TakeFairTurn(c) /\ Count(c)
        /\ pc' = [pc EXCEPT ![c] = "first"]
     \/ /\ ~opts.priorityKey
        /\ fairFirst' = [fairFirst EXCEPT ![c] = FALSE]
        /\ pc' = [pc EXCEPT ![c] = "second"]
        /\ UNCHANGED tokenVars
  /\ UNCHANGED <<opts, queueVars, items>>

\* The queue the present poll of c is on.
Polled(c) == IF (pc[c] = "first") = fairFirst[c] THEN FairWork ELSE Urgent

\* The call is over, and the order it picked forgotten.
Return(c, next) ==
  /\ pc' = [pc EXCEPT ![c] = next]
  /\ fairFirst' = [fairFirst EXCEPT ![c] = FALSE]

\* The poll returns messages.
PollDelivers(c) ==
  /\ pc[c] \in {"first", "second"}
  /\ \E S \in Deliverable(Polled(c)) \ {{}} :
       /\ holder' = [m \in Message |-> IF m \in S THEN c ELSE holder[m]]
       /\ items' = [items EXCEPT ![c] = S]
  /\ Return(c, "working")
  /\ UNCHANGED <<tokenVars, stored, sent>>

\* The poll finds nothing: fall back to the other queue, or return no items.  A
\* short poll asks some of the servers only and may miss what the others have.
PollEmpty(c) ==
  /\ \/ /\ pc[c] = "first"
        /\ pc' = [pc EXCEPT ![c] = "second"] /\ fairFirst' = fairFirst
     \/ /\ pc[c] = "second" /\ Deliverable(Polled(c)) = {{}}
        /\ Return(c, "idle")
  /\ UNCHANGED <<tokenVars, queueVars, items>>

\* The poll fails: receive() returns the error without the other queue.
PollFails(c) ==
  /\ pc[c] \in {"first", "second"}
  /\ Return(c, "idle")
  /\ UNCHANGED <<tokenVars, queueVars, items>>

-----------------------------------------------------------------------------
(* ack(), and what else a consumer may do with its items.                  *)

\* The item is processed and deleted from the queue it is tagged with.  The
\* receipt of a message that has reappeared is no longer good on the FIFO queue;
\* on the standard queue the delete may still succeed.
Ack(c, m) ==
  /\ m \in items[c]
  /\ items' = [items EXCEPT ![c] = @ \ {m}]
  /\ pc' = [pc EXCEPT ![c] = IF items'[c] = {} THEN "idle" ELSE @]
  /\ \/ stored' = stored \ {m} /\ (holder[m] = c \/ m \in Urgent)
     \/ stored' = stored /\ holder[m] # c
  /\ UNCHANGED <<tokenVars, sent, holder, fairFirst>>

\* The item is not acked: processing failed, or the delete did.
GiveUp(c, m) ==
  /\ m \in items[c]
  /\ items' = [items EXCEPT ![c] = @ \ {m}]
  /\ pc' = [pc EXCEPT ![c] = IF items'[c] = {} THEN "idle" ELSE @]
  /\ UNCHANGED <<tokenVars, queueVars, fairFirst>>

Consume(c) ==
  \/ Receive(c) \/ PollDelivers(c) \/ PollEmpty(c) \/ PollFails(c)
  \/ \E m \in Message : Ack(c, m) \/ GiveUp(c, m)

Next ==
  \/ \E c \in Consumers : Consume(c)
  \/ \E t \in Tenants : SubmitFair(t)
  \/ \E m \in Message : Reappear(m)
  \/ \E m \in Urgent : SubmitUrgent(m)

Spec == Init /\ [][Next]_vars

\* Consumers go on calling receive(), a long poll on an empty queue returns, and
\* items are acked or given up.  A queue that is polled again and again does not
\* fail every time, nor miss what it has every time.
Fairness ==
  \A c \in Consumers :
    /\ WF_vars(Receive(c))
    /\ SF_vars(PollDelivers(c) \/ PollEmpty(c))
    /\ WF_vars(\E m \in Message : Ack(c, m) \/ GiveUp(c, m))
    /\ \A queue \in {FairWork, Urgent} : SF_vars(PollDelivers(c) /\ Polled(c) = queue)

FairSpec == Spec /\ Fairness

-----------------------------------------------------------------------------
(* Properties                                                              *)

TypeOK ==
  /\ opts \in Options
  /\ acc \in 0..(One - Half) /\ cycle \in 0..(Window - 1) /\ turns \in 0..cycle
  /\ stored \in SUBSET Message
  /\ sent \in [Tenants -> 0..PerTenant]
  /\ holder \in [Message -> Consumers \cup {None}]
  /\ pc \in [Consumers -> {"idle", "first", "second", "working"}]
  /\ fairFirst \in [Consumers -> BOOLEAN]
  /\ items \in [Consumers -> SUBSET Message]

\* `fair gets first dibs on a w fraction of cycles (e.g. 0.2 = about every 5th)'
\* (WorkQueue.ts:160): over any number of cycles, from anywhere on, the fair queue
\* gets its share up to less than one turn and the rounding of the sums, which
\* costs or gains at most half the distance of the doubles above 1 in a cycle.
ShareKept ==
  LET off == turns * One - cycle * Weight
  IN  /\ off < One + cycle * Half
      /\ -off < One + cycle * Half

\* `guaranteeing tenant work progresses even while priority is backed up'
\* (WorkQueue.ts:161): tenant work that could be delivered is delivered, or was
\* deleted by the late ack of an earlier delivery.  Only under weight 0, where
\* `priority strictly rules', or one so small that the sum stops growing below 1,
\* may work in the priority queue hold it back.
TenantsProgress ==
  Deliverable(FairWork) # {{}} ~>
    \/ \E m \in FairWork : holder[m] # None
    \/ Deliverable(FairWork) = {{}}
    \/ opts.priorityKey /\ Weight <= Half \div 2 /\ stored \cap Urgent # {}

\* Nor do tenants starve the priority queue, except under weight 1, where `fair
\* strictly rules' (WorkQueue.ts:159), and the last double before it, whose sum is
\* rounded up in every cycle.
PriorityProgresses ==
  Deliverable(Urgent) # {{}} ~>
    \/ \E m \in Urgent : holder[m] # None
    \/ Deliverable(Urgent) = {{}}
    \/ One - Weight <= Half /\ stored \cap FairWork # {}

\* `a single flooding account occupies only its own group's slot'
\* (WorkQueue.ts:11): no two consumers work for the same tenant.
OneSlotPerTenant ==
  \A t \in Tenants : \A c, d \in Consumers :
    (\E m \in items[c], n \in items[d] : {m, n} \subseteq FairWork /\ m[1] = t /\ n[1] = t)
    => c = d
=============================================================================
