------------------------------ MODULE EventBus ------------------------------
(***************************************************************************)
(* The Kafka facade of the services, packages/services/src/aws/Kafka.ts:   *)
(* one lazily connected producer shared by every publish, consumers that   *)
(* are filed in _consumers once they run, and disconnect() for a graceful  *)
(* shutdown.  kafkajs and the broker are external: a connection attempt,   *)
(* a send or a group join succeeds or fails, a partition has one owner at  *)
(* a time, and a member whose handler outlasts its session is evicted.     *)
(*                                                                         *)
(* One topic-partition and one consumer group stand for all: the facade    *)
(* keeps no state per topic, and Kafka orders within a partition only.     *)
(* The group may have no committed offset: where a member then begins is   *)
(* what runConsumer() asks for, the end of the log unless told otherwise.  *)
(***************************************************************************)
EXTENDS Naturals, Sequences, FiniteSets

CONSTANTS Events,     \* the events published, one call of publishTo each
          Consumers,  \* the calls of runConsumer
          None

ASSUME EventsAssumption    == IsFiniteSet(Events)
ASSUME ConsumersAssumption == None \notin Consumers

VARIABLES producer,   \* _producer: "none", "connecting", "connected", or
                      \* "dead": its connect failed, or it was disconnected
          calls,      \* where each publish is
          poison,     \* the events whose value is not JSON
          log,        \* the partition: the events in the order they were appended
          subs,       \* where each runConsumer is
          connected,  \* the consumers holding a connection to the broker
          tracked,    \* _consumers
          leaving,    \* the consumers whose disconnect() is under way
          torn,       \* how often each consumer's disconnect() was called
          shutdown,   \* where the facade's disconnect() is
          owner,      \* the member the partition is assigned to, or None
          busy,       \* the offset each consumer's handler is working on, or 0
          fromBeginning,  \* the option the consumers subscribe with
          start,      \* the offset after which the last member began that found
                      \* no committed one
          committed,  \* the group's committed offset, or 0: there is none yet
          handled     \* the offsets some handler has finished

producing == <<producer, calls, poison, log>>
group     == <<fromBeginning, start, committed, handled>>
consuming == <<owner, busy, group>>
members   == <<subs, connected, tracked, leaving, torn, shutdown>>
vars      == <<producing, members, consuming>>

Offsets == 1..Cardinality(Events)

Init ==
  /\ producer = "none" /\ calls = [e \in Events |-> "idle"] /\ log = <<>>
  /\ poison \in SUBSET Events
  /\ subs = [c \in Consumers |-> "idle"]
  /\ connected = {} /\ tracked = {} /\ leaving = {}
  /\ torn = [c \in Consumers |-> 0]
  /\ shutdown = "idle"
  /\ owner = None /\ busy = [c \in Consumers |-> 0]
  /\ fromBeginning \in BOOLEAN
  /\ start = 0 /\ committed = 0 /\ handled = {}

-----------------------------------------------------------------------------
(* Publishing                                                              *)

\* publishTo(): the first call files the producer and awaits its connection;
\* the others take it as they find it, and kafkajs refuses to send on one that
\* is not connected.
Publish(e) ==
  /\ calls[e] = "idle"
  /\ IF producer = "none"
     THEN /\ producer' = "connecting"
          /\ calls' = [calls EXCEPT ![e] = "connecting"]
     ELSE /\ calls' = [calls EXCEPT ![e] = IF producer = "connected" THEN "sending" ELSE "error"]
          /\ UNCHANGED producer
  /\ UNCHANGED <<poison, log, members, consuming>>

\* The connection of the call that made the producer.  It completes even when
\* disconnect() has come between.
ProducerConnects(e) ==
  /\ calls[e] = "connecting"
  /\ \/ producer' = "connected" /\ calls' = [calls EXCEPT ![e] = "sending"]
     \/ producer' = "dead" /\ calls' = [calls EXCEPT ![e] = "error"]
  /\ UNCHANGED <<poison, log, members, consuming>>

\* Variant: the promise of send() is not awaited.
AnswerEarly(e) ==
  /\ calls[e] = "sending"
  /\ calls' = [calls EXCEPT ![e] = "ok"]
  /\ log' = Append(log, e) \/ log' = log
  /\ UNCHANGED <<producer, poison, members, consuming>>

\* send() resolves once the broker has the event; it rejects when the broker
\* has not, or has and the acknowledgement is lost.
Sent(e) ==
  /\ calls[e] = "sending"
  /\ \/ /\ producer = "connected"
        /\ log' = Append(log, e) /\ calls' = [calls EXCEPT ![e] = "ok"]
     \/ /\ log' = Append(log, e) \/ log' = log
        /\ calls' = [calls EXCEPT ![e] = "error"]
  /\ UNCHANGED <<producer, poison, members, consuming>>

-----------------------------------------------------------------------------
(* Subscribing and leaving                                                 *)

\* runConsumer(): make a consumer and await connect().
Subscribe(c) ==
  /\ subs[c] = "idle"
  /\ subs' = [subs EXCEPT ![c] = "connecting"]
  /\ UNCHANGED <<producing, consuming, connected, tracked, leaving, torn, shutdown>>

ConsumerConnects(c) ==
  /\ subs[c] = "connecting"
  /\ \/ subs' = [subs EXCEPT ![c] = "joining"] /\ connected' = connected \cup {c}
     \/ subs' = [subs EXCEPT ![c] = "failed"] /\ UNCHANGED connected
  /\ UNCHANGED <<producing, consuming, tracked, leaving, torn, shutdown>>

\* subscribe(), with fromBeginning unless it is not given, and run(): filed when
\* both have resolved; an exception leaves the consumer connected and unfiled.
Joins(c) ==
  /\ subs[c] = "joining"
  /\ \/ subs' = [subs EXCEPT ![c] = "running"] /\ tracked' = tracked \cup {c}
     \/ subs' = [subs EXCEPT ![c] = "failed"] /\ UNCHANGED tracked
  /\ UNCHANGED <<producing, consuming, connected, leaving, torn, shutdown>>

\* consumer.disconnect() is called on each of cs.
TearDown(cs) ==
  /\ leaving' = leaving \cup (cs \cap connected)
  /\ torn' = [c \in Consumers |-> IF c \in cs THEN torn[c] + 1 ELSE torn[c]]

\* unsubscribe(): `untrack first', then disconnect; one that is not tracked is
\* ignored.
Unsubscribe(c) ==
  /\ c \in tracked
  /\ tracked' = tracked \ {c}
  /\ TearDown({c})
  /\ UNCHANGED <<producing, consuming, subs, connected, shutdown>>

\* disconnect(): the producer first, if there is one, then every consumer
\* tracked by then.
Disconnect ==
  /\ shutdown = "idle"
  /\ IF producer # "none"
     THEN shutdown' = "producer" /\ UNCHANGED <<leaving, torn>>
     ELSE shutdown' = "consumers" /\ TearDown(tracked)
  /\ UNCHANGED <<producing, consuming, subs, connected, tracked>>

\* The await of _producer.disconnect(): when it rejects, so does disconnect(),
\* and the consumers are left alone.
ProducerGone ==
  /\ shutdown = "producer"
  /\ \/ /\ producer' = "dead"
        /\ shutdown' = "consumers" /\ TearDown(tracked)
     \/ shutdown' = "failed" /\ UNCHANGED <<producer, leaving, torn>>
  /\ UNCHANGED <<calls, poison, log, consuming, subs, connected, tracked>>

\* consumer.disconnect() resolves once the message being handled is finished;
\* the member leaves the group.
Left(c) ==
  /\ c \in leaving /\ busy[c] = 0
  /\ leaving' = leaving \ {c} /\ connected' = connected \ {c}
  /\ owner' = IF owner = c THEN None ELSE owner
  /\ UNCHANGED <<producing, subs, tracked, torn, shutdown, busy, group>>

\* Variant: the consumers' disconnections are not awaited.
ShutDownAtOnce ==
  /\ shutdown = "consumers"
  /\ shutdown' = "done"
  /\ UNCHANGED <<producing, consuming, subs, connected, tracked, leaving, torn>>

ShutDown ==
  /\ shutdown = "consumers" /\ tracked \cap leaving = {}
  /\ shutdown' = "done"
  /\ UNCHANGED <<producing, consuming, subs, connected, tracked, leaving, torn>>

-----------------------------------------------------------------------------
(* Consuming                                                               *)

Running(c) == subs[c] = "running" /\ c \in connected

\* The group's rebalance gives the partition to a member, which rejoins once the
\* handler it was running has ended.  It begins at the committed offset; if there
\* is none, at the first message or behind the last one, as it has subscribed.
Assign(c) ==
  /\ owner = None /\ Running(c) /\ c \notin leaving /\ busy[c] = 0
  /\ owner' = c
  /\ start' = IF committed > 0 THEN start ELSE IF fromBeginning THEN 0 ELSE Len(log)
  /\ UNCHANGED <<producing, members, busy, fromBeginning, committed, handled>>

\* The offset up to which the owner has read.
Position == IF committed > 0 THEN committed ELSE start

\* Variant: the handler is not awaited, so the offset is committed on delivery.
DeliverAndCommit(c) ==
  /\ owner = c /\ c \notin leaving /\ busy[c] = 0 /\ Position < Len(log)
  /\ busy' = [busy EXCEPT ![c] = Position + 1]
  /\ committed' = Position + 1
  /\ UNCHANGED <<producing, members, owner, fromBeginning, start, handled>>

\* The owner fetches the message after its position.
Deliver(c) ==
  /\ owner = c /\ c \notin leaving /\ busy[c] = 0 /\ Position < Len(log)
  /\ busy' = [busy EXCEPT ![c] = Position + 1]
  /\ UNCHANGED <<producing, members, owner, group>>

\* Variant: decodeValue() swallows what it cannot parse.
HandleAnything(c) ==
  /\ busy[c] > 0
  /\ handled' = handled \cup {busy[c]}
  /\ committed' = IF owner = c THEN busy[c] ELSE committed
  /\ busy' = [busy EXCEPT ![c] = 0]
  /\ UNCHANGED <<producing, members, owner, fromBeginning, start>>

\* eachMessage resolves: the offset commits, unless the partition has been
\* given to another member meanwhile.
HandlerReturns(c) ==
  /\ busy[c] > 0 /\ log[busy[c]] \notin poison
  /\ handled' = handled \cup {busy[c]}
  /\ committed' = IF owner = c THEN busy[c] ELSE committed
  /\ busy' = [busy EXCEPT ![c] = 0]
  /\ UNCHANGED <<producing, members, owner, fromBeginning, start>>

\* It throws: in the handler, or in JSON.parse before the handler is called.  The
\* message is fetched again, or, after some retries, the consumer starts anew.
HandlerThrows(c) ==
  /\ busy[c] > 0
  /\ busy' = [busy EXCEPT ![c] = 0]
  /\ owner' = owner \/ (owner = c /\ owner' = None)
  /\ UNCHANGED <<producing, members, group>>

\* The handler outlasts the session: the group goes on without this member,
\* which rejoins by itself and can be assigned the partition again.
Evict(c) ==
  /\ owner = c /\ busy[c] > 0
  /\ owner' = None
  /\ UNCHANGED <<producing, members, busy, group>>

Next ==
  \/ \E e \in Events : Publish(e) \/ ProducerConnects(e) \/ Sent(e)
  \/ \E c \in Consumers :
       \/ Subscribe(c) \/ ConsumerConnects(c) \/ Joins(c) \/ Unsubscribe(c) \/ Left(c)
       \/ Assign(c) \/ Deliver(c) \/ HandlerReturns(c) \/ HandlerThrows(c) \/ Evict(c)
  \/ Disconnect \/ ProducerGone \/ ShutDown

Spec == Init /\ [][Next]_vars

\* Members are assigned the partition and fetch from it, one that is leaving
\* goes once its handler has ended, a handler ends, and that of a message which is
\* redelivered to the owner again and again does not fail or time out for ever.
\* Nothing obliges anybody to publish, to subscribe or to leave.
Fairness ==
  /\ WF_vars(\E c \in Consumers : Left(c))
  /\ WF_vars(\E c \in Consumers : Assign(c))
  /\ WF_vars(\E c \in Consumers : Deliver(c))
  /\ \A c \in Consumers : WF_vars(HandlerReturns(c) \/ HandlerThrows(c))
  /\ SF_vars(\E c \in Consumers : owner = c /\ HandlerReturns(c))

FairSpec == Spec /\ Fairness

-----------------------------------------------------------------------------
(* Properties                                                              *)

TypeOK ==
  /\ producer \in {"none", "connecting", "connected", "dead"}
  /\ calls \in [Events -> {"idle", "connecting", "sending", "ok", "error"}]
  /\ poison \subseteq Events
  /\ log \in Seq(Events) /\ Len(log) <= Cardinality(Events)
  /\ subs \in [Consumers -> {"idle", "connecting", "joining", "running", "failed"}]
  /\ leaving \subseteq connected /\ connected \subseteq Consumers
  /\ tracked \subseteq Consumers
  /\ torn \in [Consumers -> 0..2]
  /\ shutdown \in {"idle", "producer", "consumers", "done", "failed"}
  /\ owner \in Consumers \cup {None}
  /\ busy \in [Consumers -> {0} \cup Offsets]
  /\ fromBeginning \in BOOLEAN
  /\ start \in {0} \cup Offsets /\ committed \in {0} \cup Offsets
  /\ handled \subseteq Offsets

\* A result that is ok is true: the broker has the event.  (The reverse fails:
\* an error may hide an event that was appended.)
OkIsInTheLog ==
  \A e \in Events : calls[e] = "ok" => \E i \in DOMAIN log : log[i] = e

\* At-least-once (Kafka.ts:191): whatever is evicted, thrown, unsubscribed or
\* shut down, what the group has passed since it began was handled by somebody,
\* is first handled in its order, and is never what cannot be parsed.  It begins
\* with the first message if it was told to, else where the member stood that made
\* the first commit: nothing is promised of what the log held before.
CommittedWereHandled ==
  /\ fromBeginning => start = 0
  /\ \A i \in (start + 1)..committed : i \in handled
  /\ \A i \in handled : log[i] \notin poison /\ \A j \in (start + 1)..i : j \in handled

\* `a throw leaves it uncommitted (redelivered)' (Kafka.ts:191): not as long as
\* nothing is committed and fromBeginning is not set, for the next member begins
\* behind the message that is being worked on.
ThrownIsRedelivered == \A c \in Consumers : busy[c] > 0 => busy[c] > start

\* What a disconnect() that resolved leaves connected: subscriptions it could
\* not see, because they were being made, failed half-way, or were filed after
\* it took the list, and one that unsubscribe() is still waiting for.
OnlyUnseenOutlive ==
  shutdown = "done" =>
    \A c \in connected : \/ c \notin tracked
                         \/ torn[c] = 0

\* Some consumer runs and has not been told to leave.
Consumed == \E c \in Consumers : Running(c) /\ c \notin leaving

\* What the group will not skip: everything, if it begins with the first message,
\* else what follows after its beginning once an offset is committed.
Owed(i) == i <= Len(log) /\ (fromBeginning \/ (committed > 0 /\ i > start))

\* A published event the group does not skip is handled, as long as a consumer goes
\* on running and no event before it is one that cannot be parsed.
EventsAreHandled ==
  \A i \in Offsets :
    Owed(i) ~> \/ i \in handled \/ ~Consumed
               \/ \E j \in DOMAIN log : start < j /\ j <= i /\ log[j] \in poison
=============================================================================
