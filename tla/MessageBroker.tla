----------------------------- MODULE MessageBroker -----------------------------
(***************************************************************************)
(* What a message queue with priorities promises: a message that was       *)
(* accepted is tried until it is delivered, at most 1 + maxRetries times,  *)
(* and never while one of higher priority waits; after the last failure it *)
(* is dead or, like one that is handed to nobody, lost.                    *)
(***************************************************************************)
EXTENDS Naturals

CONSTANTS Messages, maxRetries

VARIABLES
    fate,       \* of each message
    priority,
    failures

brokerVars == <<fate, priority, failures>>

BrokerInit ==
    /\ fate = [m \in Messages |-> "new"]
    /\ priority = [m \in Messages |-> 0]
    /\ failures = [m \in Messages |-> 0]

Waiting == {m \in Messages : fate[m] = "waiting"}

Accept(m) ==
    /\ fate[m] = "new"
    /\ fate' = [fate EXCEPT ![m] = "waiting"]
    /\ \E p \in 0 .. 2 : priority' = [priority EXCEPT ![m] = p]
    /\ UNCHANGED failures

First(m) == m \in Waiting /\ \A n \in Waiting : priority[n] <= priority[m]

Deliver(m) ==
    /\ First(m)
    /\ fate' = [fate EXCEPT ![m] = "delivered"]
    /\ UNCHANGED <<priority, failures>>

Fail(m) ==
    /\ First(m)
    /\ failures[m] < maxRetries
    /\ failures' = [failures EXCEPT ![m] = @ + 1]
    /\ UNCHANGED <<fate, priority>>

GiveUp(m) ==
    /\ First(m)
    /\ \/ failures[m] = maxRetries /\ fate' = [fate EXCEPT ![m] = "dead"]
       \/ fate' = [fate EXCEPT ![m] = "lost"]
    /\ UNCHANGED <<priority, failures>>

BrokerNext ==
    \E m \in Messages : Accept(m) \/ Deliver(m) \/ Fail(m) \/ GiveUp(m)

BrokerSpec == BrokerInit /\ [][BrokerNext]_brokerVars
=============================================================================
