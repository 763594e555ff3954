---------------------------- MODULE ConnectionLease ----------------------------
(***************************************************************************)
(* What a connection pool promises its users: a connection belongs to one  *)
(* user at a time and stays open for that user until given back or closed, *)
(* and there are never more than max_size open ones.                       *)
(***************************************************************************)
EXTENDS FiniteSets, Integers

CONSTANTS Users, Clients, NoClient, max_size

VARIABLES
    open,   \* the connections that are open
    lease   \* the connection each user has

leaseVars == <<open, lease>>

Leased == {lease[u] : u \in Users} \ {NoClient}

LeaseInit ==
    /\ open \subseteq Clients /\ Cardinality(open) <= max_size
    /\ lease = [u \in Users |-> NoClient]

Lend(u, c) ==
    /\ lease[u] = NoClient /\ c \in Clients \ Leased
    /\ open' = open \cup {c} /\ Cardinality(open') <= max_size
    /\ lease' = [lease EXCEPT ![u] = c]

GiveBack(u) ==
    /\ lease[u] # NoClient
    /\ lease' = [lease EXCEPT ![u] = NoClient]
    /\ open' \in {open, open \ {lease[u]}}

Expire(C) ==
    /\ C \cap Leased = {}
    /\ open' = open \ C
    /\ UNCHANGED lease

LeaseNext ==
    \/ \E u \in Users : GiveBack(u) \/ \E c \in Clients : Lend(u, c)
    \/ \E C \in SUBSET open : Expire(C)

LeaseSpec == LeaseInit /\ [][LeaseNext]_leaseVars
=============================================================================
