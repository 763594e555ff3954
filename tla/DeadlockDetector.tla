--------------------------- MODULE DeadlockDetector ---------------------------
(***************************************************************************)
(* The deadlock detector of database phase 6 (deadlock.c): a wait-for      *)
(* graph kept as a list of edges and a list of the transactions that have  *)
(* ever been in one, a depth first search for a cycle, and the choice of a *)
(* victim.  Transaction identifiers are indexes of the search's arrays, so *)
(* they lie below MAX_TRANSACTIONS; 0 stands for no transaction.           *)
(***************************************************************************)
EXTENDS Integers, Sequences, FiniteSets, SequencesExt, Selection

CONSTANTS
    MAX_TRANSACTIONS,
    MAX_EDGES

ASSUME GraphConstants ==
    /\ MAX_TRANSACTIONS \in Nat /\ MAX_TRANSACTIONS > 1
    /\ MAX_EDGES \in Nat

TxnIndexes == 1 .. MAX_TRANSACTIONS - 1

Policies == {"YOUNGEST", "OLDEST", "LEAST_LOCKS"}

WaitForEdge == [from_txn : TxnIndexes, to_txn : TxnIndexes]

VARIABLES edges, transactions, policy

graphVars == <<edges, transactions, policy>>

GraphTypeOK ==
    /\ edges \in Seq(WaitForEdge) /\ Len(edges) <= MAX_EDGES
    /\ transactions \in Seq(TxnIndexes) /\ Len(transactions) <= MAX_TRANSACTIONS
    /\ policy \in Policies

\* deadlock_detector_create
GraphInit ==
    /\ edges = << >>
    /\ transactions = << >>
    /\ policy \in Policies

-----------------------------------------------------------------------------
(* The search                                                              *)

\* Where the search is: at edge i on behalf of a transaction, with the two arrays.
Searches == [txn : TxnIndexes, i : 1 .. MAX_EDGES + 1,
             visited : SUBSET TxnIndexes, rec_stack : SUBSET TxnIndexes, cycle : BOOLEAN]

Enter(t, s) == [txn |-> t, i |-> 1, visited |-> s.visited \cup {t},
                rec_stack |-> s.rec_stack \cup {t}, cycle |-> FALSE]

Leave_onStack(s) == s

\* No cycle from here: the transaction comes off the recursion stack.
Leave(s) == [s EXCEPT !.rec_stack = @ \ {s.txn}]

NextEdge(s) == [s EXCEPT !.i = @ + 1]

\* The search goes on with the arrays that a search from a successor has left.
Resume(s, found) == [found EXCEPT !.txn = s.txn, !.i = s.i + 1]

\* deadlock_detector_has_cycle_dfs: the arrays when the search from a
\* transaction is over, and whether it met a cycle.
has_cycle_dfs[s \in Searches] ==
    IF s.i > Len(edges) THEN Leave(s)
    ELSE LET e == edges[s.i] IN
         IF e.from_txn # s.txn THEN has_cycle_dfs[NextEdge(s)]
         ELSE IF e.to_txn \notin s.visited
         THEN LET found == has_cycle_dfs[Enter(e.to_txn, s)] IN
              IF found.cycle THEN found ELSE has_cycle_dfs[Resume(s, found)]
         ELSE IF e.to_txn \in s.rec_stack THEN [s EXCEPT !.cycle = TRUE]
         ELSE has_cycle_dfs[NextEdge(s)]

\* The arrays when the first n of the listed transactions have been searched from,
\* those that no earlier search had visited.
Searched[n \in 0 .. Len(transactions)] ==
    IF n = 0 THEN [visited |-> {}, rec_stack |-> {}, cycle |-> FALSE]
    ELSE LET before == Searched[n - 1] IN
         IF before.cycle \/ transactions[n] \in before.visited THEN before
         ELSE has_cycle_dfs[Enter(transactions[n], before)]

deadlock_detector_detect == Searched[Len(transactions)].cycle

-----------------------------------------------------------------------------
(* Operations                                                              *)

Listed(list, t) == IF t \in Range(list) \/ Len(list) >= MAX_TRANSACTIONS THEN list
                                                                    ELSE Append(list, t)

\* Transaction f waits for t.  An edge that is there already, whatever its
\* resource, and one that finds the list full change nothing.
deadlock_detector_add_edge(f, t) ==
    /\ [from_txn |-> f, to_txn |-> t] \notin Range(edges)
    /\ Len(edges) < MAX_EDGES
    /\ edges' = Append(edges, [from_txn |-> f, to_txn |-> t])
    /\ transactions' = Listed(Listed(transactions, f), t)
    /\ UNCHANGED policy

\* The edge goes; its transactions stay listed.
deadlock_detector_remove_edge(f, t) ==
    /\ [from_txn |-> f, to_txn |-> t] \in Range(edges)
    /\ edges' = Selection(edges, {i \in DOMAIN edges : edges[i] # [from_txn |-> f, to_txn |-> t]})
    /\ UNCHANGED <<transactions, policy>>

\* The victim is chosen among all listed transactions.
deadlock_detector_find_victim ==
    CASE transactions = << >>   -> 0
      [] policy = "YOUNGEST"    -> Max(Range(transactions))
      [] policy = "OLDEST"      -> Min(Range(transactions))
      [] policy = "LEAST_LOCKS" -> transactions[Len(transactions) \div 2 + 1]

\* Where the edges are that a transaction has no part in.
Without(t) == {i \in DOMAIN edges : t \notin {edges[i].from_txn, edges[i].to_txn}}

resolve_keepsVictim ==
    /\ deadlock_detector_detect
    /\ LET victim == deadlock_detector_find_victim IN
       /\ victim # 0
       /\ edges' = Selection(edges, Without(victim))
    /\ UNCHANGED <<transactions, policy>>

\* deadlock_detector_resolve, when a deadlock is detected: the victim leaves the
\* graph with all its edges.
resolve ==
    /\ deadlock_detector_detect
    /\ LET victim == deadlock_detector_find_victim IN
       /\ victim # 0
       /\ edges' = Selection(edges, Without(victim))
       /\ transactions' = Selection(transactions, {i \in DOMAIN transactions : transactions[i] # victim})
    /\ UNCHANGED policy

deadlock_detector_clear_graph ==
    /\ edges' = << >>
    /\ transactions' = << >>
    /\ UNCHANGED policy

Wait == \E f, t \in TxnIndexes : f # t /\ deadlock_detector_add_edge(f, t)

GraphNext ==
    \/ Wait
    \/ \E f, t \in TxnIndexes : deadlock_detector_remove_edge(f, t)
    \/ resolve
    \/ deadlock_detector_clear_graph

GraphSpec == GraphInit /\ [][GraphNext]_graphVars

-----------------------------------------------------------------------------
(* Properties                                                              *)

\* Some transactions all wait for one of their number.
Deadlocked == \E S \in (SUBSET TxnIndexes) \ {{}} :
                 \A t \in S : \E e \in Range(edges) : e.from_txn = t /\ e.to_txn \in S

\* The search reports a deadlock exactly if there is one.
DetectIsExact == deadlock_detector_detect <=> Deadlocked

\* Once transactions stop waiting for more, the resolver ends every deadlock,
\* although it may first take victims that had no part in it.
DeadlocksEnd == <>[][~ Wait]_graphVars => (Deadlocked ~> ~ Deadlocked)
=============================================================================
