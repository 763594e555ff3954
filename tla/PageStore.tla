------------------------------ MODULE PageStore ------------------------------
(***************************************************************************)
(* What the page cache promises its clients: pages keep what was last      *)
(* written to them, whichever frame or file holds them at the moment.      *)
(* Clients work on a page between opening and closing it; only a page      *)
(* that nobody has open can be deleted, and what it holds is then anyone's *)
(* guess.                                                                   *)
(***************************************************************************)
EXTENDS Integers

CONSTANTS Clients, MAX_PAGES, Values, Zero, Nobody

VARIABLES
    count,    \* pages 0 .. count - 1 exist
    content,  \* what each page holds
    open      \* the page each client works on

storeVars == <<count, content, open>>

Pages == 0 .. MAX_PAGES - 1

StoreInit ==
    /\ count = 0
    /\ content = [p \in Pages |-> Zero]
    /\ open = [c \in Clients |-> Nobody]

Extend ==
    /\ count < MAX_PAGES
    /\ count' = count + 1
    /\ UNCHANGED content

OpenPage(c, p) ==
    /\ open[c] = Nobody
    /\ open' = [open EXCEPT ![c] = p]

ClosePage(c) ==
    /\ open[c] # Nobody
    /\ open' = [open EXCEPT ![c] = Nobody]
    /\ UNCHANGED <<count, content>>

WritePage(c, v) ==
    /\ open[c] # Nobody
    /\ content' = [content EXCEPT ![open[c]] = v]
    /\ UNCHANGED <<count, open>>

DeletePage(p, v) ==
    /\ \A c \in Clients : open[c] # p
    /\ content' = [content EXCEPT ![p] = v]
    /\ UNCHANGED <<count, open>>

StoreNext ==
    \/ Extend /\ (UNCHANGED open \/ \E c \in Clients : OpenPage(c, count))
    \/ \E c \in Clients :
          \/ \E p \in 0 .. count - 1 : OpenPage(c, p) /\ UNCHANGED <<count, content>>
          \/ ClosePage(c)
          \/ \E v \in Values : WritePage(c, v)
    \/ \E p \in Pages, v \in Values : DeletePage(p, v)

StoreSpec == StoreInit /\ [][StoreNext]_storeVars
=============================================================================
