------------------------------ MODULE LifoStack ------------------------------
(***************************************************************************)
(* What a stack shared by threads promises: a push and a pop each happen   *)
(* at one moment, and a pop takes the item pushed last.                    *)
(***************************************************************************)
EXTENDS Sequences

CONSTANT Items

VARIABLE content   \* top first

Push(x) == content' = <<x>> \o content

Pop == content # << >> /\ content' = Tail(content)

LifoSpec == content = << >> /\ [][Pop \/ \E x \in Items : Push(x)]_content
=============================================================================
