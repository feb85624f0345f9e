------------------------------ MODULE BlockPool ------------------------------
(***************************************************************************)
(* What MemPool promises its callers, with the scan for the next free      *)
(* block hidden: a block is handed out to one caller at a time, and the    *)
(* process ends exactly when the last block has been handed out.           *)
(* OrderBook counts the blocks of its two pools by this specification      *)
(* (OrderPoolFull, LevelPoolFull).                                         *)
(***************************************************************************)
EXTENDS Naturals

CONSTANT Blocks

VARIABLES held, outOfSpace

Init == held = {} /\ outOfSpace = FALSE

Get == \E b \in Blocks \ held :
         /\ ~outOfSpace
         /\ held' = held \cup {b}
         /\ UNCHANGED outOfSpace

\* allocate() does not return to the caller that takes the last block.
RunOut == held = Blocks /\ outOfSpace' = TRUE /\ UNCHANGED held

Put == \E b \in held :
         /\ held # Blocks
         /\ held' = held \ {b}
         /\ UNCHANGED outOfSpace

Next == Get \/ RunOut \/ Put

Spec == Init /\ [][Next]_<<held, outOfSpace>>
===============================================================================
