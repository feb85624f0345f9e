------------------------------ MODULE MCLFQueue ------------------------------
(* LFQueue for TLC: three slots, and enough elements to go round them twice.   *)
EXTENDS LFQueue
===============================================================================
