---------------------------- MODULE MemoryBase -----------------------------
(***************************************************************************)
(* What the components between the system's memory and the program share   *)
(* when they are put side by side: the threads, and the name of the one    *)
(* that a behaviour is about.                                              *)
(***************************************************************************)
CONSTANT Threads

VARIABLE part
=============================================================================
