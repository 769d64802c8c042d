----------------------------- MODULE ThreadIds ------------------------------
(***************************************************************************)
(* The threads that share a synchronisation primitive.                     *)
(***************************************************************************)
CONSTANTS Threads,
          NoThread    \* stands for the holder of a free lock

ASSUME NoThreadAssumption == NoThread \notin Threads
=============================================================================
