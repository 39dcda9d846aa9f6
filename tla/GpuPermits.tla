----------------------------- MODULE GpuPermits -----------------------------
(***************************************************************************)
(* What the lock-free semaphore of the hybrid backend promises: at most    *)
(* GpuWorkers workers hold a permit, and a permit is taken and given back  *)
(* by the worker that holds it.  How a worker takes one is left out.       *)
(***************************************************************************)
EXTENDS Integers, FiniteSets

CONSTANTS Workers,      \* rayon's worker threads
          GpuWorkers    \* permits

VARIABLE holders        \* the workers that hold a permit

Init == holders = {}

Acquire(w) == /\ w \notin holders
              /\ Cardinality(holders) < GpuWorkers
              /\ holders' = holders \cup {w}

Release(w) == w \in holders /\ holders' = holders \ {w}

Next == \E w \in Workers : Acquire(w) \/ Release(w)

Spec == Init /\ [][Next]_holders
=============================================================================
