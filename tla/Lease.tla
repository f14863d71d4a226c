------------------------------- MODULE Lease -------------------------------
(***************************************************************************)
(* What the lock of a row promises to the processes that use it: it passes *)
(* from one holder to the next only through a moment in which nobody holds *)
(* it.  A holder may lose it by giving it back, by learning that it is     *)
(* lost, or by the passing of time; the three look alike here.             *)
(***************************************************************************)
CONSTANT Clients

VARIABLE holders

Init == holders = {}

Acquire(c) == holders = {} /\ holders' = {c}

Lose == holders # {} /\ holders' = {}

Next == Lose \/ \E c \in Clients : Acquire(c)

Spec == Init /\ [][Next]_holders

=============================================================================
