---------------------------- MODULE MCRecordLock ----------------------------
(* Small instances of RecordLock for TLC. *)
EXTENDS RecordLock, TLC

CONSTANTS p1, p2, s1, s2

TwoClients == {p1, p2}
TwoSlots   == {s1, s2}

(* One process that retries, and one that waits for each answer. *)
OneRetries == [c \in TwoClients |-> IF c = p1 THEN 2 ELSE 1]

(* Slots are interchangeable: only equality is asked of them. *)
Interchangeable == Permutations(TwoSlots)

=============================================================================
