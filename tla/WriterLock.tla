------------------------------ MODULE WriterLock ------------------------------
(***************************************************************************)
(* What the writer marker of a workspace promises the code that mutates    *)
(* its database: one writer at a time, as long as the lock is not broken.  *)
(* A broken lock no longer excludes anybody.                               *)
(***************************************************************************)
CONSTANT Writers

VARIABLES holders,   \* the writers that may mutate the database
          broken     \* the marker was taken from a writer that had it

LockInit == holders = {} /\ broken = FALSE

Acquire(w) ==
    /\ holders = {} \/ broken
    /\ holders' = holders \cup {w}
    /\ broken' = broken

\* A writer releases the lock, is stopped, or dies with others.
Leave == holders' \in SUBSET holders /\ broken' = broken

Break == broken' = TRUE /\ holders' \in SUBSET holders

LockNext == (\E w \in Writers : Acquire(w)) \/ Leave \/ Break

LockSpec == LockInit /\ [][LockNext]_<<holders, broken>>

\* One writer at a time, until the lock is broken.
Exclusive == broken \/ \A v, w \in holders : v = w

=============================================================================
