----------------------------- MODULE TableWalk -----------------------------
(***************************************************************************)
(* What a walk over the variable-length records of a firmware table        *)
(* promises, whatever the table holds: it looks at a record only where     *)
(* Room bytes of it lie in the table, and every record it looks at lies    *)
(* behind the one before, so it runs out of table.                         *)
(***************************************************************************)
EXTENDS Integers

CONSTANT Room          \* the bytes of a record that must be inside

VARIABLES at,          \* the record the walk is at
          size,        \* the bytes of the table
          over         \* TRUE once the walk has ended

walkvars == <<at, size, over>>

WalkInit == at = 0 /\ size \in Int /\ over = FALSE

\* The record at hand is looked at, and the walk goes on behind it.
Visit == /\ ~over
         /\ at + Room <= size
         /\ at' > at
         /\ UNCHANGED <<size, over>>

\* The walk ends: at the end of the table, or at a record it does not trust.
Stop == /\ ~over
        /\ over' = TRUE
        /\ UNCHANGED <<at, size>>

WalkNext == Visit \/ Stop

WalkSpec == WalkInit /\ [][WalkNext]_walkvars
=============================================================================
