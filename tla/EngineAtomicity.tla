--------------------------- MODULE EngineAtomicity ---------------------------
(***************************************************************************)
(* Why Replication may take a method of the engine for one step: whoever   *)
(* has to take the engine's lock to look at it sees AtomicEngine.          *)
(***************************************************************************)
EXTENDS SearchEngine

VARIABLE shown      \* auxiliary: the engine when its lock was last free

Shown == [store |-> store, mem |-> [docs |-> derived["cache"], gen |-> gen], state |-> state]

ShownInit == Init /\ shown = Shown
ShownNext == Next /\ shown' = IF lock' = Nobody THEN Shown' ELSE shown
ShownSpec == ShownInit /\ [][ShownNext]_<<vars, shown>> /\ Fairness

Atomic == INSTANCE AtomicEngine WITH engine <- shown

\* SearchEngine implements AtomicEngine.  Between methods, a mutation has taken
\* effect in the database, in the memory and in the state, or in none of them,
\* or it has degraded the engine; a failed resynchronisation never leaves a
\* serving engine; and a crash in the middle of a method leaves a database from
\* before or after its one transaction, which a start makes the memory again.
MethodsAreAtomic == Atomic!ASpec

=============================================================================
