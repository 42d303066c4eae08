----------------------------- MODULE MCJITCache -----------------------------
(***************************************************************************)
(* Two halves of the shared WRAM, units 1 and 2, each a range of its own.  *)
(* The ARM9 has all of it, or one half, mirrored, and the ARM7 the other.  *)
(* Both CPUs enter blocks at the same address.                             *)
(***************************************************************************)
EXTENDS JITCache

MCPage == <<1, 2>>

MCSettings ==
    0 :> [p \in CPUs |-> IF p = "ARM9" THEN {<<1, 2>>} ELSE {}] @@
    1 :> [p \in CPUs |-> {a :> (IF p = "ARM9" THEN 2 ELSE 1) : a \in 1..3}]

MCStarts == [p \in CPUs |-> {1}]

MCLens == [p \in CPUs |-> IF p = "ARM9" THEN {1, 2} ELSE {1}]

\* Nothing is said of the cache once a block has moved, nor of a block that
\* overwrote itself while it was compiled: one of these at a time is enough.  One
\* CPU at a time has lost its literal.
Bounded == ~moved /\ Cardinality(dirty) < 2 /\ Cardinality(cache.invalid) < 2
=============================================================================
