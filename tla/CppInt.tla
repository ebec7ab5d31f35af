------------------------------- MODULE CppInt -------------------------------
(***************************************************************************)
(* The int of the hardware bridge's terminal.  A sum that leaves it has no *)
(* defined value in C++; on the machines the tool is built for it wraps    *)
(* around, and that is what the model follows.                             *)
(***************************************************************************)
EXTENDS Integers

CONSTANT IntMax    \* the largest int

ASSUME IntAssumption == IntMax \in Nat /\ 7 <= IntMax

IntMin == 0 - IntMax - 1

Wrapped(n) == ((n - IntMin) % (2 * (IntMax + 1))) + IntMin
=============================================================================
