------------------------------- MODULE SeqNum -------------------------------
(***************************************************************************)
(* Sequence numbers are uint8_t values: every assignment to one is reduced *)
(* modulo 2^8 and every comparison of two of them in the code is a         *)
(* comparison of their uint8_t difference.  SeqSpace stands for 2^8; model *)
(* checking uses a smaller power of two so that wrap-around happens.       *)
(***************************************************************************)
EXTENDS Integers

CONSTANT SeqSpace

ASSUME SeqSpaceAssumption == SeqSpace \in Nat /\ SeqSpace > 1

\* The range of a sequence number.
SeqNums == 0 .. SeqSpace - 1

\* Mutant: sequence numbers as wide as an int.
MutantInt(n) == n

\* (uint8_t) n
U8(n) == n % SeqSpace

\* (uint8_t) (a - b): how far a is ahead of b.
SeqDiff(a, b) == U8(a - b)

=============================================================================
