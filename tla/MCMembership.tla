---------------------------- MODULE MCMembership ----------------------------
(* Small instances of Membership: one organization, two or three people, one *)
(* of whom is spelled in two ways.                                            *)
EXTENDS Membership, TLC

CONSTANTS a, A, b, c, o1, o2, r1, r2, r3

LowerA == [s \in Spelling |-> IF s = A THEN a ELSE s]

SlotSymmetry == Permutations(Slot)
=============================================================================
