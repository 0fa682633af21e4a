---------------------------- MODULE MCEnrollment ----------------------------
(* Two tabs and two function instances, or one of each for renewal over     *)
(* several days.                                                            *)
EXTENDS Enrollment, TLC

CONSTANTS t1, t2, i1, i2

Interchangeable == Permutations(Tabs) \cup Permutations(Instances)

=============================================================================
