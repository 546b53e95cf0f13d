---------------------------- MODULE MCEnrollment ----------------------------
EXTENDS Enrollment, TLC

CONSTANT i1

Alike == Permutations(Worker) \cup Permutations(Machine)
=============================================================================
