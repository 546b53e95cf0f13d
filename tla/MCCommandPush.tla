----------------------------- MODULE MCCommandPush -----------------------------
(* CommandPush on a small instance: an agent on each of two machines that  *)
(* share one slot; the claims of the second machine may fail.              *)
EXTENDS CommandPush

CONSTANTS m1, m2, a1

MCAMachineEach == [a \in Agent |-> IF a = a1 THEN m1 ELSE m2]
=============================================================================
