--------------------------- MODULE MCCommandDelivery ---------------------------
(* CommandDelivery on a small instance: two agent ids of one machine (a    *)
(* reinstalled agent beside its old enrolment).                            *)
EXTENDS CommandDelivery, TLC

CONSTANT pc1

MCAgentMachine == [a \in Agent |-> pc1]
Symmetric == Permutations(Command) \cup Permutations(Agent) \cup Permutations(Worker)
=============================================================================
