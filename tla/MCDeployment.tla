----------------------------- MODULE MCDeployment -----------------------------
(* Deployment on small instances: one deployment of one or two machines.   *)
EXTENDS Deployment
=============================================================================
