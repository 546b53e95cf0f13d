----------------------------- MODULE MCOutputStream -----------------------------
(* OutputStream on small instances: a few pieces, few attempts, a low cap. *)
EXTENDS OutputStream
=============================================================================
