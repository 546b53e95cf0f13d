-------------------------------- MODULE OneFlash --------------------------------
(***************************************************************************)
(* What a firmware job promises about each machine it targets, whatever    *)
(* carries it out: the machine is handed the image once at most, flashes   *)
(* it once at most, at a boot and only if it was staged, and is said to be *)
(* up to date only when it runs the new version.  Before it is handed the  *)
(* image somebody may flash it by hand; what was said may be taken back.   *)
(***************************************************************************)
CONSTANT Machine

VARIABLES
    phase,      \* "waiting", "handed", "staged" or "over"
    bios,       \* the version each machine runs
    said        \* whether the hub says that the machine was flashed

vars == <<phase, bios, said>>

Init ==
    /\ phase = [m \in Machine |-> "waiting"]
    /\ bios = [m \in Machine |-> "old"]
    /\ said = [m \in Machine |-> FALSE]

Runs(m) == UNCHANGED bios[m]
Says(m) == UNCHANGED said[m]
Move(m, from, to) == phase[m] \in from /\ phase'[m] = to

Keep(m) == UNCHANGED <<phase[m], bios[m], said[m]>>

\* The image leaves the hub; the reply may be lost, and then that was it.
Hand(m) == (Move(m, {"waiting"}, "handed") \/ Move(m, {"waiting"}, "over")) /\ Runs(m) /\ Says(m)

Stage(m) == Move(m, {"handed"}, "staged") /\ Runs(m) /\ Says(m)

\* The agent gives up, dies, or the machine boots with nothing staged.
Drop(m) == Move(m, {"handed"}, "over") /\ Runs(m) /\ Says(m)

\* The flash, whatever comes out of it.
Flash(m) == Move(m, {"staged"}, "over") /\ Says(m)

ByHand(m) == Move(m, {"waiting"}, "waiting") /\ Says(m)

Conclude(m) ==
    /\ phase[m] # "waiting" /\ bios[m] = "new"
    /\ said'[m] /\ UNCHANGED <<phase[m], bios[m]>>

Retract(m) == ~said'[m] /\ UNCHANGED <<phase[m], bios[m]>>

Next == \A m \in Machine :
    \/ Keep(m) \/ Hand(m) \/ Stage(m) \/ Drop(m) \/ Flash(m) \/ ByHand(m)
    \/ Conclude(m) \/ Retract(m)

Spec == Init /\ [][Next]_vars
=============================================================================
