----------------------------- MODULE MCHubServices -----------------------------
(***************************************************************************)
(* Four services of the hub that share no table and call none of each      *)
(* other's functions: wakes, invites, and the two directions of a remote   *)
(* terminal.  A behaviour of the hub is, seen from one of them, a behaviour *)
(* of that one's specification, so each behaviour here is of one service,  *)
(* the focus, beside three that stand still.                               *)
(***************************************************************************)
EXTENDS Wake, Invites, PtyInput, PtyOutput

VARIABLE focus

serviceVars == <<wakeVars, inviteVars, ptyInputVars, ptyOutputVars, focus>>

ServicesInit ==
    /\ WakeInit /\ InviteInit /\ PtyInputInit /\ PtyOutputInit
    /\ focus \in {"wakes", "invites", "ptyInput", "ptyOutput"}

ServicesNext ==
    \/ /\ focus = "wakes" /\ WakeNext
       /\ UNCHANGED <<inviteVars, ptyInputVars, ptyOutputVars, focus>>
    \/ /\ focus = "invites" /\ InviteNext
       /\ UNCHANGED <<wakeVars, ptyInputVars, ptyOutputVars, focus>>
    \/ /\ focus = "ptyInput" /\ PtyInputNext
       /\ UNCHANGED <<wakeVars, inviteVars, ptyOutputVars, focus>>
    \/ /\ focus = "ptyOutput" /\ PtyOutputNext
       /\ UNCHANGED <<wakeVars, inviteVars, ptyInputVars, focus>>

ServicesSpec == ServicesInit /\ [][ServicesNext]_serviceVars
=============================================================================
