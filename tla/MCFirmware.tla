------------------------------ MODULE MCFirmware ------------------------------
(***************************************************************************)
(* Whether every flash ends, explored in two parts: operators cancel, the  *)
(* window stays open, nothing is deleted and no pass dies; or they delete  *)
(* the machine and the image, and anything may end, die or get lost.       *)
(***************************************************************************)
EXTENDS Firmware

VARIABLE part

\* Bounds, of the state a step leads to.
NothingCloses == leaving' = {} /\ image' /\ ~closed'
NoPassDies == pass' = NoPass => pass.pc \in {"idle", "dispatch"}
NothingCancelled == cancel' = NoCancel

FlashPart ==
    CASE part = "cancels" -> NothingCloses /\ NoPassDies
      [] part = "deletes" -> NothingCancelled

FlashInit == Init /\ part \in {"cancels", "deletes"}
FlashNext == Next /\ FlashPart /\ UNCHANGED part

FlashSpec == FlashInit /\ [][FlashNext]_<<firmwareVars, part>> /\ Fairness
=============================================================================
