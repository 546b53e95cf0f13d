------------------------------- MODULE WorkOrder -------------------------------
(***************************************************************************)
(* What an operator is promised about a command, whatever carries it: it   *)
(* is queued once, it is handed over or withdrawn, never both, and work    *)
(* that was withdrawn or lost never starts afterwards; nothing starts      *)
(* twice.  Several orders may move in one step: one claim hands over       *)
(* everything that is queued, one sweep withdraws everything stale.        *)
(***************************************************************************)
EXTENDS Naturals

CONSTANT Command

VARIABLES
    phase,      \* "unissued", "queued", "handed", "started" or "void"
    starts      \* how many times the work was started

vars == <<phase, starts>>

Init ==
    /\ phase = [c \in Command |-> "unissued"]
    /\ starts = [c \in Command |-> 0]

Move(c, from, to) == phase[c] = from /\ phase'[c] = to

Keep(c) == phase'[c] = phase[c] /\ starts'[c] = starts[c]

Queue(c) == Move(c, "unissued", "queued") /\ starts'[c] = starts[c]

Hand(c) == Move(c, "queued", "handed") /\ starts'[c] = starts[c]

Start(c) == Move(c, "handed", "started") /\ starts'[c] = starts[c] + 1

Void(c) ==
    /\ Move(c, "queued", "void") \/ Move(c, "handed", "void")
    /\ starts'[c] = starts[c]

Next ==
    /\ \A c \in Command : Keep(c) \/ Queue(c) \/ Hand(c) \/ Start(c) \/ Void(c)

Spec == Init /\ [][Next]_vars
=============================================================================
