----------------------------- MODULE CommandQueue -----------------------------
(***************************************************************************)
(* The hub's command queue (hub/fleet.py): the `commands` and              *)
(* `command_results` tables and the functions that write them, each as the *)
(* SQLite transactions it runs.  A module that uses the queue says who     *)
(* calls these operations and when; nothing here has a process of its own. *)
(*                                                                         *)
(* A command id is a fresh uuid, so an id is used once: "unissued" before  *)
(* its row exists, "deleted" after delete_machine removed it.  The clock   *)
(* is abstracted to the set of commands whose expires_at has passed: every *)
(* command has its own TTL, so the commands may lapse in any order.        *)
(***************************************************************************)
CONSTANTS
    Command,    \* command ids
    Machine,    \* machine names
    Agent,      \* agent ids: one per enrolment
    NoMachine,
    NoAgent

ASSUME QueueAssumption == NoMachine \notin Machine /\ NoAgent \notin Agent

VARIABLES
    status,     \* commands.status, or "unissued" / "deleted" when there is no row
    machine,    \* commands.machine
    claimedBy,  \* commands.claimed_by
    result,     \* command_results.success: "ok", "fail", or "none" when no row
    lapsed      \* the commands whose expires_at is in the past

queueVars == <<status, machine, claimedBy, result, lapsed>>

CommandStatus == {"pending", "claimed", "done", "failed", "expired"}
NoRow == {"unissued", "deleted"}
Settled == {"done", "failed", "expired"}

QueueTypeOK ==
    /\ status \in [Command -> CommandStatus \cup NoRow]
    /\ machine \in [Command -> Machine \cup {NoMachine}]
    /\ claimedBy \in [Command -> Agent \cup {NoAgent}]
    /\ result \in [Command -> {"none", "ok", "fail"}]
    /\ lapsed \subseteq Command

QueueInit ==
    /\ status = [c \in Command |-> "unissued"]
    /\ machine = [c \in Command |-> NoMachine]
    /\ claimedBy = [c \in Command |-> NoAgent]
    /\ result = [c \in Command |-> "none"]
    /\ lapsed = {}

HasRow(c) == status[c] \notin NoRow

PendingOf(m) == {c \in Command : status[c] = "pending" /\ machine[c] = m}

(* The row of c passes its expires_at. *)
Lapse(c) ==
    /\ HasRow(c) /\ c \notin lapsed
    /\ lapsed' = lapsed \cup {c}
    /\ UNCHANGED <<status, machine, claimedBy, result>>

(* create_command: the INSERT.  What the queue refuses leaves no trace.    *)
Create(c, m) ==
    /\ status[c] = "unissued"
    /\ status' = [status EXCEPT ![c] = "pending"]
    /\ machine' = [machine EXCEPT ![c] = m]
    /\ UNCHANGED <<claimedBy, result, lapsed>>

(* Seeded faults, here and below: what a definition would be with a        *)
(* plausible bug in the code it models.  No specification uses them; each  *)
(* replaces its definition to show that a property notices.                *)
SweepsTheFresh ==
    /\ status' = [c \in Command |->
                    IF status[c] = "pending" /\ c \notin lapsed THEN "expired"
                                                                ELSE status[c]]
    /\ UNCHANGED <<machine, claimedBy, result, lapsed>>

SweepRequeuesClaimed ==
    /\ status' = [c \in Command |->
                    IF c \notin lapsed THEN status[c]
                    ELSE IF status[c] = "claimed" THEN "pending"
                    ELSE IF status[c] = "pending" THEN "expired" ELSE status[c]]
    /\ UNCHANGED <<machine, claimedBy, result, lapsed>>

(* expire_stale_commands: one UPDATE over every machine.                   *)
ExpireStale ==
    /\ status' = [c \in Command |->
                    IF status[c] = "pending" /\ c \in lapsed THEN "expired"
                                                             ELSE status[c]]
    /\ UNCHANGED <<machine, claimedBy, result, lapsed>>

CancelsAnything(c) ==
    /\ HasRow(c)
    /\ status' = [status EXCEPT ![c] = "expired"]
    /\ UNCHANGED <<machine, claimedBy, result, lapsed>>

(* cancel_command_if_pending: the conditional UPDATE, when it hits a row.  *)
CancelIfPending(c) ==
    /\ status[c] = "pending"
    /\ status' = [status EXCEPT ![c] = "expired"]
    /\ UNCHANGED <<machine, claimedBy, result, lapsed>>

(* What claim_commands hands out: everything pending for m that has not    *)
(* lapsed, because _expire_stale runs first in the same transaction.       *)
Claimable(m) == PendingOf(m) \ lapsed

MarksOnResultOnly(a, m) ==
    /\ claimedBy' = [c \in Command |->
                    IF c \in Claimable(m) THEN a ELSE claimedBy[c]]
    /\ UNCHANGED <<status, machine, result, lapsed>>

Claim(a, m) ==
    /\ status' = [c \in Command |->
                    IF c \in Claimable(m) THEN "claimed"
                    ELSE IF c \in PendingOf(m) THEN "expired" ELSE status[c]]
    /\ claimedBy' = [c \in Command |->
                    IF c \in Claimable(m) THEN a ELSE claimedBy[c]]
    /\ UNCHANGED <<machine, result, lapsed>>

AcceptsBeforeExpiry(c, a) == HasRow(c) /\ claimedBy[c] = a /\ c \notin lapsed

(* complete_command, first statement: the SELECT that decides whether the  *)
(* report is taken.  It is outside the transaction the INSERT opens.       *)
Accepts(c, a) == HasRow(c) /\ claimedBy[c] = a

RecordsStatusOnly(c, ok) ==
    /\ status' = [status EXCEPT ![c] = IF ~HasRow(c) THEN @
                                       ELSE IF ok THEN "done" ELSE "failed"]
    /\ UNCHANGED <<machine, claimedBy, result, lapsed>>

RecordsFlagAsStatus(c, ok) ==
    /\ result' = [result EXCEPT ![c] = IF ok THEN "ok" ELSE "fail"]
    /\ status' = [status EXCEPT ![c] = IF HasRow(c) THEN result'[c] ELSE @]
    /\ UNCHANGED <<machine, claimedBy, lapsed>>

(* complete_command, the transaction: INSERT OR REPLACE the result, UPDATE *)
(* the row.  Neither statement looks at the row again, so the result is    *)
(* written even when delete_machine removed the row in between.            *)
RecordResult(c, ok) ==
    /\ result' = [result EXCEPT ![c] = IF ok THEN "ok" ELSE "fail"]
    /\ status' = [status EXCEPT ![c] = IF ~HasRow(c) THEN @
                                       ELSE IF ok THEN "done" ELSE "failed"]
    /\ UNCHANGED <<machine, claimedBy, lapsed>>

(* delete_machine, the transaction: the results of the ids it SELECTed     *)
(* before the first DELETE took the write lock, then every row of m.       *)
DeleteRows(m, ids) ==
    LET gone == {c \in Command : HasRow(c) /\ machine[c] = m}
    IN  /\ status' = [c \in Command |-> IF c \in gone THEN "deleted" ELSE status[c]]
        /\ machine' = [c \in Command |-> IF c \in gone THEN NoMachine ELSE machine[c]]
        /\ claimedBy' = [c \in Command |-> IF c \in gone THEN NoAgent ELSE claimedBy[c]]
        /\ result' = [c \in Command |-> IF c \in ids THEN "none" ELSE result[c]]
        /\ lapsed' = lapsed \ gone
=============================================================================
