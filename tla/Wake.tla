--------------------------------- MODULE Wake ---------------------------------
(***************************************************************************)
(* Wake-on-LAN requests (hub/wake.py).  A request waits for an awake peer  *)
(* on its machine's subnet, is handed to it as a wake_machine command, is  *)
(* sent, and is confirmed when the machine checks in.  All requests here   *)
(* are for one sleeping machine; Machine are the peers that can relay.     *)
(*                                                                         *)
(* A pass (tick) is run by the scheduler thread, and by the console after  *)
(* each request (wake_web._tick), so that passes overlap.  A pass takes    *)
(* the time and the roster when it starts; they are kept as the answers to *)
(* its three comparisons: deadline passed, confirmation timed out, machine *)
(* seen since the packet.                                                  *)
(***************************************************************************)
EXTENDS CommandQueue, Naturals, FiniteSets

CONSTANTS Request, Pass, NoRequest, NoCommand

ASSUME WakeAssumption ==
    /\ NoRequest \notin Request /\ NoCommand \notin Command
    /\ Request \cap Command = {}   \* ids of two tables

VARIABLES
    wake,       \* wake_requests: status and command_id
    asking,     \* requests whose request_wake has found nothing open yet
    tick,       \* where each pass is, and what it has read
    late,       \* requests past deadline_at
    heard,      \* of each sent request: the machine checked in since, or the timeout passed
    sentFor,    \* history: requests for which a packet has left, and the relays' commands
    handed,     \* history: the request each command was made for
    overlapped  \* history: two passes have been under way at once

restOfRows == <<asking, late, heard>>
wakeRows == <<wake, restOfRows>>
histories == <<sentFor, handed, overlapped>>
wakeVars == <<queueVars, wakeRows, tick, histories>>

-------------------------------------------------------------------------------
WakeOpen == {"pending", "relaying", "sent"}
WakeOver == {"awake", "already_awake", "no_relay", "no_answer", "unwakeable", "cancelled"}

Heard == {"nothing", "checkIn", "timeout"}
WakePc == {"idle", "reconcile", "confirm", "expire", "dispatch", "queue", "record", "broadcast",
           "mark"}
NoTick == [pc |-> "idle", todo |-> {}, of |-> [r \in Request |-> NoCommand],
           request |-> NoRequest, command |-> NoCommand,
           late |-> {}, heard |-> [r \in Request |-> "nothing"], awake |-> FALSE]

WakeTypeOK ==
    /\ QueueTypeOK
    /\ wake \in [Request -> [status : WakeOpen \cup WakeOver \cup {"none", "gone"},
                             command : Command \cup {NoCommand}]]
    /\ asking \subseteq Request /\ late \subseteq Request
    /\ sentFor \subseteq Request \cup Command
    /\ heard \in [Request -> Heard]
    /\ tick \in [Pass -> [pc : WakePc, todo : SUBSET Request,
                          of : [Request -> Command \cup {NoCommand}],
                          request : Request \cup {NoRequest}, command : Command \cup {NoCommand},
                          late : SUBSET Request, heard : [Request -> Heard], awake : BOOLEAN]]
    /\ handed \in [Command -> Request \cup {NoRequest}]
    /\ overlapped \in BOOLEAN

WakeInit ==
    /\ QueueInit
    /\ wake = [r \in Request |-> [status |-> "none", command |-> NoCommand]]
    /\ asking = {} /\ late = {} /\ heard = [r \in Request |-> "nothing"] /\ sentFor = {}
    /\ tick = [p \in Pass |-> NoTick]
    /\ handed = [c \in Command |-> NoRequest]
    /\ overlapped = FALSE

WakeIs(r, statuses) == wake[r].status \in statuses
WakeAt(p, pc) == tick[p].pc = pc

\* An UPDATE finds no row once the machine is forgotten.
WakeSet(r, to) ==
    wake' = IF WakeIs(r, {"gone"}) THEN wake ELSE [wake EXCEPT ![r].status = to]

-------------------------------------------------------------------------------
(* Operators: request_wake looks for an open request in one transaction    *)
(* and inserts in another; cancel_request is one conditional UPDATE.       *)
AskWake(r) ==
    /\ WakeIs(r, {"none"}) /\ r \notin asking
    /\ \A other \in Request : ~WakeIs(other, WakeOpen)
    /\ asking' = asking \cup {r}
    /\ UNCHANGED <<queueVars, wake, late, heard, tick, histories>>

RequestWake(r, to) ==
    /\ r \in asking /\ to \in {"pending", "already_awake", "unwakeable"}
    /\ asking' = asking \ {r}
    /\ WakeSet(r, to)
    /\ UNCHANGED <<queueVars, late, heard, tick, histories>>

(* Seeded faults, here and below: what a definition would be with a        *)
(* plausible bug in the code it models.  No specification uses them.       *)
CancelsWhateverIsOpen(r) ==
    /\ WakeIs(r, WakeOpen)
    /\ WakeSet(r, "cancelled")
    /\ UNCHANGED <<queueVars, asking, late, heard, tick, histories>>

CancelWake(r) ==
    /\ WakeIs(r, {"pending"})
    /\ WakeSet(r, "cancelled")
    /\ UNCHANGED <<queueVars, asking, late, heard, tick, histories>>

ForgetWakes ==
    /\ wake' = [r \in Request |-> IF WakeIs(r, {"none"}) THEN wake[r]
                                  ELSE [status |-> "gone", command |-> NoCommand]]
    /\ UNCHANGED <<queueVars, asking, late, heard, tick, histories>>

-------------------------------------------------------------------------------
(* One pass.  Each of its four parts reads its rows and then handles them  *)
(* one by one, mostly by UPDATEs that do not look again.                   *)

Turn(p, pc, todo) == tick' = [tick EXCEPT ![p].pc = pc, ![p].todo = todo, ![p].of = NoTick.of,
                                    ![p].heard = IF pc = "confirm" THEN @ ELSE NoTick.heard]
Handled(p, r) == tick' = [tick EXCEPT ![p].todo = @ \ {r}]
Doing(p, pc, r) == WakeAt(p, pc) /\ r \in tick[p].todo
DoneWith(p, pc) == WakeAt(p, pc) /\ tick[p].todo = {}

WakePassStart(p, awake) ==
    /\ WakeAt(p, "idle")
    /\ tick' = [tick EXCEPT ![p] = [NoTick EXCEPT
           !.pc = "reconcile", !.late = late, !.heard = heard, !.awake = awake,
           !.todo = {r \in Request : WakeIs(r, {"relaying"}) /\ wake[r].command # NoCommand},
           !.of = [r \in Request |-> wake[r].command]]]
    /\ overlapped' = (overlapped \/ \E q \in Pass \ {p} : ~WakeAt(q, "idle"))
    /\ UNCHANGED <<queueVars, wakeRows, sentFor, handed>>

(* _mark_sent.  sent_at is when the pass started, and the machine may have *)
(* checked in since.                                                       *)
MarkSent(r) ==
    /\ WakeSet(r, "sent")
    /\ \E evidence \in {"nothing", "checkIn"} : heard' = [heard EXCEPT ![r] = evidence]
    /\ UNCHANGED <<asking, late>>

AnyEndIsSent(p, r) ==
    /\ Doing(p, "reconcile", r) /\ Handled(p, r)
    /\ IF status[tick[p].of[r]] \in Settled THEN MarkSent(r) ELSE UNCHANGED wakeRows
    /\ UNCHANGED <<queueVars, histories>>

AsksAnotherMeanwhile(p, r) ==
    /\ Doing(p, "reconcile", r) /\ Handled(p, r)
    /\ wake' = IF status[tick[p].of[r]] \in {"claimed", "failed", "expired"} /\ ~WakeIs(r, {"gone"})
               THEN [wake EXCEPT ![r] = [status |-> "pending", command |-> NoCommand]] ELSE wake
    /\ UNCHANGED <<queueVars, restOfRows, histories>>

Reconcile(p, r) ==
    LET c == tick[p].of[r]
    IN  /\ Doing(p, "reconcile", r) /\ Handled(p, r)
        /\ CASE status[c] = "done" -> MarkSent(r)
             [] status[c] \in NoRow -> WakeSet(r, "no_relay") /\ UNCHANGED restOfRows
             [] status[c] \in {"failed", "expired"} ->
                    /\ wake' = IF WakeIs(r, {"gone"}) THEN wake
                               ELSE [wake EXCEPT ![r] = [status |-> "pending", command |-> NoCommand]]
                    /\ UNCHANGED restOfRows
             [] OTHER -> UNCHANGED wakeRows
        /\ UNCHANGED <<queueVars, histories>>

ReadSent(p) ==
    /\ DoneWith(p, "reconcile")
    /\ Turn(p, "confirm", {r \in Request : WakeIs(r, {"sent"})})
    /\ UNCHANGED <<queueVars, wakeRows, histories>>

Confirm(p, r) ==
    /\ Doing(p, "confirm", r) /\ Handled(p, r)
    /\ CASE tick[p].heard[r] = "checkIn" -> WakeSet(r, "awake")
         [] tick[p].heard[r] = "timeout" -> WakeSet(r, "no_answer")
         [] tick[p].heard[r] = "nothing" -> UNCHANGED wake
    /\ UNCHANGED <<queueVars, restOfRows, histories>>

ReadLate(p) ==
    /\ DoneWith(p, "confirm")
    /\ Turn(p, "expire", {r \in tick[p].late : WakeIs(r, {"pending", "relaying"})})
    /\ UNCHANGED <<queueVars, wakeRows, histories>>

ExpireWake(p, r) ==
    /\ Doing(p, "expire", r) /\ Handled(p, r)
    /\ WakeSet(r, "no_relay")
    /\ UNCHANGED <<queueVars, restOfRows, histories>>

ReadWaiting(p) ==
    /\ DoneWith(p, "expire")
    /\ Turn(p, "dispatch", {r \in Request : WakeIs(r, {"pending"})})
    /\ UNCHANGED <<queueVars, wakeRows, histories>>

\* The deadline is for expire_stale; or nobody can reach the machine now.
LeavePending(p, r) ==
    /\ Doing(p, "dispatch", r) /\ Handled(p, r)
    /\ r \in tick[p].late \/ ~tick[p].awake
    /\ UNCHANGED <<queueVars, wakeRows, histories>>

AlreadyAwake(p, r) ==
    /\ Doing(p, "dispatch", r) /\ Handled(p, r)
    /\ r \notin tick[p].late /\ tick[p].awake
    /\ WakeSet(r, "already_awake")
    /\ UNCHANGED <<queueVars, restOfRows, histories>>

(* _claim: an UPDATE of a row that is still pending, before the command is *)
(* queued or the packet broadcast.                                         *)
ClaimWake(p, r, pc) ==
    /\ Doing(p, "dispatch", r) /\ pc \in {"queue", "broadcast"}
    /\ r \notin tick[p].late /\ ~tick[p].awake
    /\ IF WakeIs(r, {"pending"})
       THEN /\ WakeSet(r, "relaying")
            /\ tick' = [tick EXCEPT ![p].pc = pc, ![p].todo = @ \ {r}, ![p].request = r]
       ELSE Handled(p, r) /\ UNCHANGED wake
    /\ UNCHANGED <<queueVars, restOfRows, histories>>

Back(p) == tick' = [tick EXCEPT ![p].pc = "dispatch", ![p].request = NoRequest,
                                ![p].command = NoCommand]

\* Any peer: the code prefers one that has not failed this request before.
QueueWake(p, m) ==
    /\ WakeAt(p, "queue")
    /\ \E c \in Command : status[c] = "unissued"
    /\ LET c == CHOOSE free \in Command : status[free] = "unissued"
       IN  /\ Create(c, m)
           /\ handed' = [handed EXCEPT ![c] = tick[p].request]
           /\ tick' = [tick EXCEPT ![p].pc = "record", ![p].command = c]
    /\ UNCHANGED <<wakeRows, sentFor, overlapped>>

\* create_command refuses, or the hub's own socket does.
CannotSend(p) ==
    /\ WakeAt(p, "queue") \/ WakeAt(p, "broadcast")
    /\ WakeSet(tick[p].request, "pending")
    /\ Back(p)
    /\ UNCHANGED <<queueVars, restOfRows, histories>>

RecordWake(p) ==
    LET r == tick[p].request
    IN  /\ WakeAt(p, "record")
        /\ wake' = IF WakeIs(r, {"gone"}) THEN wake ELSE [wake EXCEPT ![r].command = tick[p].command]
        /\ Back(p)
        /\ UNCHANGED <<queueVars, restOfRows, histories>>

Broadcast(p) ==
    /\ WakeAt(p, "broadcast")
    /\ sentFor' = sentFor \cup {tick[p].request}
    /\ tick' = [tick EXCEPT ![p].pc = "mark"]
    /\ UNCHANGED <<queueVars, wakeRows, handed, overlapped>>

MarkBroadcast(p) ==
    /\ WakeAt(p, "mark")
    /\ MarkSent(tick[p].request)
    /\ Back(p)
    /\ UNCHANGED <<queueVars, histories>>

WakePassOver(p) ==
    /\ DoneWith(p, "dispatch")
    /\ tick' = [tick EXCEPT ![p] = NoTick]
    /\ UNCHANGED <<queueVars, wakeRows, histories>>

WakePassDies(p) ==
    /\ ~WakeAt(p, "idle")
    /\ tick' = [tick EXCEPT ![p] = NoTick]
    /\ UNCHANGED <<queueVars, wakeRows, histories>>

-------------------------------------------------------------------------------
(* The peers, the sleeping machine and time.                               *)

RelayClaims(a, m) ==
    /\ Claimable(m) # {}
    /\ Claim(a, m)
    /\ UNCHANGED <<wakeRows, tick, histories>>

RelaySends(c) ==
    /\ status[c] = "claimed"
    /\ sentFor' = sentFor \cup {handed[c], c}
    /\ UNCHANGED <<queueVars, wakeRows, tick, handed, overlapped>>

\* It has failed if it sent no packet; and it may never be heard.
RelayAnswers(c, ok) ==
    /\ status[c] = "claimed" /\ ok = (c \in sentFor)
    /\ RecordResult(c, ok)
    /\ UNCHANGED <<wakeRows, tick, histories>>

DeletePeer(m) ==
    /\ DeleteRows(m, {c \in Command : HasRow(c) /\ machine[c] = m})
    /\ UNCHANGED <<wakeRows, tick, histories>>

CheckIn ==
    /\ heard' = [r \in Request |-> IF WakeIs(r, {"sent"}) THEN "checkIn" ELSE heard[r]]
    /\ UNCHANGED <<queueVars, wake, asking, late, tick, histories>>

PassDeadline(r) ==
    /\ WakeIs(r, WakeOpen) /\ r \notin late
    /\ late' = late \cup {r}
    /\ UNCHANGED <<queueVars, wake, asking, heard, tick, histories>>

WaitLong(r) ==
    /\ WakeIs(r, {"sent"}) /\ heard[r] = "nothing"
    /\ heard' = [heard EXCEPT ![r] = "timeout"]
    /\ UNCHANGED <<queueVars, wake, asking, late, tick, histories>>

LapseWake(c) == status[c] = "pending" /\ Lapse(c) /\ UNCHANGED <<wakeRows, tick, histories>>

SweepWakes == ExpireStale /\ UNCHANGED <<wakeRows, tick, histories>>

-------------------------------------------------------------------------------
TickStep(p) ==
    \/ \E awake \in BOOLEAN : WakePassStart(p, awake)
    \/ ReadSent(p) \/ ReadLate(p) \/ ReadWaiting(p) \/ WakePassOver(p)
    \/ CannotSend(p) \/ RecordWake(p) \/ Broadcast(p) \/ MarkBroadcast(p)
    \/ \E m \in Machine : QueueWake(p, m)
    \/ \E r \in tick[p].todo :
         \/ Reconcile(p, r) \/ Confirm(p, r) \/ ExpireWake(p, r)
         \/ LeavePending(p, r) \/ AlreadyAwake(p, r)
         \/ \E pc \in WakePc : ClaimWake(p, r, pc)

WakeNext ==
    \/ \E p \in Pass : TickStep(p) \/ WakePassDies(p)
    \/ \E r \in Request : \/ AskWake(r) \/ CancelWake(r) \/ PassDeadline(r) \/ WaitLong(r)
                          \/ \E to \in WakeOpen \cup WakeOver : RequestWake(r, to)
    \/ \E m \in Machine : DeletePeer(m) \/ \E a \in Agent : RelayClaims(a, m)
    \/ \E c \in Command : \/ RelaySends(c) \/ LapseWake(c)
                          \/ \E ok \in BOOLEAN : RelayAnswers(c, ok)
    \/ ForgetWakes \/ CheckIn \/ SweepWakes

WakeSpec == WakeInit /\ [][WakeNext]_wakeVars

(***************************************************************************)
(* Fairness.  However often passes die, one gets to its end again and      *)
(* again, and time passes.  Nothing is assumed of peers or operators.      *)
(***************************************************************************)
WakeFair ==
    /\ \E p \in Pass : []<><<WakePassOver(p)>>_wakeVars
    /\ \A r \in Request : WF_wakeVars(PassDeadline(r)) /\ WF_wakeVars(WaitLong(r))

WakeFairSpec == WakeSpec /\ WakeFair

-------------------------------------------------------------------------------
(* Properties.                                                             *)

(* What the console shows as sent, awake or not answering is a request     *)
(* whose packet a relay or the hub really sent, whichever pass wrote it    *)
(* and however stale its reading.                                          *)
SentIsReal == \A r \in Request : WakeIs(r, {"sent", "awake", "no_answer"}) => r \in sentFor

LiveWakes(r) == {c \in Command : handed[c] = r /\ status[c] \in {"pending", "claimed"}}

(* _claim: "the other order leaves a wake_machine command whose request is *)
(* still pending, so the next tick would queue a second one".  While       *)
(* passes do not overlap a request has one live command at most, also when *)
(* a pass dies between the claim and the recording.                        *)
OneRelay == ~overlapped => \A r \in Request : Cardinality(LiveWakes(r)) <= 1

(* cancel_request: "a row saying cancelled over a machine that is now      *)
(* booting is worse than no cancel".  While passes do not overlap, nobody  *)
(* holds or has sent the packet of a request that says cancelled.          *)
WithdrawnIsUnsent == ~overlapped => \A r \in Request :
    WakeIs(r, {"cancelled"}) => LiveWakes(r) = {} /\ r \notin sentFor

(* Those, and the kinds of values in the tables.                           *)
WakeInv == WakeTypeOK /\ SentIsReal /\ OneRelay /\ WithdrawnIsUnsent

(* Every wake ends, also when its relay is deleted or never reports, when  *)
(* passes die between any two steps, and when they reopen each other's     *)
(* verdicts (expire_stale: "something else has to bound the waiting").     *)
WakeEnds == \A r \in Request : WakeIs(r, WakeOpen) ~> WakeIs(r, WakeOver \cup {"gone"})

(* The same two without the proviso, and one open request per machine      *)
(* (open_request_for: "two magic packets aimed at one machine is not twice *)
(* as much waking"), and an operator's cancel that stays.                  *)
OneRelayAlways == \A r \in Request : Cardinality(LiveWakes(r)) <= 1
WithdrawnIsUnsentAlways == \A r \in Request :
    WakeIs(r, {"cancelled"}) => LiveWakes(r) = {} /\ r \notin sentFor
OneOpenWake == Cardinality({r \in Request : WakeIs(r, WakeOpen)}) <= 1
WithdrawnStays == [][\A r \in Request : WakeIs(r, {"cancelled"}) =>
    wake'[r].status \in {"cancelled", "gone"}]_wakeVars
=============================================================================
