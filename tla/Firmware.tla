-------------------------------- MODULE Firmware --------------------------------
(***************************************************************************)
(* Firmware updates (hub/firmware.py, the agent's UpdateBiosExecutor): one *)
(* job, one target per machine.  The firmware_scheduler thread queues one  *)
(* update_bios command per target; the agent fetches the image over a      *)
(* request of its own, stages it and reports; the flash happens at the     *)
(* next boot, and the BIOS version the machine reports afterwards is the   *)
(* only evidence.  Scheduler, console, agent and reports interleave        *)
(* between any two transactions.                                           *)
(*                                                                         *)
(* Times are kept as the comparisons the code makes: how old a flash is    *)
(* against the two timeouts, and whether what a machine last reported is   *)
(* from before the fetch, from after it, or from after the boot.           *)
(***************************************************************************)
EXTENDS CommandQueue, Naturals, FiniteSets

CONSTANTS
    NoCommand,
    Operations,     \* bound: what operators do in this instance, see Operate
    Faults          \* whether a pass can die and replies and reports get lost

ASSUME FirmwareAssumption == NoCommand \notin Command /\ Faults \in BOOLEAN

VARIABLES
    job,        \* firmware_jobs.status
    row,        \* firmware_targets: status and command_id
    image,      \* whether the payload is still there
    closed,     \* whether window_end has passed
    age,        \* flashed_at: 0 unset, 1 recent, 2 past the flashing timeout, 3 past both
    pass,       \* where the scheduler is, and what it has read
    cancel,     \* the cancel request being served
    leaving,    \* machines whose rows are gone from the queue, not yet from here
    agent,      \* what each machine's agent is doing about the update
    post,       \* the result ingest_result has accepted and not yet written
    bios,       \* the version each machine really runs
    staged,     \* machines with an image staged for the next boot
    booted,     \* machines that booted since the fetch
    report,     \* machine_bios: the version last reported, and since when
    bootSeen    \* machines whose machine_info.boot_epoch is after the fetch

tables == <<job, row, image, closed, age>>
requests == <<cancel, leaving, post>>
hub == <<tables, pass, requests>>
world == <<agent, bios, staged, booted, report, bootSeen>>
firmwareVars == <<queueVars, hub, world>>

-------------------------------------------------------------------------------
Terminal == {"applied", "failed", "unknown", "refused", "expired", "cancelled"}
Recallable == {"pending", "in_flight"}
Touched == {"flashing", "rebooting"}
TargetStatus == Recallable \cup Touched \cup Terminal
Open == {"scheduled", "running"}

Version == {"old", "new", "other"}
Since == {"before", "fetch", "boot"}
Place == {"none", "claimed", "running", "refusing", "failing", "staged", "answerOk", "answerFail"}
Pc == {"idle", "retire", "confirm", "unapplied", "read", "overdue", "pending", "dispatch",
       "queue", "record"}

NoPass == [pc |-> "idle", seen |-> {}, late |-> FALSE, target |-> NoMachine, command |-> NoCommand]
NoCancel == [pc |-> "idle", todo |-> {}, target |-> NoMachine, command |-> NoCommand,
             job |-> FALSE, left |-> FALSE]
NoTarget == [status |-> "none", command |-> NoCommand]

FirmwareTypeOK ==
    /\ QueueTypeOK
    /\ job \in Open \cup {"none", "complete", "cancelled"}
    /\ row \in [Machine -> [status : TargetStatus \cup {"none"}, command : Command \cup {NoCommand}]]
    /\ image \in BOOLEAN /\ closed \in BOOLEAN
    /\ age \in [Machine -> 0..3]
    /\ pass \in [pc : Pc, seen : SUBSET Machine, late : BOOLEAN, target : Machine \cup {NoMachine},
                 command : Command \cup {NoCommand}]
    /\ cancel \in [pc : {"idle", "next", "recall", "close"}, todo : SUBSET Machine,
                   target : Machine \cup {NoMachine}, command : Command \cup {NoCommand},
                   job : BOOLEAN, left : BOOLEAN]
    /\ leaving \subseteq Machine
    /\ agent \in [Machine -> [at : Place, command : Command \cup {NoCommand}]]
    /\ post \in [Machine -> {"none", "ok", "refused", "failed"}]
    /\ bios \in [Machine -> Version]
    /\ staged \subseteq Machine /\ booted \subseteq Machine /\ bootSeen \subseteq Machine
    /\ report \in [Machine -> [version : Version, since : Since]]

Init ==
    /\ QueueInit
    /\ job = "none" /\ image = TRUE /\ closed = FALSE
    /\ row = [m \in Machine |-> NoTarget]
    /\ age = [m \in Machine |-> 0]
    /\ pass = NoPass /\ cancel = NoCancel /\ leaving = {}
    /\ agent = [m \in Machine |-> [at |-> "none", command |-> NoCommand]]
    /\ post = [m \in Machine |-> "none"]
    /\ bios = [m \in Machine |-> "old"]
    /\ staged = {} /\ booted = {} /\ bootSeen = {}
    /\ report = [m \in Machine |-> [version |-> "old", since |-> "before"]]

Is(m, statuses) == row[m].status \in statuses
At(pc) == pass.pc = pc

(* Seeded faults, here and below: what a definition would be with a        *)
(* plausible bug in the code it models.  No specification uses them.       *)
StagedWillDo(rows) ==
    LET states == {rows[m].status : m \in Machine} \ {"none"}
    IN  IF job \in {"none", "cancelled"} THEN job
        ELSE IF states \subseteq Terminal \cup {"rebooting"} THEN "complete"
        ELSE IF states \subseteq Terminal \cup {"pending"} THEN "scheduled" ELSE "running"

(* _refresh_job_status over the rows as they are about to be.              *)
RollUp(rows) ==
    LET states == {rows[m].status : m \in Machine} \ {"none"}
    IN  IF job \in {"none", "cancelled"} THEN job
        ELSE IF states \subseteq Terminal THEN "complete"
        ELSE IF states \subseteq Terminal \cup {"pending"} THEN "scheduled" ELSE "running"

\* The rows of M that still exist take the status; the job is rolled up with them.
Write(M, to) ==
    /\ row' = [m \in Machine |-> IF m \in M /\ row[m].status # "none"
                                 THEN [row[m] EXCEPT !.status = to] ELSE row[m]]
    /\ job' = IF \E m \in M : row[m].status # "none" THEN RollUp(row') ELSE job

-------------------------------------------------------------------------------
(* Operators (bios_web.py).  The console serves one cancel at a time here. *)

(* create_job: check_machine refuses a machine that does not match, or     *)
(* that already reports the image's version.                               *)
CreateJob(M, refused) ==
    /\ job = "none" /\ M # {}
    /\ {m \in M : report[m].version = "new"} \subseteq refused
    /\ row' = [m \in Machine |-> IF m \notin M THEN NoTarget
                                 ELSE [NoTarget EXCEPT !.status = IF m \in refused THEN "refused"
                                                                  ELSE "pending"]]
    /\ job' = IF M \subseteq refused THEN "complete" ELSE "scheduled"
    /\ UNCHANGED <<queueVars, image, closed, age, pass, requests, world>>

CancelTarget(m) ==
    /\ cancel.pc = "idle" /\ ~Is(m, {"none"})
    /\ cancel' = [NoCancel EXCEPT !.pc = "next", !.todo = {m}]
    /\ UNCHANGED <<queueVars, tables, pass, leaving, post, world>>

(* cancel_job decides from one read which targets to recall, and whether   *)
(* any is past recalling.                                                  *)
CancelJob ==
    /\ cancel.pc = "idle" /\ job # "none"
    /\ cancel' = [NoCancel EXCEPT !.pc = "next", !.job = TRUE,
                      !.todo = {m \in Machine : Is(m, Recallable)},
                      !.left = \E m \in Machine : Is(m, Touched)]
    /\ UNCHANGED <<queueVars, tables, pass, leaving, post, world>>

(* cancel_target: read the row; expire its command if nobody claimed that; *)
(* then write CANCELLED, whatever the row says by now.                     *)
CancelRead(m) ==
    /\ cancel.pc = "next" /\ m \in cancel.todo
    /\ cancel' = IF Is(m, Recallable)
                 THEN [cancel EXCEPT !.pc = "recall", !.todo = @ \ {m}, !.target = m,
                                     !.command = row[m].command]
                 ELSE [cancel EXCEPT !.todo = @ \ {m}]
    /\ UNCHANGED <<queueVars, tables, pass, leaving, post, world>>

CancelRecall ==
    /\ cancel.pc = "recall"
    /\ IF cancel.command # NoCommand /\ status[cancel.command] = "pending"
       THEN CancelIfPending(cancel.command) ELSE UNCHANGED queueVars
    /\ cancel' = [cancel EXCEPT !.pc = "close"]
    /\ UNCHANGED <<tables, pass, leaving, post, world>>

CancelClose ==
    /\ cancel.pc = "close"
    /\ Write({cancel.target}, "cancelled")
    /\ cancel' = [cancel EXCEPT !.pc = "next", !.target = NoMachine, !.command = NoCommand]
    /\ UNCHANGED <<queueVars, image, closed, age, pass, leaving, post, world>>

CancelDone ==
    /\ cancel.pc = "next" /\ cancel.todo = {}
    /\ job' = IF ~cancel.job THEN job ELSE IF cancel.left THEN RollUp(row) ELSE "cancelled"
    /\ cancel' = NoCancel
    /\ UNCHANGED <<queueVars, row, image, closed, age, pass, leaving, post, world>>

(* delete_payload is refused while a job is open.                          *)
DeletePayload ==
    /\ image /\ job \notin Open
    /\ image' = FALSE
    /\ UNCHANGED <<queueVars, job, row, closed, age, pass, requests, world>>

(* app.delete_machine: the commands first, the targets in a later          *)
(* transaction.                                                            *)
DeleteMachine(m) ==
    /\ DeleteRows(m, {c \in Command : HasRow(c) /\ machine[c] = m})
    /\ leaving' = leaving \cup {m}
    /\ UNCHANGED <<tables, pass, cancel, post, world>>

ForgetMachine(m) ==
    /\ m \in leaving
    /\ leaving' = leaving \ {m}
    /\ row' = [row EXCEPT ![m] = NoTarget]
    /\ job' = IF Is(m, {"none"}) THEN job ELSE RollUp(row')
    /\ UNCHANGED <<queueVars, image, closed, age, pass, cancel, post, world>>

-------------------------------------------------------------------------------
(* One pass of the scheduler (tick).                                       *)

Step(pc) == pass' = [pass EXCEPT !.pc = pc]
ReadInto(pc, M) == pass' = [pass EXCEPT !.pc = pc, !.seen = M]

(* reconcile_once reads the targets whose command is over and then closes  *)
(* each, without looking again.                                            *)
Over == {m \in Machine : /\ Is(m, {"in_flight"}) /\ row[m].command # NoCommand
                         /\ status[row[m].command] \in Settled}

PassStart ==
    /\ At("idle")
    /\ ReadInto("retire", Over)
    /\ UNCHANGED <<queueVars, tables, requests, world>>

TriesAgain(m) ==
    /\ At("retire") /\ m \in pass.seen
    /\ Write({m}, "pending")
    /\ pass' = [pass EXCEPT !.seen = @ \ {m}]
    /\ UNCHANGED <<queueVars, image, closed, age, requests, world>>

Retire(m) ==
    /\ At("retire") /\ m \in pass.seen
    /\ Write({m}, "failed")
    /\ pass' = [pass EXCEPT !.seen = @ \ {m}]
    /\ UNCHANGED <<queueVars, image, closed, age, requests, world>>

Retired ==
    /\ At("retire") /\ pass.seen = {}
    /\ Step("confirm")
    /\ UNCHANGED <<queueVars, tables, requests, world>>

ConfirmsFromAnyReport ==
    /\ At("confirm") /\ Step("unapplied")
    /\ Write({m \in Machine : Is(m, Touched) /\ report[m].version = "new"}, "applied")
    /\ UNCHANGED <<queueVars, image, closed, age, requests, world>>

(* confirm_from_stored_inventory: only a report from after the fetch.  Its *)
(* UPDATE is conditional, so it is as if it read and wrote at once.        *)
ConfirmStored ==
    /\ At("confirm") /\ Step("unapplied")
    /\ Write({m \in Machine : /\ Is(m, Touched) /\ image
                              /\ report[m].version = "new" /\ report[m].since # "before"}, "applied")
    /\ UNCHANGED <<queueVars, image, closed, age, requests, world>>

TrustsTheBootAlone ==
    /\ At("unapplied") /\ Step("read")
    /\ Write({m \in bootSeen : Is(m, {"rebooting"}) /\ report[m].version = "old"}, "failed")
    /\ UNCHANGED <<queueVars, image, closed, age, requests, world>>

(* fail_unapplied_after_reboot: booted since the fetch, reported since the *)
(* boot, and still on the version it had.                                  *)
FailUnapplied ==
    /\ At("unapplied") /\ Step("read")
    /\ Write({m \in bootSeen : /\ Is(m, {"rebooting"})
                               /\ report[m] = [version |-> "old", since |-> "boot"]}, "failed")
    /\ UNCHANGED <<queueVars, image, closed, age, requests, world>>

WaitsForTheReport ==
    /\ At("read")
    /\ ReadInto("overdue", {m \in Machine : Is(m, {"rebooting"}) /\ age[m] = 3})
    /\ UNCHANGED <<queueVars, tables, requests, world>>

(* expire_stale reads by age and then closes, without looking again.       *)
ReadOverdue ==
    /\ At("read")
    /\ ReadInto("overdue", {m \in Machine : \/ Is(m, {"flashing"}) /\ age[m] >= 2
                                            \/ Is(m, {"rebooting"}) /\ age[m] = 3})
    /\ UNCHANGED <<queueVars, tables, requests, world>>

TriesTheOverdueAgain(m) ==
    /\ At("overdue") /\ m \in pass.seen
    /\ Write({m}, "pending")
    /\ pass' = [pass EXCEPT !.seen = @ \ {m}]
    /\ UNCHANGED <<queueVars, image, closed, age, requests, world>>

Overdue(m) ==
    /\ At("overdue") /\ m \in pass.seen
    /\ Write({m}, "failed")
    /\ pass' = [pass EXCEPT !.seen = @ \ {m}]
    /\ UNCHANGED <<queueVars, image, closed, age, requests, world>>

(* dispatch_once.                                                          *)
ReadPending ==
    /\ At("overdue") /\ pass.seen = {}
    /\ pass' = [pass EXCEPT !.pc = "dispatch", !.late = closed,
                    !.seen = IF job \in Open THEN {m \in Machine : Is(m, {"pending"})} ELSE {}]
    /\ UNCHANGED <<queueVars, tables, requests, world>>

\* What cannot run is closed without looking again.
DispatchTooLate(m) ==
    /\ At("dispatch") /\ m \in pass.seen
    /\ pass.late \/ ~image
    /\ Write({m}, IF pass.late THEN "expired" ELSE "failed")
    /\ pass' = [pass EXCEPT !.seen = @ \ {m}]
    /\ UNCHANGED <<queueVars, image, closed, age, requests, world>>

\* The window has not opened, or the machine is offline.
NotNow(m) ==
    /\ At("dispatch") /\ m \in pass.seen
    /\ ~pass.late
    /\ pass' = [pass EXCEPT !.seen = @ \ {m}]
    /\ UNCHANGED <<queueVars, tables, requests, world>>

(* _claim_target: one UPDATE of a row that is still pending.               *)
ClaimTarget(m) ==
    /\ At("dispatch") /\ m \in pass.seen
    /\ ~pass.late /\ image
    /\ IF Is(m, {"pending"})
       THEN /\ row' = [row EXCEPT ![m].status = "in_flight"]
            /\ pass' = [pass EXCEPT !.pc = "queue", !.seen = @ \ {m}, !.target = m]
       ELSE pass' = [pass EXCEPT !.seen = @ \ {m}] /\ UNCHANGED row
    /\ UNCHANGED <<queueVars, job, image, closed, age, requests, world>>

Fresh == CHOOSE c \in Command : status[c] = "unissued"

QueueCommand ==
    /\ At("queue") /\ \E c \in Command : status[c] = "unissued"
    /\ Create(Fresh, pass.target)
    /\ pass' = [pass EXCEPT !.pc = "record", !.command = Fresh]
    /\ UNCHANGED <<tables, requests, world>>

\* create_command raises ValueError: the machine cannot take the command.
QueueRefused ==
    /\ At("queue")
    /\ Write({pass.target}, "failed")
    /\ pass' = [pass EXCEPT !.pc = "dispatch", !.target = NoMachine]
    /\ UNCHANGED <<queueVars, image, closed, age, requests, world>>

RecordCommand ==
    LET m == pass.target
    IN  /\ At("record")
        /\ row' = IF Is(m, {"none"}) THEN row ELSE [row EXCEPT ![m].command = pass.command]
        /\ job' = RollUp(row')
        /\ pass' = [pass EXCEPT !.pc = "dispatch", !.target = NoMachine, !.command = NoCommand]
        /\ UNCHANGED <<queueVars, image, closed, age, requests, world>>

PassOver ==
    /\ At("dispatch") /\ pass.seen = {}
    /\ pass' = NoPass
    /\ UNCHANGED <<queueVars, tables, requests, world>>

PassDies ==
    /\ Faults /\ ~At("idle")
    /\ pass' = NoPass
    /\ UNCHANGED <<queueVars, tables, requests, world>>

-------------------------------------------------------------------------------
(* The agent (UpdateBiosExecutor) and the endpoints it calls.              *)

Goes(m, place) == agent' = [agent EXCEPT ![m].at = place]

AgentClaims(a, m) ==
    /\ agent[m].at = "none" /\ Claimable(m) # {}
    /\ Claim(a, m)
    /\ \E c \in Claimable(m) : agent' = [agent EXCEPT ![m] = [at |-> "claimed", command |-> c]]
    /\ UNCHANGED <<hub, bios, staged, booted, report, bootSeen>>

(* The agent asks for the image.  start_target is one UPDATE of a target   *)
(* in flight; anything else is answered 409 and the command fails with no  *)
(* report, which is also what a lost reply looks like.                     *)
Fetch(m, lost) ==
    /\ agent[m].at = "claimed" /\ lost \in {FALSE, Faults}
    /\ IF Is(m, {"in_flight"})
       THEN Write({m}, "flashing") /\ Goes(m, IF lost THEN "answerFail" ELSE "running")
            /\ age' = [age EXCEPT ![m] = 1] /\ booted' = booted \ {m} /\ bootSeen' = bootSeen \ {m}
            /\ report' = [report EXCEPT ![m].since = "before"]
       ELSE Goes(m, "answerFail") /\ UNCHANGED <<job, row, age, booted, bootSeen, report>>
    /\ UNCHANGED <<queueVars, image, closed, pass, requests, bios, staged>>

\* The hardware check, the download, or the vendor's tool says no.
RunFails(m, place) ==
    /\ agent[m].at = "running" /\ place \in {"refusing", "failing"}
    /\ Goes(m, place)
    /\ UNCHANGED <<queueVars, hub, bios, staged, booted, report, bootSeen>>

RunStages(m) ==
    /\ agent[m].at = "running"
    /\ staged' = staged \cup {m}
    /\ Goes(m, "staged")
    /\ UNCHANGED <<queueVars, hub, bios, booted, report, bootSeen>>

(* The result is posted.  ingest_result looks at the status first and      *)
(* writes later; the agent waits for the answer only so long.              *)
Report(m, lost) ==
    /\ agent[m].at \in {"refusing", "failing", "staged"} /\ lost \in {FALSE, Faults}
    /\ post' = IF ~lost /\ Is(m, {"in_flight", "flashing"})
               THEN [post EXCEPT ![m] = CASE agent[m].at = "staged" -> "ok"
                                          [] agent[m].at = "refusing" -> "refused"
                                          [] agent[m].at = "failing" -> "failed"]
               ELSE post
    /\ Goes(m, IF agent[m].at = "staged" THEN "answerOk" ELSE "answerFail")
    /\ UNCHANGED <<queueVars, tables, pass, cancel, leaving, bios, staged, booted, report, bootSeen>>

IngestResult(m) ==
    /\ post[m] # "none"
    /\ Write({m}, IF post[m] = "ok" THEN "rebooting" ELSE post[m])
    /\ post' = [post EXCEPT ![m] = "none"]
    /\ UNCHANGED <<queueVars, image, closed, age, pass, cancel, leaving, world>>

Answer(m) ==
    LET c == agent[m].command
    IN  /\ agent[m].at \in {"answerOk", "answerFail"}
        /\ IF HasRow(c) THEN RecordResult(c, agent[m].at = "answerOk") ELSE UNCHANGED queueVars
        /\ agent' = [agent EXCEPT ![m] = [at |-> "none", command |-> NoCommand]]
        /\ UNCHANGED <<hub, bios, staged, booted, report, bootSeen>>

AgentDies(m) ==
    /\ Faults /\ agent[m].at # "none"
    /\ agent' = [agent EXCEPT ![m] = [at |-> "none", command |-> NoCommand]]
    /\ UNCHANGED <<queueVars, hub, bios, staged, booted, report, bootSeen>>

-------------------------------------------------------------------------------
(* The machines.                                                           *)

(* A boot ends whatever the agent was doing.  A staged image is applied,   *)
(* or is not, or comes out under another version string.  Bound: one boot  *)
(* after the fetch.                                                        *)
Boot(m) ==
    /\ age[m] > 0 /\ m \notin booted
    /\ booted' = booted \cup {m}
    /\ bios' \in {[bios EXCEPT ![m] = v] : v \in
                  IF m \in staged /\ bios[m] # "new" THEN Version ELSE {bios[m]}}
    /\ staged' = staged \ {m}
    /\ agent' = [agent EXCEPT ![m] = [at |-> "none", command |-> NoCommand]]
    /\ UNCHANGED <<queueVars, hub, report, bootSeen>>

\* Somebody flashes the machine, or flashes it back, before it is handed the image.
ByHand(m) ==
    /\ age[m] = 0 /\ Is(m, Recallable)
    /\ bios' = [bios EXCEPT ![m] = IF @ = "old" THEN "new" ELSE "old"]
    /\ UNCHANGED <<queueVars, hub, agent, staged, booted, report, bootSeen>>

(* A heartbeat with the BIOS inventory: stored, and confirm_from_inventory *)
(* closes what it can.  A target still flashing believes the new version   *)
(* only; one that waits for its boot, any version but the one it had.      *)
ReportInventory(m) ==
    LET v == bios[m]
    IN 
        /\ report' = [report EXCEPT ![m] = [version |-> v, since |->
                          IF m \in booted THEN "boot" ELSE IF age[m] > 0 THEN "fetch" ELSE "before"]]
        /\ IF image /\ v = "new" /\ Is(m, Touched) THEN Write({m}, "applied")
           ELSE IF v # "old" /\ Is(m, {"rebooting"}) THEN Write({m}, "unknown")
           ELSE UNCHANGED <<job, row>>
        /\ UNCHANGED <<queueVars, image, closed, age, pass, requests, agent, bios, staged, booted,
                       bootSeen>>

\* The uptime travels with another report.
ReportUptime(m) ==
    /\ m \in booted /\ m \notin bootSeen
    /\ bootSeen' = bootSeen \cup {m}
    /\ UNCHANGED <<queueVars, hub, agent, bios, staged, booted, report>>

CloseWindow ==
    /\ ~closed /\ job \in Open
    /\ closed' = TRUE
    /\ UNCHANGED <<queueVars, job, row, image, age, pass, requests, world>>

GrowOld(m) ==
    /\ Is(m, Touched) /\ age[m] < 3
    /\ age' = [age EXCEPT ![m] = @ + 1]
    /\ UNCHANGED <<queueVars, job, row, image, closed, pass, requests, world>>

LapseCommand(c) ==
    /\ status[c] = "pending"
    /\ Lapse(c)
    /\ UNCHANGED <<hub, world>>

\* expire_stale_commands runs on every heartbeat, not in this pass.
Sweep == ExpireStale /\ UNCHANGED <<hub, world>>

-------------------------------------------------------------------------------
Tick == PassStart \/ Retired \/ ConfirmStored \/ FailUnapplied \/ ReadOverdue \/ ReadPending
        \/ QueueCommand \/ QueueRefused \/ RecordCommand \/ PassOver
        \/ \E m \in pass.seen : Retire(m) \/ Overdue(m) \/ DispatchTooLate(m) \/ NotNow(m)
                                \/ ClaimTarget(m)

CancelStep == CancelRecall \/ CancelClose \/ CancelDone \/ \E m \in cancel.todo : CancelRead(m)

Operate ==
    \/ \E M \in SUBSET Machine : \E refused \in SUBSET M : CreateJob(M, refused)
    \/ "cancel" \in Operations /\ (CancelJob \/ \E m \in Machine : CancelTarget(m))
    \/ "payload" \in Operations /\ DeletePayload
    \/ "delete" \in Operations /\ \E m \in Machine : DeleteMachine(m)

AgentWorks(m) ==
    \/ \E lost \in BOOLEAN : Fetch(m, lost) \/ Report(m, lost)
    \/ \E place \in Place : RunFails(m, place)
    \/ RunStages(m) \/ Answer(m)

MachineStep(m) ==
    Boot(m) \/ ByHand(m) \/ ReportInventory(m) \/ ReportUptime(m)

Next ==
    \/ Tick \/ PassDies \/ CancelStep \/ Operate \/ CloseWindow \/ Sweep
    \/ \E m \in Machine :
         \/ AgentWorks(m) \/ AgentDies(m) \/ MachineStep(m)
         \/ IngestResult(m) \/ GrowOld(m) \/ ForgetMachine(m)
         \/ \E a \in Agent : AgentClaims(a, m)
    \/ \E c \in Command : LapseCommand(c)

Spec == Init /\ [][Next]_firmwareVars

(***************************************************************************)
(* Fairness.  However often passes die, one gets to its end again and      *)
(* again; the request threads run, time passes, and an agent that claimed  *)
(* the command goes on with it.  A machine is online at a pass again and   *)
(* again.  No agent has to claim anything.                                 *)
(***************************************************************************)
Fairness ==
    /\ []<><<PassOver>>_firmwareVars
    /\ WF_firmwareVars(CancelStep) /\ WF_firmwareVars(Sweep)
    /\ \A m \in Machine :
         /\ SF_firmwareVars(ClaimTarget(m) \/ DispatchTooLate(m))
         /\ WF_firmwareVars(AgentWorks(m)) /\ WF_firmwareVars(IngestResult(m))
         /\ WF_firmwareVars(GrowOld(m)) /\ WF_firmwareVars(ForgetMachine(m))
    /\ \A c \in Command : WF_firmwareVars(LapseCommand(c))

FairSpec == Spec /\ Fairness

-------------------------------------------------------------------------------
(* Properties.                                                             *)

(* A machine is sent one update command per target, whatever is lost,      *)
(* cancelled or swept ("this feature has no retry by design",              *)
(* reconcile_once).                                                        *)
OneShot == \A m \in Machine : ~Is(m, {"none"}) =>
    Cardinality({c \in Command : machine[c] = m}) <= 1

(* A job that says complete has no target on its way (_refresh_job_status).*)
CompleteIsOver == job = "complete" => \A m \in Machine : Is(m, Terminal \cup {"none"})

(* Those, and the kinds of values in the tables.                           *)
FirmwareInv == FirmwareTypeOK /\ OneShot /\ CompleteIsOver

(* A target that becomes applied is a machine that runs the new version    *)
(* ("Confirming a flash nobody verified is the one thing this must not     *)
(* do"), also when the evidence was stored before the flash.               *)
AppliedIsReal == [][\A m \in Machine :
    row'[m].status = "applied" /\ row[m].status # "applied" => bios[m] = "new"]_firmwareVars

(* fail_unapplied_after_reboot never fails a machine that runs the new     *)
(* version, whichever of its two facts arrives first.                      *)
UnappliedIsReal == [][\A m \in Machine :
    FailUnapplied /\ row'[m] # row[m] => bios[m] # "new"]_firmwareVars

(* The promise about each target (OneFlash), and this module as its        *)
(* implementation: no machine is handed the image twice or flashed twice,  *)
(* although passes die, sweeps act on what they read before, and a         *)
(* timeout, a cancel and a late report write over each other               *)
(* (start_target, "no retry by design").                                   *)
flashOf == [m \in Machine |->
    IF age[m] = 0 THEN "waiting"
    ELSE IF m \in staged THEN "staged"
    ELSE IF agent[m].at = "running" THEN "handed" ELSE "over"]
saidOf == [m \in Machine |-> Is(m, {"applied"})]

Promise == INSTANCE OneFlash WITH phase <- flashOf, said <- saidOf
ImplementsOneFlash == Promise!Spec

\* A pass died between the claim and the command's id, or the agent before it fetched.
Abandoned(m) ==
    /\ Is(m, {"in_flight"}) /\ pass.target # m
    /\ \/ row[m].command = NoCommand
       \/ status[row[m].command] = "claimed" /\ agent[m].at = "none"

(* Every target ends ("Without this a target sits unresolved forever, its  *)
(* job never completes", expire_stale).                                    *)
FlashesEnd == \A m \in Machine :
    Is(m, Recallable \cup Touched) ~> (Is(m, Terminal \cup {"none"}) \/ []Abandoned(m))

(* cancel_target: "a console row reading `cancelled` over a machine that   *)
(* is mid-flash is worse than no cancel button".                           *)
CancelIsHonest == \A m \in Machine :
    Is(m, {"cancelled"}) => agent[m].at # "running" /\ m \notin staged

(* ingest_result: a late report is "dropped rather than reopening a        *)
(* terminal row".                                                          *)
TerminalStays == [][\A m \in Machine : Is(m, Terminal) =>
    row'[m].status \in Terminal \cup {"none"}]_firmwareVars

(* _finish_target: a target an operator cancelled or another path closed   *)
(* is not overwritten.                                                     *)
VerdictsStay == [][\A m \in Machine : Is(m, Terminal) =>
    row'[m].status \in {row[m].status, "none"}]_firmwareVars
=============================================================================
