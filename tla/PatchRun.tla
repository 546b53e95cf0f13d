-------------------------------- MODULE PatchRun --------------------------------
(***************************************************************************)
(* Patch runs (hub/patches.py): a run that installs updates on machines.   *)
(* The patch_scheduler thread queues an install_patches command per        *)
(* attempt; a command that is done only moves its target to rebooting, and *)
(* what closes it is the machine's next list of available updates, which   *)
(* the thread of a heartbeat stores and then compares with what was        *)
(* attempted.  Heartbeats may be lost, late and several at a time.         *)
(*                                                                         *)
(* One run.  Times are what they decide: windows, backoffs and timeouts    *)
(* are choices of the pass that looks at them; which updates are approved  *)
(* is a choice of the pass that asks.  A record in Old is a former name of *)
(* a machine, until a merge drops it.                                      *)
(***************************************************************************)
EXTENDS CommandQueue, Naturals, FiniteSets

CONSTANTS
    Update,
    Beat,           \* heartbeats with a list that the hub works on at once
    Old,            \* records of machines that report under another name
    NoInstall,
    PatchAttempts,  \* patch_runs.max_attempts
    PatchRetries,   \* bound: how often an operator asks for a retry
    PatchFaults     \* whether a pass can die half way

ASSUME PatchAssumption ==
    /\ NoInstall \notin Command
    /\ Old \subseteq Machine
    /\ PatchAttempts \in Nat \ {0}
    /\ PatchRetries \in Nat

VARIABLES
    run,        \* patch_runs.status, "none" when there is no row
    patching,   \* patch_run_targets: status, attempts, command_id
    items,      \* patch_run_items.status of each machine and update
    offered,    \* machine_patches
    patchPass,  \* where the scheduler is, and what it has read
    beat,       \* where each heartbeat's thread is, and what it has read
    scan,       \* the agent's _pending: no list, or one
    sent,       \* the agent's _lastSentHash: of no list, or of one
    lacks,      \* the updates the machine really has yet to install
    installs,   \* what the agent has done about each command
    leaving,    \* deletes and merges that are half done
    rearmed,    \* how often the run was retried
    unsure      \* history: machines whose search failed or whose record was removed

patchTables == <<run, patching, items, offered>>
patchAgents == <<scan, sent, lacks, installs>>
patchHistory == <<leaving, rearmed, unsure>>
patchVars == <<queueVars, patchTables, patchPass, beat, patchAgents, patchHistory>>

RunOpen == {"scheduled", "running"}
TargetTerminal == {"applied", "partial", "failed", "nothing_to_do", "expired", "cancelled"}
PatchStatus == TargetTerminal \cup {"pending", "in_flight", "rebooting"}
ItemStatus == {"none", "pending", "applied", "failed"}

NoPatching == [status |-> "none", attempts |-> 0, command |-> NoInstall]
NoPass == [pc |-> "idle", todo |-> {}, at |-> NoMachine, to |-> "none",
           updates |-> {}, command |-> NoInstall, back |-> "idle"]
NoBeat == [pc |-> "idle", of |-> NoMachine, list |-> {}, tried |-> {}]

Patching == [status : PatchStatus \cup {"none"}, attempts : Nat, command : Command \cup {NoInstall}]
PassRow == [of : Machine, row : Patching]
PassPc == {"idle", "read", "judge", "giveUp", "write", "dispatch", "claim", "items", "queue",
           "record"}
BeatPc == {"idle", "ingest", "replace", "confirm", "offered", "items", "mark", "close"}
SomeMachine == Machine \cup {NoMachine}

PatchTypeOK ==
    /\ QueueTypeOK
    /\ run \in RunOpen \cup {"none", "complete", "cancelled"}
    /\ patching \in [Machine -> Patching]
    /\ items \in [Machine -> [Update -> ItemStatus]]
    /\ offered \in [Machine -> SUBSET Update] /\ lacks \in [Machine -> SUBSET Update]
    /\ patchPass \in [pc : PassPc, todo : SUBSET PassRow, at : SomeMachine,
                      to : PatchStatus \cup {"none"}, updates : SUBSET Update,
                      command : Command \cup {NoInstall}, back : PassPc]
    /\ beat \in [Beat -> [pc : BeatPc, of : SomeMachine, list : SUBSET Update,
                          tried : SUBSET Update]]
    /\ scan \in [Machine -> SUBSET SUBSET Update] /\ sent \in [Machine -> SUBSET SUBSET Update]
    /\ installs \in [Command -> {"unclaimed", "inHand", "ok", "broke", "told"}]
    /\ leaving \subseteq {"forget", "rename"} \X Machine \X Machine
    /\ rearmed \in 0..PatchRetries /\ unsure \subseteq Machine

PatchInit ==
    /\ QueueInit
    /\ run = "none"
    /\ patching = [m \in Machine |-> NoPatching]
    /\ items = [m \in Machine |-> [u \in Update |-> "none"]]
    /\ offered = [m \in Machine |-> Update] /\ lacks = offered
    /\ patchPass = NoPass
    /\ beat = [b \in Beat |-> NoBeat]
    /\ scan = [m \in Machine |-> {}]
    /\ sent = [m \in Machine |-> {Update}]
    /\ installs = [c \in Command |-> "unclaimed"]
    /\ leaving = {} /\ rearmed = 0 /\ unsure = {}

-------------------------------------------------------------------------------
TargetsIn(rows) == {m \in Machine : rows[m].status # "none"}

(* _refresh_run_status over the rows as they are about to be.              *)
RunOf(was, rows) ==
    LET states == {rows[m].status : m \in TargetsIn(rows)}
    IN  IF was \in {"none", "cancelled"} THEN was
        ELSE IF states # {} /\ states \subseteq TargetTerminal THEN "complete"
        ELSE IF states \subseteq {"pending"} THEN "scheduled" ELSE "running"

(* Write rows, and roll the run up in the same transaction.                *)
Roll(rows) == patching' = rows /\ run' = RunOf(run, rows)

(* An UPDATE by run and machine: it hits no row when that is gone.         *)
With(m, to) ==
    IF patching[m].status = "none" THEN patching
    ELSE [patching EXCEPT ![m].status = to]

(* _mark_items: what is still pending is settled.                          *)
MarkItems(m, gone) ==
    items' = [items EXCEPT ![m] = [u \in Update |->
        IF @[u] # "pending" THEN @[u] ELSE IF u \in gone THEN "applied" ELSE "failed"]]

-------------------------------------------------------------------------------
(* Operators.                                                              *)

CreateRun(M) ==
    /\ run = "none" /\ M # {}
    /\ run' = "scheduled"
    /\ patching' = [m \in Machine |-> IF m \in M THEN [NoPatching EXCEPT !.status = "pending"]
                                                 ELSE NoPatching]
    /\ UNCHANGED <<queueVars, items, offered, patchPass, beat, patchAgents, patchHistory>>

(* cancel_run recalls the targets in flight too; their commands stay.      *)
CancelRun ==
    /\ run # "none"
    /\ run' = "cancelled"
    /\ patching' = [m \in Machine |-> IF patching[m].status \in {"pending", "in_flight"}
                                      THEN [patching[m] EXCEPT !.status = "cancelled"]
                                      ELSE patching[m]]
    /\ UNCHANGED <<queueVars, items, offered, patchPass, beat, patchAgents, patchHistory>>

RetryFailed ==
    LET again == {m \in Machine : patching[m].status \in {"failed", "expired", "cancelled"}}
        rows == [m \in Machine |-> IF m \in again THEN [NoPatching EXCEPT !.status = "pending"]
                                   ELSE patching[m]]
    IN  /\ again # {} /\ rearmed < PatchRetries
        /\ patching' = rows
        /\ run' = RunOf("scheduled", rows)
        /\ rearmed' = rearmed + 1
        /\ UNCHANGED <<queueVars, items, offered, patchPass, beat, patchAgents, leaving, unsure>>

(* A delete and a merge remove the machine's commands first, and its       *)
(* patch rows in a later transaction.                                      *)
EraseRecord(m, op) ==
    /\ op \notin leaving /\ m \notin unsure
    /\ DeleteRows(m, {c \in Command : HasRow(c) /\ machine[c] = m})
    /\ leaving' = leaving \cup {op}
    /\ unsure' = unsure \cup {op[i] : i \in 2..3}
    /\ UNCHANGED <<patchTables, patchPass, beat, patchAgents, rearmed>>

DeleteRecord(m) == m \notin Old /\ EraseRecord(m, <<"forget", m, m>>)
MergeRecords(m, n) == m \in Old /\ n \notin Old /\ EraseRecord(m, <<"rename", m, n>>)

(* forget_machine: the outcomes are kept.                                  *)
ForgetPatches(m) ==
    LET rows == [patching EXCEPT ![m] = NoPatching]
    IN  /\ <<"forget", m, m>> \in leaving
        /\ leaving' = leaving \ {<<"forget", m, m>>}
        /\ offered' = [offered EXCEPT ![m] = {}]
        /\ patching' = rows
        /\ run' = IF patching[m].status = "none" THEN run ELSE RunOf(run, rows)
        /\ UNCHANGED <<queueVars, items, patchPass, beat, patchAgents, rearmed, unsure>>

Collide(m, n) == \E u \in Update : items[m][u] # "none" /\ items[n][u] # "none"

(* rename_machine, one transaction: the survivor's lists and targets give  *)
(* way; if both records have an outcome of one update, the UPDATE of the   *)
(* items breaks a UNIQUE constraint and everything is rolled back.         *)
RenamePatches(m, n) ==
    /\ <<"rename", m, n>> \in leaving
    /\ leaving' = leaving \ {<<"rename", m, n>>}
    /\ IF Collide(m, n) THEN UNCHANGED <<patching, items, offered>>
       ELSE /\ offered' = [offered EXCEPT ![n] = offered[m], ![m] = {}]
            /\ items' = [items EXCEPT
                   ![n] = [u \in Update |-> IF @[u] # "none" THEN @[u] ELSE items[m][u]],
                   ![m] = [u \in Update |-> "none"]]
            /\ patching' = IF patching[m].status = "none" THEN patching
                           ELSE [patching EXCEPT ![n] = patching[m], ![m] = NoPatching]
    /\ UNCHANGED <<queueVars, run, patchPass, beat, patchAgents, rearmed, unsure>>

-------------------------------------------------------------------------------
(* The scheduler: reconcile_once, then dispatch_once.                      *)

PassAt(pc) == patchPass.pc = pc
Rows(M) == {[of |-> m, row |-> patching[m]] : m \in M}

PatchTick ==
    /\ PassAt("idle")
    /\ ExpireStale
    /\ patchPass' = [NoPass EXCEPT !.pc = "read"]
    /\ UNCHANGED <<patchTables, beat, patchAgents, patchHistory>>

ReadUnderWay ==
    /\ PassAt("read")
    /\ patchPass' = [patchPass EXCEPT !.pc = "judge", !.todo =
           Rows({m \in Machine : patching[m].status \in {"in_flight", "rebooting"}})]
    /\ UNCHANGED <<queueVars, patchTables, beat, patchAgents, patchHistory>>

Taking(s, pc) == [patchPass EXCEPT !.pc = pc, !.todo = @ \ {s}, !.at = s.of, !.back = patchPass.pc]
Skip(s) == [patchPass EXCEPT !.todo = @ \ {s}]

(* What an attempt that is over makes of its target: done is not applied.  *)
(* A target whose window has closed is not tried again.                    *)
Verdicts(s) ==
    LET c == s.row.command
    IN  IF c # NoInstall /\ status[c] = "done" THEN {"rebooting"}
        ELSE IF s.row.attempts >= PatchAttempts THEN {"failed"} ELSE {"pending", "expired"}

(* A target without a command has lost it with the pass that claimed it.   *)
JudgeAttempt(s) ==
    LET c == s.row.command
    IN  /\ PassAt("judge") /\ s.row.status = "in_flight"
        /\ IF c # NoInstall /\ status[c] \in {"pending", "claimed"} THEN patchPass' = Skip(s)
           ELSE \E to \in Verdicts(s) : patchPass' = [Taking(s, "write") EXCEPT !.to = to]
        /\ UNCHANGED <<queueVars, patchTables, beat, patchAgents, patchHistory>>

(* A target that was staged long ago, after those in flight.               *)
JudgeStale(s) ==
    /\ PassAt("judge") /\ s.row.status = "rebooting"
    /\ \A r \in patchPass.todo : r.row.status = "rebooting"
    /\ \/ patchPass' = Skip(s)
       \/ patchPass' = [Taking(s, "giveUp") EXCEPT !.to = "failed"]
    /\ UNCHANGED <<queueVars, patchTables, beat, patchAgents, patchHistory>>

GiveUpItems ==
    /\ PassAt("giveUp")
    /\ MarkItems(patchPass.at, {})
    /\ patchPass' = [patchPass EXCEPT !.pc = "write"]
    /\ UNCHANGED <<queueVars, run, patching, offered, beat, patchAgents, patchHistory>>

(* _finish_target and its like: whatever the row says by now.              *)
WriteStatus ==
    /\ PassAt("write")
    /\ Roll(With(patchPass.at, patchPass.to))
    /\ patchPass' = [NoPass EXCEPT !.pc = patchPass.back, !.todo = patchPass.todo]
    /\ UNCHANGED <<queueVars, items, offered, beat, patchAgents, patchHistory>>

ReadDue ==
    /\ PassAt("judge") /\ patchPass.todo = {}
    /\ patchPass' = [NoPass EXCEPT !.pc = "dispatch", !.todo =
           IF run \in RunOpen THEN Rows({m \in Machine : patching[m].status = "pending"}) ELSE {}]
    /\ UNCHANGED <<queueVars, patchTables, beat, patchAgents, patchHistory>>

(* A pending target whose window has closed, whose attempts are spent, or  *)
(* whose agent cannot install updates; or one that is not due.             *)
NotDispatched(s) ==
    /\ PassAt("dispatch")
    /\ \/ patchPass' = Skip(s)
       \/ \E to \in {"expired", "failed"} : patchPass' = [Taking(s, "write") EXCEPT !.to = to]
    /\ UNCHANGED <<queueVars, patchTables, beat, patchAgents, patchHistory>>

(* resolve_selection: of what the machine last reported.                   *)
Resolve(s, updates) ==
    /\ PassAt("dispatch") /\ s.row.attempts < PatchAttempts
    /\ updates \subseteq offered[s.of]
    /\ patchPass' = IF updates = {} THEN [Taking(s, "write") EXCEPT !.to = "nothing_to_do"]
                    ELSE [Taking(s, "claim") EXCEPT !.updates = updates]
    /\ UNCHANGED <<queueVars, patchTables, beat, patchAgents, patchHistory>>

(* Seeded faults, here and below: definitions with a plausible bug, to    *)
(* show that a property would catch it.  No specification uses them.       *)
ClaimsForNothing ==
    LET m == patchPass.at
    IN  /\ PassAt("claim")
        /\ IF patching[m].status = "pending"
           THEN /\ patching' = [patching EXCEPT ![m].status = "in_flight", ![m].command = NoInstall]
                /\ patchPass' = [patchPass EXCEPT !.pc = "items"]
           ELSE /\ patchPass' = [NoPass EXCEPT !.pc = "dispatch", !.todo = patchPass.todo]
                /\ UNCHANGED patching
        /\ UNCHANGED <<queueVars, run, items, offered, beat, patchAgents, patchHistory>>

(* _claim_target: the attempt is spent before the command is queued.       *)
ClaimPatching ==
    LET m == patchPass.at
    IN  /\ PassAt("claim")
        /\ IF patching[m].status = "pending"
           THEN /\ patching' = [patching EXCEPT ![m] = [status |-> "in_flight",
                                    attempts |-> @.attempts + 1, command |-> NoInstall]]
                /\ patchPass' = [patchPass EXCEPT !.pc = "items"]
           ELSE /\ patchPass' = [NoPass EXCEPT !.pc = "dispatch", !.todo = patchPass.todo]
                /\ UNCHANGED patching
        /\ UNCHANGED <<queueVars, run, items, offered, beat, patchAgents, patchHistory>>

(* _record_items: an update tried before is pending anew.                  *)
RecordItems ==
    /\ PassAt("items")
    /\ items' = [items EXCEPT ![patchPass.at] = [u \in Update |->
                    IF u \in patchPass.updates THEN "pending" ELSE @[u]]]
    /\ patchPass' = [patchPass EXCEPT !.pc = "queue", !.updates = {}]
    /\ UNCHANGED <<queueVars, run, patching, offered, beat, patchAgents, patchHistory>>

QueueInstall ==
    /\ PassAt("queue")
    /\ \E c \in Command : status[c] = "unissued"
    /\ LET c == CHOOSE free \in Command : status[free] = "unissued"
       IN  /\ Create(c, patchPass.at)
           /\ patchPass' = [patchPass EXCEPT !.pc = "record", !.command = c]
    /\ UNCHANGED <<patchTables, beat, patchAgents, patchHistory>>

RecordInstall ==
    LET m == patchPass.at
    IN  /\ PassAt("record")
        /\ Roll(IF patching[m].status = "none" THEN patching
                ELSE [patching EXCEPT ![m].command = patchPass.command])
        /\ patchPass' = [NoPass EXCEPT !.pc = "dispatch", !.todo = patchPass.todo]
        /\ UNCHANGED <<queueVars, items, offered, beat, patchAgents, patchHistory>>

PatchPassOver ==
    /\ PassAt("dispatch") /\ patchPass.todo = {}
    /\ patchPass' = NoPass
    /\ UNCHANGED <<queueVars, patchTables, beat, patchAgents, patchHistory>>

PatchPassDies ==
    /\ PatchFaults /\ ~PassAt("idle")
    /\ patchPass' = NoPass
    /\ UNCHANGED <<queueVars, patchTables, beat, patchAgents, patchHistory>>

-------------------------------------------------------------------------------
(* The agent and its machine.                                              *)

AgentTakes(a, m) ==
    /\ m \notin Old /\ Claimable(m) # {}
    /\ Claim(a, m)
    /\ installs' = [c \in Command |-> IF c \in Claimable(m) THEN "inHand" ELSE installs[c]]
    /\ UNCHANGED <<patchTables, patchPass, beat, scan, sent, lacks, patchHistory>>

(* InstallPatchesExecutor: an install that ends well or with nothing to do *)
(* has the next list sent whatever it says (Invalidate); one that throws   *)
(* does not.  What it did to the machine is UpdateGoes'.                   *)
Install(c, m, ends) ==
    /\ m \notin Old /\ installs[c] = "inHand" /\ machine[c] \in {m, NoMachine}
    /\ installs' = [installs EXCEPT ![c] = IF ends THEN "ok" ELSE "broke"]
    /\ sent' = IF ends THEN [sent EXCEPT ![m] = {}] ELSE sent
    /\ UNCHANGED <<queueVars, patchTables, patchPass, beat, scan, lacks, patchHistory>>

AgentAnswers(a, c) ==
    /\ installs[c] \in {"ok", "broke"} /\ status[c] = "claimed" /\ Accepts(c, a)
    /\ RecordResult(c, installs[c] = "ok")
    /\ installs' = [installs EXCEPT ![c] = "told"]
    /\ UNCHANGED <<patchTables, patchPass, beat, scan, sent, lacks, patchHistory>>

(* An update is no longer offered: installed, with or without a restart,   *)
(* by the command or by Windows itself.                                    *)
UpdateGoes(m, u) ==
    /\ m \notin Old /\ u \in lacks[m]
    /\ lacks' = [lacks EXCEPT ![m] = @ \ {u}]
    /\ UNCHANGED <<queueVars, patchTables, patchPass, beat, scan, sent, installs, patchHistory>>

(* RefreshIfDue: a search that fails lists nothing, beside an error that   *)
(* the hub does not read.                                                  *)
Search(m, fails) ==
    LET list == IF fails THEN {} ELSE lacks[m]
    IN  /\ m \notin Old /\ sent[m] # {list} /\ scan[m] # {list}
        /\ scan' = [scan EXCEPT ![m] = {list}]
        /\ unsure' = IF fails THEN unsure \cup {m} ELSE unsure
        /\ UNCHANGED <<queueVars, patchTables, patchPass, beat, sent, lacks, installs,
                       leaving, rearmed>>

-------------------------------------------------------------------------------
(* The heartbeat's thread on the hub (fleet_web.py): ingest_inventory, and *)
(* confirm_from_inventory right after it.                                  *)

BeatAt(b, pc) == beat[b].pc = pc
BeatGoes(b, pc) == beat' = [beat EXCEPT ![b].pc = pc]
BeatOver(b) == beat' = [beat EXCEPT ![b] = NoBeat]

(* TakeIfChanged takes the list as sent, also when the heartbeat is lost.  *)
SendList(m, b, lost) ==
    /\ scan[m] # {} /\ BeatAt(b, "idle")
    /\ scan' = [scan EXCEPT ![m] = {}]
    /\ sent' = [sent EXCEPT ![m] = scan[m]]
    /\ beat' = IF lost THEN beat
               ELSE [beat EXCEPT ![b] = [NoBeat EXCEPT !.pc = "ingest", !.of = m,
                                                       !.list = UNION scan[m]]]
    /\ UNCHANGED <<queueVars, patchTables, patchPass, lacks, installs, patchHistory>>

EmptiesFirst(b) ==
    /\ BeatAt(b, "ingest")
    /\ offered' = [offered EXCEPT ![beat[b].of] = {}]
    /\ BeatGoes(b, "replace")
    /\ UNCHANGED <<queueVars, run, patching, items, patchPass, patchAgents, patchHistory>>

(* ingest_inventory deletes what it read a moment ago and is not listed.   *)
ReadExisting(b) ==
    /\ BeatAt(b, "ingest")
    /\ beat' = [beat EXCEPT ![b].pc = "replace", ![b].tried = offered[beat[b].of] \ beat[b].list]
    /\ UNCHANGED <<queueVars, patchTables, patchPass, patchAgents, patchHistory>>

Ingest(b) ==
    /\ BeatAt(b, "replace")
    /\ offered' = [offered EXCEPT ![beat[b].of] = (@ \ beat[b].tried) \cup beat[b].list]
    /\ beat' = [beat EXCEPT ![b] = [NoBeat EXCEPT !.pc = "confirm", !.of = beat[b].of]]
    /\ UNCHANGED <<queueVars, run, patching, items, patchPass, patchAgents, patchHistory>>

ReadStaged(b) ==
    /\ BeatAt(b, "confirm")
    /\ IF patching[beat[b].of].status = "rebooting" THEN BeatGoes(b, "offered") ELSE BeatOver(b)
    /\ UNCHANGED <<queueVars, patchTables, patchPass, patchAgents, patchHistory>>

ReadOffered(b) ==
    /\ BeatAt(b, "offered")
    /\ beat' = [beat EXCEPT ![b].pc = "items", ![b].list = offered[beat[b].of]]
    /\ UNCHANGED <<queueVars, patchTables, patchPass, patchAgents, patchHistory>>

(* What any attempt of the run has tried on the machine.                   *)
ReadItems(b) ==
    LET tried == {u \in Update : items[beat[b].of][u] # "none"}
    IN  /\ BeatAt(b, "items")
        /\ IF tried = {} THEN BeatOver(b)
           ELSE beat' = [beat EXCEPT ![b].pc = "mark", ![b].tried = tried]
        /\ UNCHANGED <<queueVars, patchTables, patchPass, patchAgents, patchHistory>>

ConfirmItems(b) ==
    /\ BeatAt(b, "mark")
    /\ MarkItems(beat[b].of, beat[b].tried \ beat[b].list)
    /\ BeatGoes(b, "close")
    /\ UNCHANGED <<queueVars, run, patching, offered, patchPass, patchAgents, patchHistory>>

CloseTarget(b) ==
    LET left == beat[b].tried \cap beat[b].list
    IN  /\ BeatAt(b, "close")
        /\ Roll(With(beat[b].of, IF left = {} THEN "applied"
                                 ELSE IF left = beat[b].tried THEN "failed" ELSE "partial"))
        /\ BeatOver(b)
        /\ UNCHANGED <<queueVars, items, offered, patchPass, patchAgents, patchHistory>>

-------------------------------------------------------------------------------
LapseInstall(c) ==
    /\ status[c] = "pending" /\ Lapse(c)
    /\ UNCHANGED <<patchTables, patchPass, beat, patchAgents, patchHistory>>

PatchPassStep ==
    \/ PatchTick \/ ReadUnderWay \/ GiveUpItems \/ WriteStatus \/ ReadDue \/ ClaimPatching
    \/ RecordItems \/ QueueInstall \/ RecordInstall \/ PatchPassOver \/ PatchPassDies
    \/ \E s \in patchPass.todo :
         \/ JudgeAttempt(s) \/ JudgeStale(s) \/ NotDispatched(s)
         \/ \E updates \in SUBSET Update : Resolve(s, updates)

PatchOperatorStep ==
    \/ \E M \in SUBSET Machine : CreateRun(M)
    \/ CancelRun \/ RetryFailed
    \/ \E m \in Machine : \/ DeleteRecord(m) \/ ForgetPatches(m)
                          \/ \E n \in Machine : MergeRecords(m, n) \/ RenamePatches(m, n)

BeatStep(b) ==
    \/ ReadExisting(b) \/ Ingest(b) \/ ReadStaged(b) \/ ReadOffered(b) \/ ReadItems(b)
    \/ ConfirmItems(b) \/ CloseTarget(b)

PatchMachineStep(m) ==
    \/ \E a \in Agent : AgentTakes(a, m)
    \/ \E c \in Command, ends \in BOOLEAN : Install(c, m, ends)
    \/ \E u \in Update : UpdateGoes(m, u)
    \/ \E fails \in BOOLEAN : Search(m, fails)
    \/ \E b \in Beat, lost \in BOOLEAN : SendList(m, b, lost)

PatchNext ==
    \/ PatchPassStep \/ PatchOperatorStep
    \/ \E m \in Machine : PatchMachineStep(m)
    \/ \E b \in Beat : BeatStep(b)
    \/ \E c \in Command : LapseInstall(c) \/ \E a \in Agent : AgentAnswers(a, c)

PatchSpec == PatchInit /\ [][PatchNext]_patchVars

-------------------------------------------------------------------------------
(* Properties.                                                             *)

(* A run that says complete has no target under way, whoever wrote a       *)
(* target last and from how old a reading (_refresh_run_status).           *)
RunIsOver == run = "complete" =>
    \A m \in TargetsIn(patching) : patching[m].status \in TargetTerminal

(* "A machine that installs the same patch set twice is a reboot nobody    *)
(* scheduled" (_claim_target): a machine gets at most max_attempts         *)
(* commands per round, also when passes die between claim and command.     *)
SpentBeforeQueued == \A m \in Machine \ unsure :
    Cardinality({c \in Command : machine[c] = m}) <= PatchAttempts * (1 + rearmed)

(* The two, and the kinds of values in the tables.                         *)
PatchInv == PatchTypeOK /\ RunIsOver /\ SpentBeforeQueued

(* "An install is confirmed by re-reading inventory, never by an exit      *)
(* code": the machine no longer lacks an update that is recorded as        *)
(* applied, whatever lists were late, lost or stored out of order, unless  *)
(* a search of the machine failed or its record was removed under a run.   *)
AppliedIsGone == \A m \in Machine \ unsure, u \in Update :
    items[m][u] = "applied" => u \notin lacks[m]

-------------------------------------------------------------------------------
(* What the code does not keep.                                            *)

(* ... and without the proviso for searches that fail.                     *)
AppliedIsGoneAlways == \A m \in Machine, u \in Update :
    leaving = {} /\ items[m][u] = "applied" => u \notin lacks[m]

(* ... and of a target: all that was tried is gone.                        *)
ClosedIsGone == \A m \in Machine \ unsure, u \in Update :
    patching[m].status = "applied" => items[m][u] = "none" \/ u \notin lacks[m]

(* cancel_run: calling a machine cancelled that has the patches "would be  *)
(* a lie about the state of a PC": no install command outlives the cancel. *)
CancelIsTrue == \A m \in Machine : patching[m].status = "cancelled" =>
    \A c \in Command : machine[c] = m => status[c] # "claimed"

(* merge_machines: a target "must follow it rather than stall forever on a *)
(* machine that no longer exists".                                         *)
NobodyIsLeftBehind == [][\A m, n \in Machine :
    RenamePatches(m, n) => patching'[m].status = "none"]_patchVars

(* The hub takes a cancelled target back up only when an operator retries. *)
CancelStays == [][\A m \in Machine : patching[m].status = "cancelled" =>
    patching'[m].status \in {"cancelled", "none"} \/ rearmed' # rearmed]_patchVars

(* "nothing to do" is "a claim about its patch state" (dispatch_once).     *)
NothingIsTrue == \A m \in Machine : patching[m].status = "nothing_to_do" => lacks[m] = {}
=============================================================================
