------------------------------- MODULE Deployment -------------------------------
(***************************************************************************)
(* Package deployments (hub/packages.py): one row per deployment and one   *)
(* per machine it targets, advanced by the deploy_scheduler thread, which  *)
(* queues a deploy_package command per attempt and reads its status back.  *)
(* The scheduler is the only one of its kind; operators, machine deletion  *)
(* and the agents act between any two of its transactions.                 *)
(*                                                                         *)
(* The clock is abstracted to what it decides: which commands have lapsed, *)
(* which targets wait for their window or their backoff, which windows     *)
(* have closed.  A half-pass takes `now` just before it reads; no time     *)
(* passes between the two here.                                            *)
(***************************************************************************)
EXTENDS CommandQueue, Naturals, FiniteSets

CONSTANTS
    Deployment,
    NoCommand,
    MaxAttempts,    \* deployments.max_attempts
    MaxRetries,     \* bound: how often an operator asks for a retry
    Duplicate,      \* the machine records that a merge may drop
    Operations      \* bound: what operators do in this instance, see OperatorStep

Target == Deployment \X Machine
NoTarget == <<NoMachine, NoMachine>>

ASSUME DeploymentAssumption ==
    /\ NoCommand \notin Command
    /\ NoMachine \notin Deployment
    /\ MaxAttempts \in Nat \ {0}
    /\ MaxRetries \in Nat
    /\ Duplicate \subseteq Machine

VARIABLES
    deployment, \* deployments.status, "none" when there is no row
    row,        \* deployment_targets: status, attempts, command_id
    waiting,    \* targets whose next_attempt_at or window_start is ahead
    closed,     \* deployments whose window_end has passed
    broken,     \* deployments whose package definition was deleted
    unable,     \* machines that report they cannot install packages
    sched,      \* where the scheduler is in its pass, and what it has read
    ops,        \* operations of operators that are half done
    retries,    \* how often each deployment was retried
    madeFor     \* the target in each command's params

tableVars == <<deployment, row>>
worldVars == <<waiting, closed, broken, unable>>
deployVars == <<queueVars, tableVars, worldVars, sched, ops, retries, madeFor>>

-------------------------------------------------------------------------------
Terminal == {"succeeded", "failed", "expired", "cancelled"}
TargetStatus == {"pending", "in_flight"} \cup Terminal
DeploymentStatus == {"scheduled", "running", "complete", "cancelled"}
Open == {"scheduled", "running"}

NoTargetRow == [status |-> "none", attempts |-> 0, command |-> NoCommand]
Row == [status : TargetStatus \cup {"none"}, attempts : 0..MaxAttempts,
        command : Command \cup {NoCommand}]

Seen == [target : Target, attempts : 0..MaxAttempts, command : Command \cup {NoCommand},
         closed : BOOLEAN]
Verdict == [target : Target, status : TargetStatus]
Pc == {"idle", "inFlight", "judge", "settle", "pending", "retire", "claim",
       "queue", "record", "refresh", "write"}

Asleep == [pc |-> "idle", seen |-> {}, verdicts |-> {}, ready |-> {},
           target |-> NoTarget, command |-> NoCommand, touched |-> {}, to |-> "none"]

DeployTypeOK ==
    /\ QueueTypeOK
    /\ deployment \in [Deployment -> DeploymentStatus \cup {"none"}]
    /\ row \in [Target -> Row]
    /\ waiting \subseteq Target
    /\ closed \subseteq Deployment /\ broken \subseteq Deployment
    /\ unable \subseteq Machine
    /\ sched.pc \in Pc
    /\ sched.seen \subseteq Seen
    /\ sched.verdicts \subseteq Verdict
    /\ sched.ready \subseteq Target
    /\ sched.target \in (Deployment \cup {NoMachine}) \X (Machine \cup {NoMachine})
    /\ sched.command \in Command \cup {NoCommand}
    /\ sched.touched \subseteq Deployment
    /\ sched.to \in DeploymentStatus \cup {"none"}
    /\ retries \in [Deployment -> 0..MaxRetries]
    /\ madeFor \in [Command -> Target \cup {NoTarget}]

Init ==
    /\ QueueInit
    /\ deployment = [d \in Deployment |-> "none"]
    /\ row = [t \in Target |-> NoTargetRow]
    /\ waiting = {} /\ closed = {} /\ broken = {} /\ unable = {}
    /\ sched = Asleep
    /\ ops = {}
    /\ retries = [d \in Deployment |-> 0]
    /\ madeFor = [c \in Command |-> NoTarget]

HasTargetRow(t) == row[t].status # "none"
TargetsOf(d, rows) == {t \in Target : t[1] = d /\ rows[t].status # "none"}
Is(pc) == sched.pc = pc

(* _refresh_deployment_status over the rows as they are (about to be).     *)
(* Cancelled is sticky.                                                    *)
RollUp(d, rows) ==
    LET states == {rows[t].status : t \in TargetsOf(d, rows)}
    IN  IF deployment[d] \in {"none", "cancelled"} THEN deployment[d]
        ELSE IF states # {} /\ states \subseteq Terminal THEN "complete"
        ELSE IF states \subseteq {"pending"} THEN "scheduled" ELSE "running"

Refreshed(D, rows) == [d \in Deployment |-> IF d \in D THEN RollUp(d, rows) ELSE deployment[d]]

-------------------------------------------------------------------------------
(* What operators do (packages_web.py, app.delete_machine, merge).         *)

(* create_deployment: a window that has not opened keeps targets waiting.  *)
CreateDeployment(d, machines, opened) ==
    LET targets == {d} \X machines
    IN  /\ deployment[d] = "none"
        /\ deployment' = [deployment EXCEPT ![d] = "scheduled"]
        /\ row' = [t \in Target |-> IF t \in targets
                                    THEN [NoTargetRow EXCEPT !.status = "pending"] ELSE row[t]]
        /\ waiting' = IF opened THEN waiting ELSE waiting \cup targets
        /\ UNCHANGED <<queueVars, closed, broken, unable, sched, ops, retries, madeFor>>

(* cancel_deployment looks at the status, and then opens its transaction.  *)
CancelCheck(d) ==
    /\ deployment[d] \notin {"none", "complete"}
    /\ ops' = ops \cup {<<"cancel", d>>}
    /\ UNCHANGED <<queueVars, tableVars, worldVars, sched, retries, madeFor>>

CancelCommit(d) ==
    /\ <<"cancel", d>> \in ops
    /\ ops' = ops \ {<<"cancel", d>>}
    /\ row' = [t \in Target |-> IF t[1] = d /\ row[t].status = "pending"
                                THEN [row[t] EXCEPT !.status = "cancelled"] ELSE row[t]]
    /\ deployment' = [deployment EXCEPT ![d] = "cancelled"]
    /\ UNCHANGED <<queueVars, worldVars, sched, retries, madeFor>>

(* Seeded faults, here and below: what a definition would be with a        *)
(* plausible bug in the code it models.  No specification uses them.       *)
RetriesQuietly(d) ==
    LET again == {t \in TargetsOf(d, row) : row[t].status \in {"failed", "expired", "cancelled"}}
    IN  /\ again # {} /\ retries[d] < MaxRetries
        /\ row' = [t \in Target |-> IF t \in again
                                    THEN [row[t] EXCEPT !.status = "pending", !.attempts = 0]
                                    ELSE row[t]]
        /\ waiting' = waiting \ again
        /\ retries' = [retries EXCEPT ![d] = @ + 1]
        /\ UNCHANGED <<queueVars, deployment, closed, broken, unable, sched, ops, madeFor>>

(* retry_deployment_failures, from any status, cancelled too: due at once, *)
(* unless the window itself has not opened.                                *)
RetryFailures(d) ==
    LET again == {t \in TargetsOf(d, row) : row[t].status \in {"failed", "expired", "cancelled"}}
    IN  /\ again # {} /\ retries[d] < MaxRetries
        /\ row' = [t \in Target |-> IF t \in again
                                    THEN [row[t] EXCEPT !.status = "pending", !.attempts = 0]
                                    ELSE row[t]]
        /\ deployment' = [deployment EXCEPT ![d] = "running"]
        /\ \E early \in {{}, waiting \cap again} : waiting' = (waiting \ again) \cup early
        /\ retries' = [retries EXCEPT ![d] = @ + 1]
        /\ UNCHANGED <<queueVars, closed, broken, unable, sched, ops, madeFor>>

(* app.delete_machine removes the machine's commands first and its targets *)
(* in a later transaction; a merge does the same and renames the targets.  *)
DeleteMachine(m) ==
    /\ DeleteRows(m, {c \in Command : HasRow(c) /\ machine[c] = m})
    /\ ops' = ops \cup {<<"forget", m>>}
    /\ UNCHANGED <<tableVars, worldVars, sched, retries, madeFor>>

ForgetMachine(m) ==
    LET left == [t \in Target |-> IF t[2] = m THEN NoTargetRow ELSE row[t]]
        affected == {d \in Deployment : HasTargetRow(<<d, m>>)}
    IN  /\ <<"forget", m>> \in ops
        /\ ops' = ops \ {<<"forget", m>>}
        /\ row' = left
        /\ deployment' = Refreshed(affected, left)
        /\ waiting' = {t \in waiting : t[2] # m}
        /\ UNCHANGED <<queueVars, closed, broken, unable, sched, retries, madeFor>>

MergeMachines(m, n) ==
    /\ m \in Duplicate /\ n \notin Duplicate
    /\ DeleteRows(m, {c \in Command : HasRow(c) /\ machine[c] = m})
    /\ ops' = ops \cup {<<"rename", m, n>>}
    /\ UNCHANGED <<tableVars, worldVars, sched, retries, madeFor>>

(* rename_machine: the rows move, or go where the survivor has one.  The   *)
(* deployments' roll-up is left as it was.                                 *)
RenameMachine(m, n) ==
    /\ <<"rename", m, n>> \in ops
    /\ ops' = ops \ {<<"rename", m, n>>}
    /\ row' = [t \in Target |-> IF t[2] = m THEN NoTargetRow
                                ELSE IF t[2] = n /\ ~HasTargetRow(t) THEN row[<<t[1], m>>]
                                ELSE row[t]]
    /\ waiting' = {t \in Target : /\ t[2] # m
                                  /\ IF t[2] = n /\ ~HasTargetRow(t)
                                     THEN <<t[1], m>> \in waiting ELSE t \in waiting}
    /\ UNCHANGED <<queueVars, deployment, closed, broken, unable, sched, retries, madeFor>>

DeletePackage(d) ==
    /\ d \notin broken
    /\ broken' = broken \cup {d}
    /\ UNCHANGED <<queueVars, tableVars, waiting, closed, unable, sched, ops, retries, madeFor>>

-------------------------------------------------------------------------------
(* The clock, and the agents as the scheduler sees them.                   *)

Clock(t) ==
    /\ t \in waiting
    /\ waiting' = waiting \ {t}
    /\ UNCHANGED <<queueVars, tableVars, closed, broken, unable, sched, ops, retries, madeFor>>

CloseWindow(d) ==
    /\ deployment[d] # "none" /\ d \notin closed
    /\ closed' = closed \cup {d}
    /\ UNCHANGED <<queueVars, tableVars, waiting, broken, unable, sched, ops, retries, madeFor>>

LapseCommand(c) ==
    /\ status[c] = "pending"
    /\ Lapse(c)
    /\ UNCHANGED <<tableVars, worldVars, sched, ops, retries, madeFor>>

ReportsInability(m) ==
    /\ m \notin unable
    /\ unable' = unable \cup {m}
    /\ UNCHANGED <<queueVars, tableVars, waiting, closed, broken, sched, ops, retries, madeFor>>

AgentClaims(a, m) ==
    /\ Claimable(m) # {}
    /\ Claim(a, m)
    /\ UNCHANGED <<tableVars, worldVars, sched, ops, retries, madeFor>>

AgentReports(a, c, ok) ==
    /\ status[c] = "claimed" /\ Accepts(c, a)
    /\ RecordResult(c, ok)
    /\ UNCHANGED <<tableVars, worldVars, sched, ops, retries, madeFor>>

-------------------------------------------------------------------------------
(* reconcile_once: sweep, read the rows, read each command, then one       *)
(* transaction for every verdict.                                          *)

Tick ==
    /\ Is("idle")
    /\ ExpireStale
    /\ sched' = [Asleep EXCEPT !.pc = "inFlight"]
    /\ UNCHANGED <<tableVars, worldVars, ops, retries, madeFor>>

(* What the pass keeps of the rows it SELECTs.                             *)
Snapshot(T) == {[target |-> t, attempts |-> row[t].attempts, command |-> row[t].command,
                 closed |-> t[1] \in closed] : t \in T}

ReadsEveryAttempt ==
    /\ Is("inFlight")
    /\ sched' = [sched EXCEPT !.pc = "judge",
                              !.seen = Snapshot({t \in Target : row[t].command # NoCommand})]
    /\ UNCHANGED <<queueVars, tableVars, worldVars, ops, retries, madeFor>>

ReadInFlight ==
    /\ Is("inFlight")
    /\ sched' = [sched EXCEPT !.pc = "judge",
                              !.seen = Snapshot({t \in Target : row[t].status = "in_flight"})]
    /\ UNCHANGED <<queueVars, tableVars, worldVars, ops, retries, madeFor>>

(* _terminal_outcome.  A row in flight with no command, and a command that *)
(* is gone, are failed attempts.                                           *)
WaitsForTheUnqueued(c) == c = NoCommand \/ status[c] \in {"pending", "claimed"}
Unfinished(c) == c # NoCommand /\ status[c] \in {"pending", "claimed"}
Succeeded(c) == c # NoCommand /\ status[c] = "done"

\* What becomes of a target whose attempt is over.
Outcome(s) ==
    IF Succeeded(s.command) THEN "succeeded"
    ELSE IF s.attempts >= MaxAttempts THEN "failed"
    ELSE IF s.closed THEN "expired" ELSE "pending"

Judge(s) ==
    /\ Is("judge") /\ s \in sched.seen
    /\ sched' = [sched EXCEPT !.seen = @ \ {s},
                    !.verdicts = IF Unfinished(s.command) THEN @
                                 ELSE @ \cup {[target |-> s.target, status |-> Outcome(s)]}]
    /\ UNCHANGED <<queueVars, tableVars, worldVars, ops, retries, madeFor>>

(* _retire: every verdict on a row that still exists, whatever that row    *)
(* says by now, and the roll-up of the deployments they belong to.         *)
ApplyVerdicts(next) ==
    LET statusOf(t) == {v.status : v \in {u \in sched.verdicts : u.target = t}}
        rows == [t \in Target |-> IF HasTargetRow(t) /\ statusOf(t) # {}
                                  THEN [row[t] EXCEPT !.status = CHOOSE x \in statusOf(t) : TRUE]
                                  ELSE row[t]]
        judged == {t \in Target : statusOf(t) # {}}
    IN  /\ row' = rows
        /\ deployment' = Refreshed({t[1] : t \in judged}, rows)
        /\ waiting' = (waiting \ judged) \cup {t \in judged : "pending" \in statusOf(t)}
        /\ sched' = [sched EXCEPT !.pc = next, !.verdicts = {}]
        /\ UNCHANGED <<queueVars, closed, broken, unable, ops, retries, madeFor>>

Settle == Is("judge") /\ sched.seen = {} /\ ApplyVerdicts("pending")

-------------------------------------------------------------------------------
(* dispatch_once: read and decide, retire what cannot run, then claim,     *)
(* queue and record each target that can, in transactions of their own.    *)

ReadPending ==
    LET candidates == {t \in Target : row[t].status = "pending" /\ deployment[t[1]] \in Open}
        late == {t \in candidates : t[1] \in closed}
        hopeless == {t \in candidates \ (late \cup waiting) :
                       t[2] \in unable \/ t[1] \in broken \/ row[t].attempts >= MaxAttempts}
    IN  /\ Is("pending")
        /\ sched' = [sched EXCEPT !.pc = "retire",
                        !.verdicts = [target : late, status : {"expired"}]
                                     \cup [target : hopeless, status : {"failed"}],
                        !.ready = candidates \ (late \cup waiting \cup hopeless)]
        /\ UNCHANGED <<queueVars, tableVars, worldVars, ops, retries, madeFor>>

Retire == Is("retire") /\ ApplyVerdicts("claim")

QueuesBeforeItClaims(t) ==
    /\ Is("claim") /\ t \in sched.ready
    /\ row[t].status = "pending"
    /\ sched' = [sched EXCEPT !.ready = @ \ {t}, !.pc = "queue", !.target = t]
    /\ UNCHANGED <<queueVars, tableVars, worldVars, ops, retries, madeFor>>

ClaimsForFree(t) ==
    /\ Is("claim") /\ t \in sched.ready
    /\ row[t].status = "pending"
    /\ row' = [row EXCEPT ![t] = [@ EXCEPT !.status = "in_flight", !.command = NoCommand]]
    /\ sched' = [sched EXCEPT !.ready = @ \ {t}, !.pc = "queue", !.target = t]
    /\ UNCHANGED <<queueVars, deployment, worldVars, ops, retries, madeFor>>

(* _claim_target: only a row that is still pending is claimed.             *)
ClaimTarget(t) ==
    /\ Is("claim") /\ t \in sched.ready
    /\ row[t].status = "pending"
    /\ row' = [row EXCEPT ![t] = [status |-> "in_flight", attempts |-> @.attempts + 1,
                                  command |-> NoCommand]]
    /\ sched' = [sched EXCEPT !.ready = @ \ {t}, !.pc = "queue", !.target = t]
    /\ UNCHANGED <<queueVars, deployment, worldVars, ops, retries, madeFor>>

SkipTarget(t) ==
    /\ Is("claim") /\ t \in sched.ready
    /\ row[t].status # "pending"
    /\ sched' = [sched EXCEPT !.ready = @ \ {t}]
    /\ UNCHANGED <<queueVars, tableVars, worldVars, ops, retries, madeFor>>

(* create_command: a fresh id, unless the machine has just reported that   *)
(* it cannot: then it raises, and the pass is over.                        *)
Fresh == CHOOSE c \in Command : status[c] = "unissued"

QueueCommand ==
    /\ Is("queue")
    /\ sched.target[2] \notin unable
    /\ \E c \in Command : status[c] = "unissued"
    /\ Create(Fresh, sched.target[2])
    /\ madeFor' = [madeFor EXCEPT ![Fresh] = sched.target]
    /\ sched' = [sched EXCEPT !.pc = "record", !.command = Fresh]
    /\ UNCHANGED <<tableVars, worldVars, ops, retries>>

QueueRefused ==
    /\ Is("queue")
    /\ sched.target[2] \in unable
    /\ sched' = Asleep
    /\ UNCHANGED <<queueVars, tableVars, worldVars, ops, retries, madeFor>>

RecordCommand ==
    LET t == sched.target
    IN  /\ Is("record")
        /\ row' = IF HasTargetRow(t) THEN [row EXCEPT ![t].command = sched.command] ELSE row
        /\ sched' = [sched EXCEPT !.pc = "claim", !.target = NoTarget, !.command = NoCommand,
                                  !.touched = @ \cup {t[1]}]
        /\ UNCHANGED <<queueVars, deployment, worldVars, ops, retries, madeFor>>

Dispatched ==
    /\ Is("claim") /\ sched.ready = {}
    /\ sched' = [sched EXCEPT !.pc = "refresh"]
    /\ UNCHANGED <<queueVars, tableVars, worldVars, ops, retries, madeFor>>

(* The last block of dispatch_once rolls the touched deployments up.  It   *)
(* reads before it writes, so the first write opens the transaction: until *)
(* then what was read may be out of date, and after it nothing is.         *)
RefreshRead(d) ==
    LET to == RollUp(d, row)
    IN  /\ Is("refresh") /\ d \in sched.touched
        /\ sched' = IF to = deployment[d] THEN [sched EXCEPT !.touched = @ \ {d}]
                    ELSE [sched EXCEPT !.pc = "write", !.to = to, !.target = <<d, NoMachine>>]
        /\ UNCHANGED <<queueVars, tableVars, worldVars, ops, retries, madeFor>>

RefreshWrite ==
    LET d == sched.target[1]
    IN  /\ Is("write")
        /\ deployment' = [Refreshed(sched.touched, row) EXCEPT ![d] = sched.to]
        /\ sched' = Asleep
        /\ UNCHANGED <<queueVars, row, worldVars, ops, retries, madeFor>>

PassOver ==
    /\ Is("refresh") /\ sched.touched = {}
    /\ sched' = Asleep
    /\ UNCHANGED <<queueVars, tableVars, worldVars, ops, retries, madeFor>>

(* The hub stops, or a statement of the pass raises: the loop logs it and  *)
(* starts over at the next tick.                                           *)
PassDies ==
    /\ ~Is("idle")
    /\ sched' = Asleep
    /\ UNCHANGED <<queueVars, tableVars, worldVars, ops, retries, madeFor>>

-------------------------------------------------------------------------------
Reconcile == Tick \/ ReadInFlight \/ (\E s \in sched.seen : Judge(s)) \/ Settle

Dispatch ==
    \/ ReadPending \/ Retire
    \/ \E t \in sched.ready : ClaimTarget(t) \/ SkipTarget(t)
    \/ QueueCommand \/ QueueRefused \/ RecordCommand \/ Dispatched
    \/ \E d \in sched.touched : RefreshRead(d)
    \/ RefreshWrite \/ PassOver

OperatorStep ==
    \/ \E d \in Deployment :
         \/ \E machines \in SUBSET Machine \ {{}}, opened \in BOOLEAN : CreateDeployment(d, machines, opened)
         \/ "cancel" \in Operations /\ CancelCheck(d)
         \/ CancelCommit(d)
         \/ "retry" \in Operations /\ RetryFailures(d)
         \/ "package" \in Operations /\ DeletePackage(d)
    \/ \E m \in Machine :
         \/ "delete" \in Operations /\ DeleteMachine(m)
         \/ ForgetMachine(m)

AgentStep == \E a \in Agent :
    \/ \E m \in Machine : AgentClaims(a, m)
    \/ \E c \in Command, ok \in BOOLEAN : AgentReports(a, c, ok)

WorldStep ==
    \/ \E t \in Target : Clock(t)
    \/ \E d \in Deployment : CloseWindow(d)
    \/ \E c \in Command : LapseCommand(c)
    \/ \E m \in Machine : "inability" \in Operations /\ ReportsInability(m)

MergeStep == \E m, n \in Machine : MergeMachines(m, n) \/ RenameMachine(m, n)

Next == Reconcile \/ Dispatch \/ OperatorStep \/ AgentStep \/ WorldStep

(* Passes die and records are merged at any point.                         *)
FaultyNext == Next \/ PassDies \/ MergeStep

Spec == Init /\ [][Next]_deployVars

FaultySpec == Init /\ [][FaultyNext]_deployVars

(***************************************************************************)
(* Fairness.  The hub's own: the scheduler thread runs and time passes.    *)
(* Agents need not claim anything, but with FairSpec an agent that claimed *)
(* a command reports it in the end.                                        *)
(***************************************************************************)
HubFairness ==
    /\ WF_deployVars(Reconcile) /\ WF_deployVars(Dispatch)
    /\ \A t \in Target : WF_deployVars(Clock(t))
    /\ \A c \in Command : WF_deployVars(LapseCommand(c))

HubFairSpec == Spec /\ HubFairness

FairSpec ==
    /\ Spec
    /\ HubFairness
    /\ \A c \in Command : WF_deployVars(\E a \in Agent, ok \in BOOLEAN : AgentReports(a, c, ok))

-------------------------------------------------------------------------------
(* Properties.                                                             *)

Live(c) == status[c] \in {"pending", "claimed"}

(* As long as no pass dies, a live install command is the one its target waits  *)
(* for: in flight under that id, about to be recorded, or no target of     *)
(* anyone's any more.  So no machine runs the same deployment twice at a   *)
(* time, and no target is settled while its installer runs (_claim_target, *)
(* "a double install is not [recoverable]").                               *)
LiveIsTracked == \A c \in Command : Live(c) /\ madeFor[c] # NoTarget =>
    LET t == madeFor[c]
    IN  \/ ~HasTargetRow(t)
        \/ row[t].status = "in_flight" /\ row[t].command = c
        \/ /\ row[t].status = "in_flight" /\ row[t].command = NoCommand
           /\ Is("record") /\ sched.target = t /\ sched.command = c

OneInstall == \A c, e \in Command :
    Live(c) /\ Live(e) /\ madeFor[c] = madeFor[e] /\ madeFor[c] # NoTarget => c = e

(* A target gets no more commands than its budget, counting every retry    *)
(* as a fresh one, even when passes die half way (max_attempts).           *)
BudgetIsKept == \A t \in Target :
    Cardinality({c \in Command : madeFor[c] = t}) <= MaxAttempts * (1 + retries[t[1]])

(* A deployment that says complete has nothing left to do, whoever wrote   *)
(* the status last (_refresh_deployment_status).                           *)
CompleteIsOver == \A d \in Deployment : deployment[d] = "complete" =>
    \A t \in TargetsOf(d, row) : row[t].status \in Terminal

(* The two, and the kinds of values in the tables.                         *)
DeployInv == DeployTypeOK /\ BudgetIsKept /\ CompleteIsOver

(* Only an operator's retry takes a settled target back, although _retire  *)
(* writes its verdicts whatever the row says by then.                      *)
OnlyARetryReopens ==
    [][\A t \in Target : row[t].status \in Terminal /\ row'[t].status \notin Terminal \cup {"none"}
         => retries' # retries]_deployVars

(* Every target of a deployment nobody cancels is settled in the end, with *)
(* agents that never come back, windows that close, packages that are      *)
(* deleted and operators that retry ("a target nothing ever moves again is *)
(* not [recoverable]", reconcile_once).                                    *)
TargetsEnd == \A t \in Target :
    (row[t].status \in {"pending", "in_flight"})
        ~> (row[t].status \in Terminal \cup {"none"} \/ deployment[t[1]] = "cancelled")

(* "Cancelled is sticky": a deployment an operator stopped does not flip   *)
(* back to running (_refresh_deployment_status).                           *)
CancelledIsSticky ==
    [][\A d \in Deployment : deployment[d] = "cancelled" /\ deployment'[d] # "cancelled"
         => retries' # retries]_deployVars

(* cancel_deployment: "Targets that haven't reached a terminal state       *)
(* become `cancelled`; ones already in flight are left alone."             *)
CancelledEnds == \A t \in Target :
    (deployment[t[1]] = "cancelled")
        ~> (deployment[t[1]] # "cancelled" \/ row[t].status \in Terminal \cup {"none"})

(* An open deployment completes or is cancelled.  forget_machine: a machine *)
(* record going away "must not leave a deployment permanently stuck".      *)
DeploymentsEnd == \A d \in Deployment :
    (deployment[d] \in Open) ~> (deployment[d] \notin Open)
=============================================================================
