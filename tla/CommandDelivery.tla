---------------------------- MODULE CommandDelivery ----------------------------
(***************************************************************************)
(* A command's way from the queue to a machine and back: the hub's request *)
(* threads (hub/fleet_web.py) over the queue (CommandQueue), the agent's   *)
(* command loop and its one task per command (Worker.cs, FleetClient.cs),  *)
(* and what separates them: requests given up on while the hub still       *)
(* serves them, replies and reports that never arrive, agents and hubs     *)
(* that restart.                                                           *)
(*                                                                         *)
(* Agent authentication is the first step of every agent request; the row  *)
(* it read may be gone by the time the handler runs.                       *)
(***************************************************************************)
EXTENDS CommandQueue, Naturals, FiniteSets

CONSTANTS
    Worker,         \* the hub's request threads
    NoWorker,
    AgentMachine,   \* the machine each agent id was enrolled for
    Control,        \* commands that bypass the concurrency cap (shell_input, ...)
    MaxConcurrent,  \* AgentConfig.MaxConcurrentCommands
    Faults          \* whether requests are lost and processes restart

ASSUME DeliveryAssumption ==
    /\ NoWorker \notin Worker
    /\ AgentMachine \in [Agent -> Machine]
    /\ Control \subseteq Command
    /\ MaxConcurrent \in Nat
    /\ Faults \in BOOLEAN

VARIABLES
    agentRow,   \* agents: "new" (id not issued yet), "live", or "gone" (row deleted)
    work,       \* what each request thread of the hub is doing
    polling,    \* the request each agent's command loop is waiting on
    local,      \* where each command is inside each agent process
    runs,       \* history: how many times a command was started on a machine
    outcome     \* history: how the work itself ended

agentVars == <<polling, local, runs, outcome>>
vars == <<queueVars, agentRow, work, agentVars>>

-------------------------------------------------------------------------------
Kind == {"idle", "poll", "reply", "result", "record", "delete"}
Request == [kind : Kind, agent : Agent \cup {NoAgent},
            cmds : SUBSET Command, ok : BOOLEAN, machine : Machine \cup {NoMachine}]

Idle == [kind |-> "idle", agent |-> NoAgent, cmds |-> {}, ok |-> FALSE,
         machine |-> NoMachine]

Place == {"none", "inHand", "running", "reporting", "refusing"}

TypeOK ==
    /\ QueueTypeOK
    /\ agentRow \in [Agent -> {"new", "live", "gone"}]
    /\ work \in [Worker -> Request]
    /\ polling \in [Agent -> Worker \cup {NoWorker}]
    /\ local \in [Agent -> [Command -> Place]]
    /\ runs \in [Command -> Nat]
    /\ outcome \in [Command -> {"none", "ok", "fail", "refused"}]

Init ==
    /\ QueueInit
    /\ agentRow = [a \in Agent |-> "new"]
    /\ work = [w \in Worker |-> Idle]
    /\ polling = [a \in Agent |-> NoWorker]
    /\ local = [a \in Agent |-> [c \in Command |-> "none"]]
    /\ runs = [c \in Command |-> 0]
    /\ outcome = [c \in Command |-> "none"]

Is(w, kind) == work[w].kind = kind

\* The entries of Worker._running: a task leaves it only after its report.
Running(a) == {c \in Command : local[a][c] \in {"running", "reporting"}}

Serve(w, request) == work' = [work EXCEPT ![w] = request]
Move(a, c, place) == local' = [local EXCEPT ![a][c] = place]

-------------------------------------------------------------------------------
(* Console, scheduler and clock.                                           *)

Issue(c, m) == Create(c, m) /\ UNCHANGED <<agentRow, work, agentVars>>

Cancel(c) == CancelIfPending(c) /\ UNCHANGED <<agentRow, work, agentVars>>

Sweep == ExpireStale /\ UNCHANGED <<agentRow, work, agentVars>>

Expire(c) == Lapse(c) /\ UNCHANGED <<agentRow, work, agentVars>>

Enroll(a) ==
    /\ agentRow[a] = "new"
    /\ agentRow' = [agentRow EXCEPT ![a] = "live"]
    /\ UNCHANGED <<queueVars, work, agentVars>>

(* delete_machine: the SELECT of the command ids, then the transaction.    *)
DeleteRead(w, m) ==
    /\ Is(w, "idle")
    /\ Serve(w, [Idle EXCEPT !.kind = "delete", !.machine = m,
                             !.cmds = {c \in Command : HasRow(c) /\ machine[c] = m}])
    /\ UNCHANGED <<queueVars, agentRow, agentVars>>

DeleteCommit(w) ==
    /\ Is(w, "delete")
    /\ DeleteRows(work[w].machine, work[w].cmds)
    /\ agentRow' = [a \in Agent |->
                      IF agentRow[a] = "live" /\ AgentMachine[a] = work[w].machine
                      THEN "gone" ELSE agentRow[a]]
    /\ Serve(w, Idle)
    /\ UNCHANGED agentVars

-------------------------------------------------------------------------------
(* The command loop: ask, claim, dispatch.                                 *)

(* PollCommandsAsync reaches the hub and authenticates.  The loop has      *)
(* dispatched the whole previous answer before it asks again.              *)
Poll(a, w) ==
    /\ agentRow[a] = "live" /\ polling[a] = NoWorker
    /\ \A c \in Command : local[a][c] \notin {"inHand", "refusing"}
    /\ Is(w, "idle")
    /\ polling' = [polling EXCEPT ![a] = w]
    /\ Serve(w, [Idle EXCEPT !.kind = "poll", !.agent = a])
    /\ UNCHANGED <<queueVars, agentRow, local, runs, outcome>>

(* The agent's HTTP timeout or a dropped connection: the agent will ask    *)
(* again, while the hub still serves the request it has.                   *)
PollGivenUp(a) ==
    /\ Faults
    /\ polling[a] # NoWorker
    /\ polling' = [polling EXCEPT ![a] = NoWorker]
    /\ UNCHANGED <<queueVars, agentRow, work, local, runs, outcome>>

(* agent_commands: claim_commands for the agent, then the response.        *)
ServePoll(w) ==
    LET a == work[w].agent
        m == AgentMachine[a]
    IN  /\ Is(w, "poll")
        /\ Claim(a, m)
        /\ Serve(w, [work[w] EXCEPT !.kind = "reply", !.cmds = Claimable(m)])
        /\ UNCHANGED <<agentRow, agentVars>>

(* The response arrives, or finds nobody on the other end any more.        *)
Deliver(w) ==
    LET a == work[w].agent
        heard == polling[a] = w
    IN  /\ Is(w, "reply")
        /\ Serve(w, Idle)
        /\ polling' = [polling EXCEPT ![a] = IF heard THEN NoWorker ELSE @]
        /\ local' = [local EXCEPT ![a] = [c \in Command |->
                        IF heard /\ c \in work[w].cmds THEN "inHand" ELSE @[c]]]
        /\ UNCHANGED <<queueVars, agentRow, runs, outcome>>

\* The loop awaits the report of a refusal before it takes the next command.
Dispatching(a) == \A c \in Command : local[a][c] # "refusing"

(* PollAndDispatchAsync on one command: its own task...                    *)
Start(a, c) ==
    /\ local[a][c] = "inHand" /\ Dispatching(a)
    /\ c \in Control \/ Cardinality(Running(a)) < MaxConcurrent
    /\ Move(a, c, "running")
    /\ runs' = [runs EXCEPT ![c] = @ + 1]
    /\ UNCHANGED <<queueVars, agentRow, work, polling, outcome>>

(* ... or, with the cap reached, a refusal reported as a failure.          *)
Refuse(a, c) ==
    /\ local[a][c] = "inHand" /\ Dispatching(a)
    /\ c \notin Control /\ Cardinality(Running(a)) >= MaxConcurrent
    /\ Move(a, c, "refusing")
    /\ outcome' = [outcome EXCEPT ![c] = "refused"]
    /\ UNCHANGED <<queueVars, agentRow, work, polling, runs>>

(* RunOneAsync: the executor returns and the report is next.               *)
Finish(a, c, ok) ==
    /\ local[a][c] = "running"
    /\ Move(a, c, "reporting")
    /\ outcome' = [outcome EXCEPT ![c] = IF ok THEN "ok" ELSE "fail"]
    /\ UNCHANGED <<queueVars, agentRow, work, polling, runs>>

-------------------------------------------------------------------------------
(* The report.  ReportResultAsync makes one attempt.                       *)

ReportsUntilAnswered(a, c, w) ==
    /\ local[a][c] \in {"reporting", "refusing"}
    /\ agentRow[a] = "live"
    /\ Is(w, "idle")
    /\ Serve(w, [Idle EXCEPT !.kind = "result", !.agent = a, !.cmds = {c},
                             !.ok = outcome[c] = "ok"])
    /\ UNCHANGED <<queueVars, agentRow, agentVars>>

Report(a, c, w) ==
    /\ local[a][c] \in {"reporting", "refusing"}
    /\ agentRow[a] = "live"
    /\ Is(w, "idle")
    /\ Move(a, c, "none")
    /\ Serve(w, [Idle EXCEPT !.kind = "result", !.agent = a, !.cmds = {c},
                             !.ok = outcome[c] = "ok"])
    /\ UNCHANGED <<queueVars, agentRow, polling, runs, outcome>>

(* The hub cannot be reached, or answers 401 because the row is gone.      *)
ReportLost(a, c) ==
    /\ local[a][c] \in {"reporting", "refusing"}
    /\ Faults \/ agentRow[a] # "live"
    /\ Move(a, c, "none")
    /\ UNCHANGED <<queueVars, agentRow, work, polling, runs, outcome>>

(* complete_command: unknown command or not this agent's: 404, 403.        *)
CheckResult(w) ==
    /\ Is(w, "result")
    /\ Serve(w, IF \A c \in work[w].cmds : Accepts(c, work[w].agent)
                THEN [work[w] EXCEPT !.kind = "record"] ELSE Idle)
    /\ UNCHANGED <<queueVars, agentRow, agentVars>>

WriteResult(w) ==
    /\ Is(w, "record")
    /\ \E c \in work[w].cmds : RecordResult(c, work[w].ok)
    /\ Serve(w, Idle)
    /\ UNCHANGED <<agentRow, agentVars>>

-------------------------------------------------------------------------------
(* Restarts.  The agent keeps its commands in memory only; the hub keeps   *)
(* everything in SQLite except the requests it is serving.                 *)

AgentRestart(a) ==
    /\ Faults
    /\ local' = [local EXCEPT ![a] = [c \in Command |-> "none"]]
    /\ polling' = [polling EXCEPT ![a] = NoWorker]
    /\ UNCHANGED <<queueVars, agentRow, work, runs, outcome>>

HubRestart ==
    /\ Faults
    /\ work' = [w \in Worker |-> Idle]
    /\ polling' = [a \in Agent |-> NoWorker]
    /\ UNCHANGED <<queueVars, agentRow, local, runs, outcome>>

-------------------------------------------------------------------------------
HubStep(w) == ServePoll(w) \/ Deliver(w) \/ CheckResult(w) \/ WriteResult(w) \/ DeleteCommit(w)

AgentStep(a) ==
    \/ \E w \in Worker : Poll(a, w)
    \/ \E c \in Command :
         \/ Start(a, c) \/ Refuse(a, c) \/ ReportLost(a, c)
         \/ \E ok \in BOOLEAN : Finish(a, c, ok)
         \/ \E w \in Worker : Report(a, c, w)

Next ==
    \/ \E c \in Command, m \in Machine : Issue(c, m)
    \/ \E c \in Command : Cancel(c) \/ Expire(c)
    \/ Sweep
    \/ \E w \in Worker, m \in Machine : DeleteRead(w, m)
    \/ \E w \in Worker : HubStep(w)
    \/ \E a \in Agent : Enroll(a) \/ AgentStep(a) \/ PollGivenUp(a) \/ AgentRestart(a)
    \/ HubRestart

Spec == Init /\ [][Next]_vars

(***************************************************************************)
(* Fairness.  The request threads run, the deployment scheduler calls      *)
(* expire_stale_commands on every tick, time passes, and a live agent's    *)
(* loop and tasks make progress; its poll wants some idle thread, which    *)
(* its pool gives it again and again.  Nobody has to issue, cancel,        *)
(* delete or enroll anything, and no fault has to happen.                  *)
(***************************************************************************)
Fairness ==
    /\ WF_vars(Sweep)
    /\ \A c \in Command : WF_vars(Expire(c))
    /\ \A w \in Worker : WF_vars(HubStep(w))
    /\ \A a \in Agent : /\ SF_vars(\E w \in Worker : Poll(a, w))
                        /\ \A c \in Command :
                             /\ SF_vars(Start(a, c)) /\ SF_vars(Refuse(a, c))
                             /\ WF_vars(\E ok \in BOOLEAN : Finish(a, c, ok))
                             /\ SF_vars(\E w \in Worker : Report(a, c, w))
                             /\ WF_vars(agentRow[a] # "live" /\ ReportLost(a, c))

FairSpec == Spec /\ Fairness

-------------------------------------------------------------------------------
(* Properties.                                                             *)

\* The claim response of one request, or one agent's undispatched answer.
CarriedBy(w, c) == Is(w, "reply") /\ c \in work[w].cmds
Held(c) == \/ \E w \in Worker : CarriedBy(w, c)
           \/ \E a \in Agent : local[a][c] = "inHand"

(* "Marking claimed here (rather than on result) makes delivery            *)
(* at-most-once": whatever is lost, retried or restarted, no command is    *)
(* started on a machine twice (claim_commands).                            *)
AtMostOnce == \A c \in Command : runs[c] <= 1

(* The copies of a claimed command outside the queue: in a response or a   *)
(* report some request thread holds, or inside an agent process.           *)
Carrying(w, c) == work[w].kind \in {"reply", "result", "record"} /\ c \in work[w].cmds

OneCopy ==
    /\ \A c \in Command : \A v, w \in Worker : Carrying(v, c) /\ Carrying(w, c) => v = w
    /\ \A c \in Command : \A w \in Worker, a \in Agent : Carrying(w, c) => local[a][c] = "none"
    /\ \A c \in Command : \A a, b \in Agent :
         local[a][c] # "none" /\ local[b][c] # "none" => a = b

\* A copy exists only while the command is claimed, or its row is gone.
CopyIsClaimed == \A c \in Command :
    \/ status[c] \in {"claimed", "deleted"}
    \/ /\ \A w \in Worker : ~Carrying(w, c)
       /\ \A a \in Agent : local[a][c] = "none"

\* What has happened to a command whose copy travels, ...
CarriedIsFaithful == \A c \in Command, w \in Worker : Carrying(w, c) =>
    IF Is(w, "reply") THEN runs[c] = 0 /\ outcome[c] = "none"
    ELSE outcome[c] # "none" /\ (work[w].ok <=> outcome[c] = "ok")

\* ... is inside an agent, ...
LocalIsFaithful == \A c \in Command, a \in Agent :
    /\ local[a][c] = "inHand" => runs[c] = 0 /\ outcome[c] = "none"
    /\ local[a][c] = "running" => outcome[c] = "none"
    /\ local[a][c] = "reporting" => outcome[c] \in {"ok", "fail"}
    /\ local[a][c] = "refusing" => outcome[c] = "refused"

\* ... or was never made.
UnclaimedIsUntouched == \A c \in Command :
    status[c] \in {"unissued", "pending", "expired"} =>
        runs[c] = 0 /\ outcome[c] = "none" /\ result[c] = "none"

(* The history of a command, its copies and its row agree, and there is    *)
(* never more than one copy: what makes the claim at-most-once.            *)
Custody ==
    OneCopy /\ CopyIsClaimed /\ CarriedIsFaithful /\ LocalIsFaithful /\ UnclaimedIsUntouched

(* What the console and the schedulers read off a command is what          *)
(* happened: done only if the work ran and succeeded, failed only if it    *)
(* ran and failed or the agent refused it (complete_command, RunOneAsync). *)
StatusIsReal == \A c \in Command :
    /\ status[c] = "done" => outcome[c] = "ok"
    /\ status[c] = "failed" => outcome[c] \in {"fail", "refused"}
    /\ HasRow(c) => (result[c] = "ok" <=> status[c] = "done")
    /\ HasRow(c) => (result[c] = "fail" <=> status[c] = "failed")

(* A settled command stays as it is until its machine is deleted, although *)
(* complete_command never looks at the status it overwrites.               *)
SettledIsFinal ==
    [][\A c \in Command : status[c] \in Settled =>
         status'[c] \in {status[c], "deleted"}]_vars

(* A command nobody picks up does not wait for ever: claimed or expired    *)
(* (expire_stale_commands).                                                *)
PendingIsRetired == \A c \in Command : (status[c] = "pending") ~> (status[c] # "pending")

(* With nothing lost, a command claimed by an agent that stays enrolled    *)
(* gets its result.                                                        *)
ClaimedIsAnswered == \A c \in Command, a \in Agent :
    (status[c] = "claimed" /\ claimedBy[c] = a)
        ~> (status[c] # "claimed" \/ agentRow[a] # "live")

(* RunOneAsync, when the report of finished work cannot be sent: "the hub  *)
(* will expire it".                                                        *)
LostReportIsExpired == \A c \in Command :
    (status[c] = "claimed" /\ outcome[c] # "none" /\ \A a \in Agent : local[a][c] = "none")
        ~> (status[c] # "claimed")

(* delete_machine: "Remove all fleet rows for a machine: ... and the       *)
(* command_results ... tied to those commands": a deleted command leaves   *)
(* no result row.                                                          *)
NoOrphanResult == \A c \in Command : status[c] = "deleted" => result[c] = "none"

\* The ids a delete read are still rows of its machine, or already gone.
DeleteScope == \A w \in Worker : Is(w, "delete") =>
    \A c \in work[w].cmds :
        \/ status[c] = "deleted"
        \/ status[c] # "unissued" /\ machine[c] = work[w].machine

\* The inductive invariant behind the properties above.
IInv == TypeOK /\ Custody /\ StatusIsReal /\ AtMostOnce /\ DeleteScope

(* The abstract promise (WorkOrder), and this module as its                *)
(* implementation.                                                         *)
phaseOf == [c \in Command |->
    IF runs[c] > 0 THEN "started"
    ELSE IF status[c] = "unissued" THEN "unissued"
    ELSE IF status[c] = "pending" THEN "queued"
    ELSE IF Held(c) THEN "handed" ELSE "void"]

Order == INSTANCE WorkOrder WITH phase <- phaseOf, starts <- runs
ImplementsWorkOrder == Order!Spec
=============================================================================
