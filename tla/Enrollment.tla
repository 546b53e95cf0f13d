------------------------------ MODULE Enrollment ------------------------------
(***************************************************************************)
(* Who an agent is (hub/fleet.py, hub/onboarding.py, FleetClient.cs): the  *)
(* hub's `agents` and `decommissioned_agents` rows, the onboarding codes   *)
(* and the machine records that reports leave behind, against the one      *)
(* identity that each install keeps.  An install learns that its row is    *)
(* gone from the reason in a 401, and what it does next (enroll again,     *)
(* stay down, uninstall itself) follows from that reason alone.            *)
(*                                                                         *)
(* Agent ids are numbered in the order their rows are inserted.  A machine *)
(* name stands for all its spellings in upper and lower case.  The hub     *)
(* accepts signed telemetry only (security.require_enrolled_telemetry).    *)
(***************************************************************************)
EXTENDS Naturals, FiniteSets

CONSTANTS
    Install,    \* PCs with an agent on them
    NoInstall,
    Machine,    \* machine names
    NoMachine,
    Code,       \* onboarding codes
    NoCode,
    HasSecret,  \* the installs that hold AGENT_ENROLLMENT_SECRET
    Worker,     \* the hub's request threads
    MaxAgents,  \* bound: how many identities are minted
    Strikes     \* DecommissionStrikes

NoAgent == 0
Agent == 1..MaxAgents

ASSUME EnrollmentAssumption ==
    /\ NoInstall \notin Install /\ NoMachine \notin Machine /\ NoCode \notin Code
    /\ HasSecret \subseteq Install
    /\ MaxAgents \in Nat /\ Strikes \in Nat \ {0}

VARIABLES
    agents,     \* the rows of agents: state, machine, proven (last_auth is set)
    tombs,      \* decommissioned_agents: the ids to be told to uninstall
    codes,      \* onboarding_codes: state, and the agent a code minted
    record,     \* machine_info: whose serial it has, and who reported last
    work,       \* what each request thread of the hub is doing
    identity,   \* agent.json of each install
    host,       \* AgentConfig.MachineName, which a reboot may change
    strikes,    \* _decommissionedReplies
    removed,    \* installs that have started to uninstall themselves
    strayed,    \* history: agents that a report renamed or the pruning removed
    forgotten   \* history: agents whose install has thrown their credential away

hubVars == <<agents, tombs, codes, record, work>>
installVars == <<identity, host, strikes, removed>>
history == <<strayed, forgotten>>
enrollVars == <<hubVars, installVars, history>>

-------------------------------------------------------------------------------
AgentRow == [state : {"unissued", "live", "revoked", "gone"},
             machine : Machine \cup {NoMachine}, proven : BOOLEAN]

HasRow(a) == agents[a].state \in {"live", "revoked"}

Minting == {"enroll", "redeem"}
Beating == {"beat", "reason", "tomb"}
Reply == {"minted", "ok", "unknown", "revoked", "decommissioned"}
Pc == {"idle", "report", "authorize", "store", "erase", "wipe", "mark", "drop"}
          \cup Minting \cup Beating \cup Reply

Call == [pc : Pc, by : Install \cup {NoInstall}, agent : Agent \cup {NoAgent},
         machine : Machine \cup {NoMachine}, was : Machine \cup {NoMachine},
         code : Code \cup {NoCode}, rows : SUBSET Agent, heard : BOOLEAN]
Idle == [pc |-> "idle", by |-> NoInstall, agent |-> NoAgent, machine |-> NoMachine,
         was |-> NoMachine, code |-> NoCode, rows |-> {}, heard |-> FALSE]

EnrollTypeOK ==
    /\ agents \in [Agent -> AgentRow] /\ \A a \in Agent : HasRow(a) <=> agents[a].machine # NoMachine
    /\ tombs \subseteq Agent
    /\ codes \in [Code -> [state : {"unmade", "live", "spent", "dead"}, agent : Agent \cup {NoAgent}]]
    /\ record \in [Machine -> [pc : Install \cup {NoInstall}, by : Agent \cup {NoAgent}]]
    /\ work \in [Worker -> Call]
    /\ identity \in [Install -> Agent \cup {NoAgent}]
    /\ host \in [Install -> Machine]
    /\ strikes \in [Install -> 0..Strikes]
    /\ removed \subseteq Install
    /\ strayed \subseteq Agent /\ forgotten \subseteq Agent

NoRecord == [pc |-> NoInstall, by |-> NoAgent]

Init ==
    /\ agents = [a \in Agent |-> [state |-> "unissued", machine |-> NoMachine, proven |-> FALSE]]
    /\ tombs = {}
    /\ codes = [c \in Code |-> [state |-> "unmade", agent |-> NoAgent]]
    /\ record = [m \in Machine |-> NoRecord]
    /\ work = [w \in Worker |-> Idle]
    /\ identity = [i \in Install |-> NoAgent]
    /\ host \in [Install -> Machine]
    /\ strikes = [i \in Install |-> 0]
    /\ removed = {} /\ strayed = {} /\ forgotten = {}

At(w, pc) == work[w].pc = pc
Go(w, call) == work' = [work EXCEPT ![w] = call]
Becomes(w, pc) == Go(w, [work[w] EXCEPT !.pc = pc])

RowsOf(m) == {a \in Agent : HasRow(a) /\ agents[a].machine = m}
LiveOf(m) == {a \in RowsOf(m) : agents[a].state = "live"}

\* The requests that the service on i (not onboard.ps1) still waits for.
Awaits(i, w) == work[w].by = i /\ work[w].heard /\ work[w].code = NoCode
Enrolling(i) == {w \in Worker : Awaits(i, w) /\ work[w].pc \in {"enroll", "minted"}}
Beats(i) == {w \in Worker : Awaits(i, w)} \ Enrolling(i)
\* A service that stops hears no answer any more.
Deaf(i) == [w \in Worker |-> IF Awaits(i, w) THEN [work[w] EXCEPT !.heard = FALSE] ELSE work[w]]

GatedUntilAuthorized == {"authorize", "erase"}
Gated == {"authorize", "store", "erase"}

\* The ingest gate of m, held by a report for m or by a delete of m.
GateTaken(m) == \E w \in Worker : work[w].pc \in Gated /\ work[w].machine = m

-------------------------------------------------------------------------------
(* Becoming somebody.                                                      *)

Fresh == CHOOSE a \in Agent : agents[a].state = "unissued" /\ \A b \in Agent :
             agents[b].state = "unissued" => a <= b
Room == Cardinality({a \in Agent : agents[a].state = "unissued"})
            > Cardinality({w \in Worker : work[w].pc \in Minting})

(* EnsureEnrolledAsync, behind its gate: with a secret and no identity.    *)
AskToEnroll(i, w) ==
    /\ i \in HasSecret \ removed /\ identity[i] = NoAgent
    /\ Enrolling(i) = {} /\ Room
    /\ At(w, "idle")
    /\ Go(w, [Idle EXCEPT !.pc = "enroll", !.by = i, !.machine = host[i], !.heard = TRUE])
    /\ UNCHANGED <<agents, tombs, codes, record, installVars, history>>

(* onboard.ps1, run by somebody on the PC while the service runs.          *)
AskToRedeem(i, c, w) ==
    /\ i \notin removed /\ codes[c].state # "unmade" /\ Room
    /\ At(w, "idle")
    /\ Go(w, [Idle EXCEPT !.pc = "redeem", !.by = i, !.machine = host[i], !.code = c, !.heard = TRUE])
    /\ UNCHANGED <<agents, tombs, codes, record, installVars, history>>

(* insert_agent.                                                           *)
InsertAgent(w) ==
    /\ agents' = [agents EXCEPT ![Fresh] = [state |-> "live", machine |-> work[w].machine,
                                            proven |-> FALSE]]
    /\ Go(w, [work[w] EXCEPT !.pc = "minted", !.agent = Fresh, !.machine = NoMachine])

EnrollAgent(w) ==
    /\ At(w, "enroll")
    /\ InsertAgent(w)
    /\ UNCHANGED <<tombs, codes, record, installVars, history>>

(* redeem_code, one immediate transaction: the code lives, no live agent   *)
(* has the name, and a name with history answers to this PC's serial.      *)
MayRedeem(w) ==
    /\ codes[work[w].code].state = "live"
    /\ LiveOf(work[w].machine) = {}
    /\ record[work[w].machine].pc \in {NoInstall, work[w].by}

RedeemCode(w) ==
    /\ At(w, "redeem") /\ MayRedeem(w)
    /\ InsertAgent(w)
    /\ codes' = [codes EXCEPT ![work[w].code] = [state |-> "spent", agent |-> Fresh]]
    /\ UNCHANGED <<tombs, record, installVars, history>>

RedeemRefused(w) ==
    /\ At(w, "redeem") /\ ~MayRedeem(w)
    /\ Go(w, Idle)
    /\ UNCHANGED <<agents, tombs, codes, record, installVars, history>>

(* The answer arrives: EnsureEnrolledAsync saves the identity; onboard.ps1 *)
(* stops the service, replaces agent.json and starts the service again.    *)
Minted(w) ==
    LET i == work[w].by
    IN  /\ At(w, "minted") /\ work[w].heard
        /\ identity' = [identity EXCEPT ![i] = work[w].agent]
        /\ strikes' = IF work[w].code = NoCode THEN strikes ELSE [strikes EXCEPT ![i] = 0]
        /\ work' = [IF work[w].code = NoCode THEN work ELSE Deaf(i) EXCEPT ![w] = Idle]
        /\ UNCHANGED <<agents, tombs, codes, record, host, removed, history>>

(* A timeout, a lost answer: the hub may still be serving the request.     *)
GiveUp(w) ==
    /\ work[w].heard
    /\ Go(w, [work[w] EXCEPT !.heard = FALSE])
    /\ UNCHANGED <<agents, tombs, codes, record, installVars, history>>

Unheard(w) ==
    /\ work[w].pc \in Reply /\ ~work[w].heard
    /\ Go(w, Idle)
    /\ UNCHANGED <<agents, tombs, codes, record, installVars, history>>

(* The service restarts, on a PC that may have been renamed meanwhile.     *)
Restart(i, m) ==
    /\ i \notin removed
    /\ host' = [host EXCEPT ![i] = m]
    /\ strikes' = [strikes EXCEPT ![i] = 0]
    /\ work' = Deaf(i)
    /\ UNCHANGED <<agents, tombs, codes, record, identity, removed, history>>

-------------------------------------------------------------------------------
(* The heartbeat, and what a refusal makes of the install.                 *)

(* Both HeartbeatLoopAsync and ProcessLoopAsync send one at a time.        *)
Beat(i, w) ==
    /\ i \notin removed /\ identity[i] # NoAgent
    /\ Cardinality(Beats(i)) < 2
    /\ At(w, "idle")
    /\ Go(w, [Idle EXCEPT !.pc = "beat", !.by = i, !.agent = identity[i], !.heard = TRUE])
    /\ UNCHANGED <<agents, tombs, codes, record, installVars, history>>

(* authenticate_agent: a live row proves itself (last_auth).               *)
Proven(a) == [agents EXCEPT ![a].proven = TRUE]

AuthenticateBeat(w) ==
    LET a == work[w].agent
    IN  /\ At(w, "beat")
        /\ IF agents[a].state = "live" THEN agents' = Proven(a) /\ Becomes(w, "ok")
           ELSE Becomes(w, "reason") /\ UNCHANGED agents
        /\ UNCHANGED <<tombs, codes, record, installVars, history>>

(* auth_failure_reason, and _decommissioned_reason when there is no row:   *)
(* two more connections, after the one that refused.                       *)
FindReason(w) ==
    LET a == work[w].agent
    IN  /\ At(w, "reason")
        /\ Becomes(w, IF ~HasRow(a) THEN "tomb"
                      ELSE IF agents[a].state = "revoked" THEN "revoked" ELSE "unknown")
        /\ UNCHANGED <<agents, tombs, codes, record, installVars, history>>

FindTomb(w) ==
    /\ At(w, "tomb")
    /\ Becomes(w, IF work[w].agent \in tombs THEN "decommissioned" ELSE "unknown")
    /\ UNCHANGED <<agents, tombs, codes, record, installVars, history>>

(* HeartbeatAsync and ForgetIdentityIfRefused.                             *)
HearBeat(w, pc) ==
    /\ At(w, pc) /\ work[w].heard
    /\ Go(w, Idle)
    /\ UNCHANGED <<agents, tombs, codes, record, host, strayed>>

Accepted(w) ==
    /\ HearBeat(w, "ok")
    /\ strikes' = [strikes EXCEPT ![work[w].by] = 0]
    /\ UNCHANGED <<identity, removed, forgotten>>

StayDown(w) ==
    /\ HearBeat(w, "revoked")
    /\ strikes' = [strikes EXCEPT ![work[w].by] = 0]
    /\ UNCHANGED <<identity, removed, forgotten>>

ForgetWhateverIsThere(w) ==
    LET i == work[w].by
    IN  /\ HearBeat(w, "unknown")
        /\ strikes' = [strikes EXCEPT ![i] = 0]
        /\ identity' = [identity EXCEPT ![i] = NoAgent]
        /\ forgotten' = forgotten \cup ({identity[i]} \ {NoAgent})
        /\ UNCHANGED removed

KeepARefusedIdentity(w) ==
    LET i == work[w].by
    IN  /\ HearBeat(w, "unknown")
        /\ strikes' = [strikes EXCEPT ![i] = 0]
        /\ UNCHANGED <<identity, removed, forgotten>>

Forget(w) ==
    LET i == work[w].by
    IN  /\ HearBeat(w, "unknown")
        /\ strikes' = [strikes EXCEPT ![i] = 0]
        /\ identity' = [identity EXCEPT ![i] = IF @ = work[w].agent THEN NoAgent ELSE @]
        /\ forgotten' = IF identity' # identity THEN forgotten \cup {work[w].agent} ELSE forgotten
        /\ UNCHANGED removed

StrikeWithoutCounting(w) ==
    LET i == work[w].by
    IN  /\ HearBeat(w, "decommissioned")
        /\ strikes' = [strikes EXCEPT ![i] = 1]
        /\ removed' = IF strikes'[i] >= Strikes THEN removed \cup {i} ELSE removed
        /\ UNCHANGED <<identity, forgotten>>

Strike(w) ==
    LET i == work[w].by
    IN  /\ HearBeat(w, "decommissioned")
        /\ strikes' = [strikes EXCEPT ![i] = IF @ < Strikes THEN @ + 1 ELSE @]
        /\ removed' = IF strikes'[i] >= Strikes THEN removed \cup {i} ELSE removed
        /\ UNCHANGED <<identity, forgotten>>

-------------------------------------------------------------------------------
(* Telemetry.  The agent makes nothing of the answer to a report.          *)

Report(i, w) ==
    /\ i \notin removed /\ identity[i] # NoAgent
    /\ At(w, "idle")
    /\ Go(w, [Idle EXCEPT !.pc = "report", !.by = i, !.agent = identity[i], !.machine = host[i]])
    /\ UNCHANGED <<agents, tombs, codes, record, installVars, history>>

(* authorize_report under the ingest gate of the reported name: first the  *)
(* credential, in a connection of its own ...                              *)
AuthenticateReport(w) ==
    LET a == work[w].agent
    IN  /\ At(w, "report") /\ ~GateTaken(work[w].machine)
        /\ IF agents[a].state = "live"
           THEN /\ agents' = Proven(a)
                /\ Go(w, [work[w] EXCEPT !.pc = "authorize", !.was = agents[a].machine])
           ELSE Go(w, Idle) /\ UNCHANGED agents
        /\ UNCHANGED <<tombs, codes, record, installVars, history>>

(* ... then, in an immediate transaction, what its name means: its own, or *)
(* a fresh one that the row is re-pointed to.                              *)
NameRecorded(w) ==
    /\ work[w].was # work[w].machine
    /\ record[work[w].machine].pc # NoInstall

NameTaken(w) ==
    /\ work[w].was # work[w].machine
    /\ record[work[w].machine].pc # NoInstall \/ RowsOf(work[w].machine) \ {work[w].agent} # {}

AuthorizeReport(w) ==
    LET a == work[w].agent
        renames == work[w].was # work[w].machine
    IN  /\ At(w, "authorize") /\ ~NameTaken(w)
        /\ agents' = IF renames /\ HasRow(a) THEN [agents EXCEPT ![a].machine = work[w].machine] ELSE agents
        /\ strayed' = IF renames THEN strayed \cup {a} ELSE strayed
        /\ Go(w, [work[w] EXCEPT !.pc = "store", !.was = NoMachine])
        /\ UNCHANGED <<tombs, codes, record, installVars, forgotten>>

RefuseName(w) ==
    /\ At(w, "authorize") /\ NameTaken(w)
    /\ Go(w, Idle)
    /\ UNCHANGED <<agents, tombs, codes, record, installVars, history>>

(* save_machine_info: the serial of a record is written once.              *)
StoreReport(w) ==
    LET m == work[w].machine
    IN  /\ At(w, "store")
        /\ record' = [record EXCEPT ![m] =
               [pc |-> IF @.pc = NoInstall THEN work[w].by ELSE @.pc, by |-> work[w].agent]]
        /\ Go(w, Idle)
        /\ UNCHANGED <<agents, tombs, codes, installVars, history>>

-------------------------------------------------------------------------------
(* Operators, and the hub's housekeeping.                                  *)

(* app.delete_machine: under the gate, the SELECT of the agents to tell    *)
(* (when "uninstall" is ticked) and then the transaction; after it, the    *)
(* machine's record.                                                       *)
StartDelete(m, ticked, w) ==
    /\ At(w, "idle") /\ ~GateTaken(m)
    /\ Go(w, [Idle EXCEPT !.pc = "erase", !.machine = m, !.rows = IF ticked THEN RowsOf(m) ELSE {}])
    /\ UNCHANGED <<agents, tombs, codes, record, installVars, history>>

EraseMachine(w) ==
    /\ At(w, "erase")
    /\ agents' = [a \in Agent |-> IF a \in RowsOf(work[w].machine)
                                  THEN [state |-> "gone", machine |-> NoMachine, proven |-> FALSE]
                                  ELSE agents[a]]
    /\ tombs' = tombs \cup work[w].rows
    /\ Go(w, [work[w] EXCEPT !.pc = "wipe", !.rows = {}])
    /\ UNCHANGED <<codes, record, installVars, history>>

WipeRecord(w) ==
    /\ At(w, "wipe")
    /\ record' = [record EXCEPT ![work[w].machine] = NoRecord]
    /\ Go(w, Idle)
    /\ UNCHANGED <<agents, tombs, codes, installVars, history>>

Revoked(a) == IF HasRow(a) THEN [agents EXCEPT ![a].state = "revoked"] ELSE agents

RevokeAgent(a) ==
    /\ agents[a].state = "live"
    /\ agents' = Revoked(a)
    /\ UNCHANGED <<tombs, codes, record, work, installVars, history>>

CreateCode(c) ==
    /\ codes[c].state = "unmade"
    /\ codes' = [codes EXCEPT ![c].state = "live"]
    /\ UNCHANGED <<agents, tombs, record, work, installVars, history>>

ExpireCode(c) ==
    /\ codes[c].state = "live"
    /\ codes' = [codes EXCEPT ![c].state = "dead"]
    /\ UNCHANGED <<agents, tombs, record, work, installVars, history>>

(* revoke_code: the SELECT, the UPDATE, and revoke_agent for the agent     *)
(* that the row named when it was read.                                    *)
StartRevokeCode(c, w) ==
    /\ codes[c].state # "unmade" /\ At(w, "idle")
    /\ Go(w, [Idle EXCEPT !.pc = "mark", !.code = c, !.agent = codes[c].agent])
    /\ UNCHANGED <<agents, tombs, codes, record, installVars, history>>

MarkRevoked(w) ==
    LET c == work[w].code
    IN  /\ At(w, "mark")
        /\ codes' = [codes EXCEPT ![c].state = "dead"]
        /\ IF work[w].agent = NoAgent THEN Go(w, Idle) ELSE Becomes(w, "drop")
        /\ UNCHANGED <<agents, tombs, record, installVars, history>>

DropAgent(w) ==
    /\ At(w, "drop")
    /\ agents' = Revoked(work[w].agent)
    /\ Go(w, Idle)
    /\ UNCHANGED <<tombs, codes, record, installVars, history>>

(* prune_unauthenticated_enrollments, of the rows numbered up to n: those  *)
(* that are past the grace.                                                *)
Superseded(a) ==
    /\ agents[a].state = "live" /\ ~agents[a].proven
    /\ \E b \in LiveOf(agents[a].machine) : b > a

PruneEnrollments(n) ==
    /\ \E a \in 1..n : Superseded(a)
    /\ agents' = [a \in Agent |-> IF a <= n /\ Superseded(a)
                                  THEN [state |-> "gone", machine |-> NoMachine, proven |-> FALSE]
                                  ELSE agents[a]]
    /\ strayed' = strayed \cup {a \in 1..n : Superseded(a)}
    /\ UNCHANGED <<tombs, codes, record, work, installVars, forgotten>>

(* prune_decommissioned: told and silent for a month, or a year untold.    *)
PruneTomb(a) ==
    /\ a \in tombs
    /\ tombs' = tombs \ {a}
    /\ UNCHANGED <<agents, codes, record, work, installVars, history>>

-------------------------------------------------------------------------------
Ask(i, w) == AskToEnroll(i, w) \/ Beat(i, w)
Hear(w) == Minted(w) \/ Accepted(w) \/ StayDown(w) \/ Forget(w) \/ Strike(w)

\* What a request thread does on its own, once it has a request.
Serve(w) ==
    \/ EnrollAgent(w) \/ RedeemCode(w) \/ RedeemRefused(w)
    \/ AuthenticateBeat(w) \/ FindReason(w) \/ FindTomb(w) \/ Unheard(w)
    \/ AuthenticateReport(w) \/ AuthorizeReport(w) \/ RefuseName(w) \/ StoreReport(w)
    \/ EraseMachine(w) \/ WipeRecord(w) \/ MarkRevoked(w) \/ DropAgent(w)

Restarts == \E i \in Install, m \in Machine : Restart(i, m)

Next ==
    \/ \E i \in Install, w \in Worker :
           \/ Ask(i, w) \/ Report(i, w)
           \/ \E c \in Code : AskToRedeem(i, c, w)
    \/ \E w \in Worker : Serve(w) \/ Hear(w) \/ GiveUp(w)
    \/ Restarts
    \/ \E m \in Machine, ticked \in BOOLEAN, w \in Worker : StartDelete(m, ticked, w)
    \/ \E c \in Code : CreateCode(c) \/ ExpireCode(c) \/ \E w \in Worker : StartRevokeCode(c, w)
    \/ \E a \in Agent : RevokeAgent(a) \/ PruneEnrollments(a) \/ PruneTomb(a)

Spec == Init /\ [][Next]_enrollVars

(* The heartbeat loop goes on, a request that was taken up is served and   *)
(* its answer is heard, and at some time the service is restarted and a    *)
(* request is lost for the last time.  Nobody has to report, to redeem a   *)
(* code or to delete.                                                      *)
Disturbance == Restarts \/ \E w \in Worker : GiveUp(w)

FairSpec ==
    /\ Spec
    /\ \A w \in Worker : WF_enrollVars(Serve(w)) /\ WF_enrollVars(Hear(w))
    /\ \A i \in Install : SF_enrollVars(\E w \in Worker : Ask(i, w))
    /\ <>[][~Disturbance]_enrollVars

-------------------------------------------------------------------------------
(* OneHolder: of the live agents of a name at most one came to it by a     *)
(* code or by a rename.  A second one would sign, claim commands and be    *)
(* shown as a machine that is somebody else's.  (The shared secret may     *)
(* enroll a name again: its holders are trusted with every name.)          *)
Redeemed(a) == \E c \in Code : codes[c].agent = a

OneHolder == \A m \in Machine :
    Cardinality({a \in LiveOf(m) : Redeemed(a) \/ a \in strayed}) <= 1

(* EnrollInv: that, and the kinds of values in the tables.                 *)
EnrollInv == EnrollTypeOK /\ OneHolder

(* DeletedStaysGone: a machine's record outlives the agent that wrote it   *)
(* only while the delete that took the agent has still to remove the       *)
(* record (_ingest_gate).  An agent that strayed is exempt: a report that  *)
(* renames holds the gate of the new name, which stops no delete of the    *)
(* old one.                                                                *)
DeletedStaysGone == \A m \in Machine :
    LET a == record[m].by
    IN  a # NoAgent /\ a \notin strayed /\ agents[a].state = "gone"
            => \E w \in Worker : At(w, "wipe") /\ work[w].machine = m

(* ForgetIsFinal: an install throws its credential away only if the hub    *)
(* has no row for it and will never want it uninstalled.  So a revoked     *)
(* agent stays down, an agent that works is not enrolled a second time,    *)
(* and a PC deleted with "uninstall" ticked does not enroll itself back.   *)
(* A row that strays in the middle of the delete of its name is exempt.    *)
ForgetIsFinal == \A a \in forgotten :
    agents[a].state = "gone" /\ (a \in tombs => a \in strayed)

(* DeletedReturns: a PC that has the secret and no row on the hub, and is  *)
(* not to be uninstalled, is enrolled again (up to MaxAgents times).       *)
Stranded(i) ==
    LET a == identity[i]
    IN  /\ i \in HasSecret \ removed
        /\ a = NoAgent \/ (agents[a].state = "gone" /\ a \notin tombs)

DeletedReturns == \A i \in Install : Stranded(i) ~> (~Stranded(i) \/ ~Room)

(* DoomedGoes: a PC deleted with "uninstall" ticked uninstalls itself,     *)
(* unless the hub drops its tombstone or somebody onboards it anew.        *)
Doomed(i, a) ==
    /\ i \notin removed /\ identity[i] = a
    /\ agents[a].state = "gone" /\ a \in tombs

DoomedGoes == \A i \in Install, a \in Agent : Doomed(i, a) ~> ~Doomed(i, a)

-------------------------------------------------------------------------------
(* What the code does not keep.                                            *)

(* TombsAreOfTheGone: only an agent whose row is deleted is recorded to be *)
(* told to uninstall itself (delete_machine copies and deletes in one      *)
(* transaction, so that a later delete without the tick uninstalls nobody).*)
TombsAreOfTheGone == \A a \in Agent : a \in tombs => agents[a].state = "gone"

(* NoGhost: DeletedStaysGone for the renamed agents too.                   *)
NoGhost == \A m \in Machine :
    LET a == record[m].by
    IN  a # NoAgent /\ agents[a].state = "gone"
            => \E w \in Worker : At(w, "wipe") /\ work[w].machine = m

(* DeadCodeHasNoAgent: once revoke_code is through with a code, the agent  *)
(* that the code minted is not live.                                       *)
DeadCodeHasNoAgent == \A c \in Code :
    /\ codes[c].state = "dead" /\ codes[c].agent # NoAgent
    /\ \A w \in Worker : ~(work[w].pc = "drop" /\ work[w].code = c)
    => agents[codes[c].agent].state # "live"
=============================================================================
