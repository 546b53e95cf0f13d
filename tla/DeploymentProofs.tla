----------------------------- MODULE DeploymentProofs -----------------------------
(***************************************************************************)
(* What holds of package deployments for any number of machines, agents,   *)
(* commands and deployments.                                               *)
(*                                                                         *)
(* Two inductive invariants.  The first holds whenever passes die and, as  *)
(* far as Apart allows, records are merged: every attempt is paid for      *)
(* before its command is queued, the verdicts of a pass are about rows     *)
(* that are still in flight or gone, and no stale roll-up says complete.   *)
(* The second adds, for passes that live, that the command of an attempt   *)
(* is known to the row it is for.                                          *)
(***************************************************************************)
EXTENDS Deployment, FiniteSetTheorems, TLAPS

USE QueueAssumption, DeploymentAssumption

(* Where the theorems hold.  A merge brings a row to a machine: to one an  *)
(* operator has deleted from the deployment, it brings a second budget;    *)
(* and it can settle a deployment that the scheduler is about to roll up,  *)
(* from where a retry is overwritten (MCDeployMerged.cfg).                 *)
Apart == Duplicate = {} \/ ("retry" \notin Operations /\ "delete" \notin Operations)

-------------------------------------------------------------------------------
(* The first invariant.                                                    *)

PassRecord == [pc : Pc, seen : SUBSET Seen, verdicts : SUBSET Verdict, ready : SUBSET Target,
               target : (Deployment \cup {NoMachine}) \X (Machine \cup {NoMachine}),
               command : Command \cup {NoCommand}, touched : SUBSET Deployment,
               to : DeploymentStatus \cup {"none"}]

InHand == {"queue", "record"}

\* What a pass knows at each of its places.
PassTypeOK ==
    /\ sched \in PassRecord
    /\ sched.pc \in InHand => sched.target \in Target
    /\ sched.pc = "record" => sched.command \in Command
    /\ sched.pc = "write" => sched.target[1] \in Deployment
    /\ sched.seen # {} => sched.pc = "judge"
    /\ sched.verdicts # {} => sched.pc \in {"judge", "retire"}
    /\ sched.ready # {} => sched.pc \in {"retire", "claim"} \cup InHand
    /\ sched.touched # {} => sched.pc \in {"claim", "refresh", "write"} \cup InHand

Typed == DeployTypeOK /\ PassTypeOK

\* What operators have half done is what this instance lets them do.
OpsAreAllowed ==
    /\ \A m \in Machine : <<"forget", m>> \in ops => "delete" \in Operations
    /\ \A m, n \in Machine : <<"rename", m, n>> \in ops => m \in Duplicate /\ n \notin Duplicate

Begun(d) == deployment[d] # "none"

\* A target of a deployment: while it has no row it never gets one again.
Known(t) == Begun(t[1]) /\ (HasTargetRow(t) \/ Duplicate = {} \/ t[2] \in Duplicate)

AllKnown ==
    /\ \A t \in Target : HasTargetRow(t) => Begun(t[1])
    /\ \A s \in sched.seen : Known(s.target)
    /\ \A v \in sched.verdicts : Known(v.target)
    /\ \A t \in sched.ready : Known(t)
    /\ sched.pc \in InHand => Known(sched.target)
    /\ \A d \in sched.touched : Begun(d)
    /\ sched.pc = "write" => Begun(sched.target[1]) /\ sched.to # "none"
    /\ \A c \in Command : madeFor[c] # NoTarget => Known(madeFor[c])

\* A verdict that reopens is about a row in flight.
InFlightOrGone(t) == row[t].status \in {"in_flight", "none"}

VerdictsAreDue ==
    /\ \A s \in sched.seen : InFlightOrGone(s.target)
    /\ \A v \in sched.verdicts :
          v.status \notin Terminal =>
              v.status = "pending" /\ InFlightOrGone(v.target) /\ sched.pc = "judge"

Issued(t) == {c \in Command : madeFor[c] = t}
Upcoming(t) == IF sched.pc = "queue" /\ sched.target = t THEN 1 ELSE 0
Credit(t) == IF HasTargetRow(t) THEN row[t].attempts ELSE MaxAttempts

\* Every command is paid for with an attempt before it is queued.
Paid == \A t \in Target :
    /\ IsFiniteSet(Issued(t))
    /\ Cardinality(Issued(t)) + Upcoming(t) <= MaxAttempts * retries[t[1]] + Credit(t)

ReadEnough == \A t \in sched.ready : row[t].status = "pending" => row[t].attempts < MaxAttempts

Over(d) == \A t \in TargetsOf(d, row) : row[t].status \in Terminal

\* A deployment the pass has a hand in is not over behind its back.
StillOpen(d) ==
    Duplicate = {} /\ deployment[d] \notin {"complete", "cancelled"}
        => TargetsOf(d, row) = {} \/ ~Over(d)

RollUpIsOpen ==
    /\ \A d \in sched.touched : StillOpen(d)
    /\ sched.pc \in InHand => StillOpen(sched.target[1])
    /\ sched.pc = "write" /\ sched.to = "complete" => Duplicate # {} /\ Over(sched.target[1])

-------------------------------------------------------------------------------
(* The second, of passes that live.                                        *)

Ended(c) == c = NoCommand \/ ~Live(c)
InFlightWith(t, commands) ==
    HasTargetRow(t) => row[t].status = "in_flight" /\ row[t].command \in commands

PassIsTracked ==
    /\ \A s \in sched.seen : InFlightWith(s.target, {s.command})
    /\ sched.pc = "judge" => \A v \in sched.verdicts :
          InFlightWith(v.target, {c \in Command \cup {NoCommand} : Ended(c)})
    /\ sched.pc = "retire" => \A v \in sched.verdicts : row[v.target].status # "in_flight"
    /\ sched.pc \in InHand => InFlightWith(sched.target, {NoCommand})

FirstInv == Typed /\ OpsAreAllowed /\ AllKnown /\ VerdictsAreDue /\ Paid /\ ReadEnough
            /\ CompleteIsOver /\ RollUpIsOpen
TrackInv == PassIsTracked /\ LiveIsTracked

-------------------------------------------------------------------------------
(* Types.                                                                  *)

\* A step that leaves the queue alone leaves it typed.
LEMMA DeployQueueUntouched ==
  ASSUME QueueTypeOK, UNCHANGED queueVars
  PROVE  QueueTypeOK'
BY DEF QueueTypeOK, queueVars

\* The queue's operations keep its kinds of values.
LEMMA DeployQueueOperations ==
  ASSUME QueueTypeOK
  PROVE  /\ ExpireStale => QueueTypeOK'
         /\ \A c \in Command : Lapse(c) => QueueTypeOK'
         /\ \A c \in Command, m \in Machine : Create(c, m) => QueueTypeOK'
         /\ \A a \in Agent, m \in Machine : Claim(a, m) => QueueTypeOK'
         /\ \A c \in Command, ok \in BOOLEAN : RecordResult(c, ok) => QueueTypeOK'
         /\ \A m \in Machine : \A ids \in SUBSET Command : DeleteRows(m, ids) => QueueTypeOK'
<1> USE DEF QueueTypeOK, CommandStatus, NoRow
<1>1. ExpireStale => QueueTypeOK'  BY DEF ExpireStale
<1>2. \A c \in Command : Lapse(c) => QueueTypeOK'  BY DEF Lapse
<1>3. \A c \in Command, m \in Machine : Create(c, m) => QueueTypeOK'  BY DEF Create
<1>4. \A a \in Agent, m \in Machine : Claim(a, m) => QueueTypeOK'  BY DEF Claim
<1>5. \A c \in Command, ok \in BOOLEAN : RecordResult(c, ok) => QueueTypeOK'  BY DEF RecordResult
<1>6. \A m \in Machine : \A ids \in SUBSET Command : DeleteRows(m, ids) => QueueTypeOK'
  BY DEF DeleteRows
<1>. QED  BY <1>1, <1>2, <1>3, <1>4, <1>5, <1>6

\* A target is a deployment and a machine, and none is the target of no command.
LEMMA Targets ==
  /\ NoTarget \notin Target
  /\ \A t \in Target : t[1] \in Deployment /\ t[2] \in Machine /\ t = <<t[1], t[2]>>
  /\ \A d \in Deployment, m \in Machine :
        <<d, m>> \in Target /\ <<d, m>>[1] = d /\ <<d, m>>[2] = m
BY DEF Target, NoTarget

\* A row of which one column is written is a row.
LEMMA DeployRowUpdates ==
  /\ NoTargetRow \in Row
  /\ \A r \in Row : r.status \in TargetStatus \cup {"none"} /\ r.attempts \in 0..MaxAttempts
                    /\ r.command \in Command \cup {NoCommand}
  /\ \A r \in Row, x \in TargetStatus : [r EXCEPT !.status = x] \in Row
  /\ \A r \in Row, x \in TargetStatus : [r EXCEPT !.status = x, !.attempts = 0] \in Row
  /\ \A r \in Row, c \in Command : [r EXCEPT !.command = c] \in Row
<1> MaxAttempts \in Nat \ {0}  OBVIOUS
<1> 0 \in 0..MaxAttempts  OBVIOUS
<1>. QED  BY DEF Row, NoTargetRow

\* The statuses the module names are statuses.
LEMMA StatusNames ==
  /\ {"pending", "in_flight", "succeeded", "failed", "expired", "cancelled"} = TargetStatus
  /\ Terminal \subseteq TargetStatus /\ "none" \notin TargetStatus
  /\ {"scheduled", "running", "complete", "cancelled"} = DeploymentStatus
BY DEF TargetStatus, Terminal, DeploymentStatus

\* A roll-up gives a deployment's status, and never undoes a cancel or a row.
LEMMA RollUpTyped ==
  ASSUME deployment \in [Deployment -> DeploymentStatus \cup {"none"}], NEW d \in Deployment, NEW rows
  PROVE  /\ RollUp(d, rows) \in DeploymentStatus \cup {"none"}
         /\ RollUp(d, rows) = "none" <=> deployment[d] = "none"
BY StatusNames DEF RollUp

\* The first state has the kinds of values it should.
LEMMA DeployInitTyped == Init => Typed
<1> SUFFICES ASSUME Init  PROVE Typed
  OBVIOUS
<1>1. QueueTypeOK
  BY DEF Init, QueueInit, QueueTypeOK, CommandStatus, NoRow
<1>2. NoTarget \in (Deployment \cup {NoMachine}) \X (Machine \cup {NoMachine})
  BY DEF NoTarget
<1>3. "idle" \in Pc  BY DEF Pc
<1>4. Asleep \in PassRecord
  BY <1>2, <1>3 DEF Asleep, PassRecord
<1>5. DeployTypeOK
  <2>1. retries \in [Deployment -> 0..MaxRetries]
    <3>1. 0 \in 0..MaxRetries  OBVIOUS
    <3>. QED  BY <3>1 DEF Init
  <2>2. row \in [Target -> Row]
    BY DeployRowUpdates DEF Init
  <2>. QED  BY <1>1, <1>4, <2>1, <2>2 DEF Init, DeployTypeOK, PassRecord
<1>6. PassTypeOK
  BY <1>4 DEF Init, PassTypeOK, Asleep, InHand
<1>. QED  BY <1>5, <1>6 DEF Typed

\* The tables and the world, when the scheduler stands still.
LEMMA OperatorsKeepTyped ==
  ASSUME Typed, OperatorStep \/ MergeStep
  PROVE  Typed'
<1>0. /\ row \in [Target -> Row] /\ deployment \in [Deployment -> DeploymentStatus \cup {"none"}]
      /\ waiting \subseteq Target /\ retries \in [Deployment -> 0..MaxRetries]
  BY DEF Typed, DeployTypeOK
<1> USE DeployQueueUntouched, StatusNames DEF tableVars, worldVars
<1>1. ASSUME QueueTypeOK', row' \in [Target -> Row],
             deployment' \in [Deployment -> DeploymentStatus \cup {"none"}], waiting' \subseteq Target,
             broken' \subseteq Deployment, retries' \in [Deployment -> 0..MaxRetries],
             UNCHANGED <<closed, unable, sched, madeFor>>
      PROVE  Typed'
  BY <1>1 DEF Typed, DeployTypeOK, PassTypeOK
<1>2. /\ broken \subseteq Deployment /\ QueueTypeOK
      /\ UNCHANGED queueVars => QueueTypeOK'
  BY DEF Typed, DeployTypeOK
<1>3. ASSUME NEW d \in Deployment, NEW M \in SUBSET Machine, NEW opened, CreateDeployment(d, M, opened)
      PROVE  Typed'
  <2>1. [NoTargetRow EXCEPT !.status = "pending"] \in Row
    BY DeployRowUpdates
  <2>2. {d} \X M \subseteq Target
    BY DEF Target
  <2>. QED  BY <1>0, <1>1, <1>2, <1>3, <2>1, <2>2 DEF CreateDeployment
<1>4. ASSUME NEW d \in Deployment, CancelCheck(d)  PROVE Typed'
  BY <1>0, <1>1, <1>2, <1>4 DEF CancelCheck
<1>5. ASSUME NEW d \in Deployment, CancelCommit(d)  PROVE Typed'
  <2>1. row' \in [Target -> Row]
    BY <1>0, <1>5, DeployRowUpdates DEF CancelCommit
  <2>. QED  BY <1>0, <1>1, <1>2, <1>5, <2>1 DEF CancelCommit
<1>6. ASSUME NEW d \in Deployment, RetryFailures(d)  PROVE Typed'
  <2>1. row' \in [Target -> Row]
    BY <1>0, <1>6, DeployRowUpdates DEF RetryFailures
  <2>2. retries' \in [Deployment -> 0..MaxRetries]
    <3>1. retries[d] \in 0..MaxRetries /\ retries[d] < MaxRetries /\ retries' = [retries EXCEPT ![d] = @ + 1]
      BY <1>0, <1>6 DEF RetryFailures
    <3>2. retries[d] + 1 \in 0..MaxRetries
      BY <3>1
    <3>. QED  BY <1>0, <3>1, <3>2
  <2>3. waiting' \subseteq Target
    BY <1>0, <1>6 DEF RetryFailures
  <2>4. deployment' \in [Deployment -> DeploymentStatus \cup {"none"}]
    BY <1>0, <1>6 DEF RetryFailures
  <2>. QED  BY <1>1, <1>2, <1>6, <2>1, <2>2, <2>3, <2>4 DEF RetryFailures
<1>7. ASSUME NEW d \in Deployment, DeletePackage(d)  PROVE Typed'
  BY <1>0, <1>1, <1>2, <1>7 DEF DeletePackage
<1>8. ASSUME NEW m \in Machine, NEW n \in Machine, DeleteMachine(m) \/ MergeMachines(m, n)
      PROVE  Typed'
  <2>1. QueueTypeOK'
    BY <1>2, <1>8, DeployQueueOperations DEF DeleteMachine, MergeMachines
  <2>. QED  BY <1>0, <1>1, <1>2, <1>8, <2>1 DEF DeleteMachine, MergeMachines
<1>9. ASSUME NEW m \in Machine, ForgetMachine(m)  PROVE Typed'
  <2>1. row' \in [Target -> Row]
    BY <1>0, <1>9, DeployRowUpdates DEF ForgetMachine
  <2>2. deployment' \in [Deployment -> DeploymentStatus \cup {"none"}]
    BY <1>0, <1>9, RollUpTyped DEF ForgetMachine, Refreshed
  <2>. QED  BY <1>0, <1>1, <1>2, <1>9, <2>1, <2>2 DEF ForgetMachine
<1>10. ASSUME NEW m \in Machine, NEW n \in Machine, RenameMachine(m, n)  PROVE Typed'
  <2>1. row' \in [Target -> Row]
    <3>1. \A t \in Target : <<t[1], m>> \in Target
      BY Targets
    <3>. QED  BY <1>0, <1>10, <3>1, DeployRowUpdates DEF RenameMachine
  <2>. QED  BY <1>0, <1>1, <1>2, <1>10, <2>1 DEF RenameMachine
<1>. QED
  BY <1>3, <1>4, <1>5, <1>6, <1>7, <1>8, <1>9, <1>10 DEF OperatorStep, MergeStep

\* The verdicts of a pass are statuses, whichever of them is written.
LEMMA VerdictsTyped ==
  ASSUME Typed, NEW pc \in Pc \ (InHand \cup {"write"}), ApplyVerdicts(pc),
         sched.seen = {}, sched.ready # {} => pc = "claim", sched.touched = {}
  PROVE  Typed'
<1> DEFINE statusOf(t) == {v.status : v \in {u \in sched.verdicts : u.target = t}}
           rows == [t \in Target |-> IF HasTargetRow(t) /\ statusOf(t) # {}
                                     THEN [row[t] EXCEPT !.status = CHOOSE x \in statusOf(t) : TRUE]
                                     ELSE row[t]]
           judged == {t \in Target : statusOf(t) # {}}
<1>1. /\ row' = rows
      /\ deployment' = Refreshed({t[1] : t \in judged}, rows)
      /\ waiting' = (waiting \ judged) \cup {t \in judged : "pending" \in statusOf(t)}
      /\ sched' = [sched EXCEPT !.pc = pc, !.verdicts = {}]
      /\ UNCHANGED <<queueVars, closed, broken, unable, ops, retries, madeFor>>
  BY DEF ApplyVerdicts
<1>2. sched \in PassRecord
  BY DEF Typed, PassTypeOK
<1>3. \A t : statusOf(t) \subseteq TargetStatus
  BY <1>2 DEF PassRecord, Verdict
<1>4. \A t : statusOf(t) # {} => (CHOOSE x \in statusOf(t) : TRUE) \in TargetStatus
  BY <1>3
<1>5. row' \in [Target -> Row]
  <2> HIDE DEF statusOf
  <2>1. ASSUME NEW t \in Target  PROVE row'[t] \in Row
    <3>1. row[t] \in Row
      BY DEF Typed, DeployTypeOK
    <3>2. HasTargetRow(t) /\ statusOf(t) # {}
             => [row[t] EXCEPT !.status = CHOOSE x \in statusOf(t) : TRUE] \in Row
      BY <1>4, <3>1, DeployRowUpdates
    <3>. QED  BY <1>1, <3>1, <3>2
  <2>. QED  BY <1>1, <2>1
<1>6. deployment' \in [Deployment -> DeploymentStatus \cup {"none"}]
  BY <1>1, RollUpTyped DEF Refreshed, Typed, DeployTypeOK
<1>7. /\ sched' \in PassRecord
      /\ sched'.pc = pc /\ sched'.verdicts = {} /\ sched'.seen = sched.seen /\ sched'.ready = sched.ready
      /\ sched'.target = sched.target /\ sched'.touched = sched.touched
  BY <1>1, <1>2 DEF PassRecord
<1>8. DeployTypeOK'
  BY <1>1, <1>5, <1>6, <1>7, DeployQueueUntouched DEF Typed, DeployTypeOK, PassRecord
<1>9. PassTypeOK'
  BY <1>7 DEF PassTypeOK, InHand
<1>. QED  BY <1>8, <1>9 DEF Typed

\* The scheduler's place, and what it has read, as it moves on.
LEMMA DeployPassMoves ==
  ASSUME Typed
  PROVE  /\ sched \in PassRecord /\ Asleep \in PassRecord
         /\ Asleep.pc = "idle" /\ Asleep.seen = {} /\ Asleep.verdicts = {} /\ Asleep.ready = {}
         /\ Asleep.touched = {}
         /\ \A pc \in Pc : [sched EXCEPT !.pc = pc] \in PassRecord /\ [Asleep EXCEPT !.pc = pc] \in PassRecord
         /\ \A t \in Target, pc \in Pc :
              [sched EXCEPT !.ready = @ \ {t}, !.pc = pc, !.target = t] \in PassRecord
         /\ \A t \in Target : [sched EXCEPT !.ready = @ \ {t}] \in PassRecord
<1>1. Asleep \in PassRecord
  BY DEF Asleep, PassRecord, NoTarget, Pc
<1>2. /\ Asleep.pc = "idle" /\ Asleep.seen = {} /\ Asleep.verdicts = {} /\ Asleep.ready = {}
      /\ Asleep.touched = {}
  BY DEF Asleep
<1>3. sched \in PassRecord
  BY DEF Typed, PassTypeOK
<1>4. \A pc \in Pc : [sched EXCEPT !.pc = pc] \in PassRecord /\ [Asleep EXCEPT !.pc = pc] \in PassRecord
  BY <1>1, <1>3 DEF PassRecord
<1>5. \A t \in Target : t \in (Deployment \cup {NoMachine}) \X (Machine \cup {NoMachine})
  BY DEF Target
<1>6. \A t \in Target : [sched EXCEPT !.ready = @ \ {t}] \in PassRecord
  BY <1>3 DEF PassRecord
<1>7. \A t \in Target, pc \in Pc :
        [sched EXCEPT !.ready = @ \ {t}, !.pc = pc, !.target = t] \in PassRecord
  BY <1>3, <1>5 DEF PassRecord
<1>. QED  BY <1>1, <1>2, <1>3, <1>4, <1>6, <1>7

\* What the scheduler does keeps the kinds of values.
LEMMA SchedulerKeepsTyped ==
  ASSUME Typed, ReadEnough, Reconcile \/ Dispatch \/ PassDies
  PROVE  Typed'
<1>0. /\ row \in [Target -> Row] /\ deployment \in [Deployment -> DeploymentStatus \cup {"none"}]
      /\ sched \in PassRecord /\ PassTypeOK /\ QueueTypeOK
  BY DEF Typed, DeployTypeOK, PassTypeOK
<1> USE DeployQueueUntouched, StatusNames DEF tableVars, worldVars
<1>1. ASSUME QueueTypeOK', row' \in [Target -> Row],
             deployment' \in [Deployment -> DeploymentStatus \cup {"none"}],
             madeFor' \in [Command -> Target \cup {NoTarget}], PassTypeOK',
             UNCHANGED <<worldVars, retries>>
      PROVE  Typed'
  BY <1>1 DEF Typed, DeployTypeOK, PassTypeOK, PassRecord
<1>2. madeFor \in [Command -> Target \cup {NoTarget}] /\ (UNCHANGED queueVars => QueueTypeOK')
  BY DEF Typed, DeployTypeOK
<1>3. PassTypeOK' \/ sched' # Asleep
  BY DeployPassMoves DEF PassTypeOK, InHand
<1>4. CASE QueueRefused \/ RefreshWrite \/ PassOver \/ PassDies
  <2>1. deployment' \in [Deployment -> DeploymentStatus \cup {"none"}]
    <3>1. CASE RefreshWrite
      <4>1. sched.to \in DeploymentStatus \cup {"none"}
        BY <1>0 DEF PassRecord
      <4>. QED  BY <1>0, <3>1, <4>1, RollUpTyped DEF RefreshWrite, Refreshed
    <3>2. CASE QueueRefused \/ PassOver \/ PassDies
      BY <1>0, <3>2 DEF QueueRefused, PassOver, PassDies
    <3>. QED  BY <1>4, <3>1, <3>2
  <2>. QED  BY <1>0, <1>1, <1>2, <1>3, <1>4, <2>1 DEF QueueRefused, RefreshWrite, PassOver, PassDies
<1>5. CASE Tick
  <2>1. QueueTypeOK'
    BY <1>0, <1>5, DeployQueueOperations DEF Tick
  <2>2. sched' \in PassRecord /\ sched'.pc = "inFlight" /\ sched'.seen = {} /\ sched'.verdicts = {}
        /\ sched'.ready = {} /\ sched'.touched = {}
    <3>1. sched' = [Asleep EXCEPT !.pc = "inFlight"] /\ "inFlight" \in Pc
      BY <1>5 DEF Tick, Pc
    <3>. QED  BY <3>1, DeployPassMoves DEF Asleep
  <2>3. PassTypeOK'
    BY <2>2 DEF PassTypeOK, InHand
  <2>. QED  BY <1>0, <1>1, <1>2, <1>5, <2>1, <2>3 DEF Tick
<1>6. CASE ReadInFlight
  <2>1. \A T \in SUBSET Target : Snapshot(T) \subseteq Seen
    <3>1. \A t \in Target : row[t].attempts \in 0..MaxAttempts /\ row[t].command \in Command \cup {NoCommand}
      BY <1>0, DeployRowUpdates
    <3>2. \A t \in Target : (t[1] \in closed) \in BOOLEAN
      OBVIOUS
    <3>3. \A t \in Target :
            [target |-> t, attempts |-> row[t].attempts, command |-> row[t].command,
             closed |-> t[1] \in closed] \in Seen
      BY <3>1, <3>2, Zenon DEF Seen
    <3>. QED  BY <3>3, Zenon DEF Snapshot
  <2>2. /\ sched' \in PassRecord /\ sched'.pc = "judge" /\ sched'.verdicts = {}
        /\ sched'.ready = {} /\ sched'.touched = {}
    BY <1>0, <1>6, <2>1 DEF ReadInFlight, PassTypeOK, PassRecord, Pc, Is, InHand
  <2>3. PassTypeOK'
    BY <2>2 DEF PassTypeOK, InHand
  <2>. QED  BY <1>0, <1>1, <1>2, <1>6, <2>3 DEF ReadInFlight
<1>7. ASSUME NEW s \in sched.seen, Judge(s)  PROVE Typed'
  <2>1. [target |-> s.target, status |-> Outcome(s)] \in Verdict
    <3>1. s.target \in Target
      BY <1>0 DEF PassRecord, Seen
    <3>. QED  BY <3>1 DEF Outcome, Verdict
  <2>2. /\ sched' \in PassRecord /\ sched'.pc = "judge"
        /\ sched'.ready = {} /\ sched'.touched = {}
    BY <1>0, <1>7, <2>1 DEF Judge, PassTypeOK, PassRecord, Is, InHand
  <2>3. PassTypeOK'
    BY <2>2 DEF PassTypeOK, InHand
  <2>. QED  BY <1>0, <1>1, <1>2, <1>7, <2>3 DEF Judge
<1>8. CASE Settle
  <2>1. sched.ready = {} /\ sched.touched = {}
    BY <1>0, <1>8 DEF Settle, Is, PassTypeOK, InHand
  <2>. QED  BY <1>8, <2>1, VerdictsTyped DEF Settle, Pc, InHand
<1>9. CASE ReadPending
  <2>1. /\ sched' \in PassRecord /\ sched'.pc = "retire" /\ sched'.seen = {}
        /\ sched'.touched = {}
    BY <1>0, <1>9 DEF ReadPending, PassTypeOK, PassRecord, Is, InHand, Verdict, Pc
  <2>2. PassTypeOK'
    BY <2>1 DEF PassTypeOK, InHand
  <2>. QED  BY <1>0, <1>1, <1>2, <1>9, <2>2 DEF ReadPending
<1>10. CASE Retire
  <2>1. sched.seen = {} /\ sched.touched = {}
    BY <1>0, <1>10 DEF Retire, Is, PassTypeOK, InHand
  <2>. QED  BY <1>10, <2>1, VerdictsTyped DEF Retire, Pc, InHand
<1>11. ASSUME NEW t \in sched.ready, SkipTarget(t)  PROVE Typed'
  <2>1. t \in Target
    BY <1>0 DEF PassRecord
  <2>2. PassTypeOK'
    BY <1>0, <1>11, <2>1 DEF SkipTarget, PassTypeOK, PassRecord, Is, InHand
  <2>. QED  BY <1>0, <1>1, <1>2, <1>11, <2>2 DEF SkipTarget
<1>12. CASE Dispatched
  <2>1. PassTypeOK'
    BY <1>0, <1>12 DEF Dispatched, PassTypeOK, PassRecord, Is, InHand, Pc
  <2>. QED  BY <1>0, <1>1, <1>2, <1>12, <2>1 DEF Dispatched
<1>13. CASE QueueCommand
  <2>1. Fresh \in Command
    BY <1>13 DEF QueueCommand, Fresh
  <2>2. sched.target \in Target /\ sched.target[2] \in Machine
    BY <1>0, <1>13, Targets DEF QueueCommand, Is, PassTypeOK, InHand
  <2>3. QueueTypeOK'
    BY <1>0, <1>13, <2>1, <2>2, DeployQueueOperations DEF QueueCommand
  <2>4. PassTypeOK'
    BY <1>0, <1>13, <2>1, <2>2 DEF QueueCommand, PassTypeOK, PassRecord, Is, InHand, Pc
  <2>5. madeFor' \in [Command -> Target \cup {NoTarget}]
    BY <1>2, <1>13, <2>2 DEF QueueCommand
  <2>. QED  BY <1>0, <1>1, <1>13, <2>3, <2>4, <2>5 DEF QueueCommand
<1>14. CASE RecordCommand
  <2>1. sched.target \in Target /\ sched.command \in Command /\ sched.target[1] \in Deployment
    BY <1>0, <1>14, Targets DEF RecordCommand, Is, PassTypeOK, InHand
  <2>2. row' \in [Target -> Row]
    BY <1>0, <1>14, <2>1, DeployRowUpdates DEF RecordCommand
  <2>3. NoTarget \in (Deployment \cup {NoMachine}) \X (Machine \cup {NoMachine})
    BY DEF NoTarget
  <2>4. PassTypeOK'
    BY <1>0, <1>14, <2>1, <2>3 DEF RecordCommand, PassTypeOK, PassRecord, Is, InHand, Pc
  <2>. QED  BY <1>0, <1>1, <1>2, <1>14, <2>2, <2>4 DEF RecordCommand
<1>15. ASSUME NEW t \in sched.ready, ClaimTarget(t)  PROVE Typed'
  <2>1. t \in Target /\ row[t].attempts \in 0..MaxAttempts
    BY <1>0, DeployRowUpdates DEF PassRecord
  <2>2. row[t].attempts < MaxAttempts
    BY <1>15, <2>1 DEF ClaimTarget, ReadEnough
  <2>3. row' \in [Target -> Row]
    BY <1>0, <1>15, <2>1, <2>2 DEF ClaimTarget, Row
  <2>4. /\ sched' = [sched EXCEPT !.ready = @ \ {t}, !.pc = "queue", !.target = t] /\ "queue" \in Pc
        /\ sched.pc = "claim"
    BY <1>15 DEF ClaimTarget, Pc, Is
  <2>5. sched' \in PassRecord
    BY <2>1, <2>4, DeployPassMoves
  <2>6. PassTypeOK'
    BY <1>0, <2>1, <2>4, <2>5 DEF PassTypeOK, PassRecord, InHand
  <2>. QED  BY <1>0, <1>1, <1>2, <1>15, <2>3, <2>6 DEF ClaimTarget
<1>16. ASSUME NEW d \in sched.touched, RefreshRead(d)  PROVE Typed'
  <2>1. d \in Deployment /\ RollUp(d, row) \in DeploymentStatus \cup {"none"}
    BY <1>0, RollUpTyped DEF PassRecord
  <2>2. PassTypeOK'
    <3>1. CASE RollUp(d, row) = deployment[d]
      <4>1. sched' = [sched EXCEPT !.touched = @ \ {d}] /\ sched.pc = "refresh"
        BY <1>16, <3>1 DEF RefreshRead, Is
      <4>. QED  BY <1>0, <4>1 DEF PassTypeOK, PassRecord, InHand
    <3>2. CASE RollUp(d, row) # deployment[d]
      <4>1. /\ sched' = [sched EXCEPT !.pc = "write", !.to = RollUp(d, row), !.target = <<d, NoMachine>>]
            /\ sched.pc = "refresh" /\ "write" \in Pc
        BY <1>16, <3>2 DEF RefreshRead, Is, Pc
      <4>. QED  BY <1>0, <2>1, <4>1 DEF PassTypeOK, PassRecord, InHand
    <3>. QED  BY <3>1, <3>2
  <2>. QED  BY <1>0, <1>1, <1>2, <1>16, <2>2 DEF RefreshRead
<1>. QED
  BY <1>4, <1>5, <1>6, <1>7, <1>8, <1>9, <1>10, <1>11, <1>12, <1>13, <1>14, <1>15, <1>16 DEF Reconcile, Dispatch

\* Every step keeps the kinds of values.
LEMMA DeployStepTyped ==
  ASSUME Typed, ReadEnough, [FaultyNext]_deployVars
  PROVE  Typed'
<1>1. CASE UNCHANGED deployVars
  BY <1>1, DeployQueueUntouched DEF deployVars, tableVars, worldVars, Typed, DeployTypeOK, PassTypeOK
<1>2. CASE AgentStep
  <2>1. QueueTypeOK'
    BY <1>2, DeployQueueOperations DEF AgentStep, AgentClaims, AgentReports, Typed, DeployTypeOK
  <2>2. UNCHANGED <<tableVars, worldVars, sched, retries, madeFor>>
    BY <1>2 DEF AgentStep, AgentClaims, AgentReports
  <2>. QED  BY <2>1, <2>2 DEF tableVars, worldVars, Typed, DeployTypeOK, PassTypeOK
<1>3. CASE WorldStep
  <2>1. QueueTypeOK'
    BY <1>3, DeployQueueOperations, DeployQueueUntouched
       DEF WorldStep, Clock, CloseWindow, LapseCommand, ReportsInability, Typed, DeployTypeOK
  <2>2. UNCHANGED <<tableVars, broken, sched, retries, madeFor>>
    BY <1>3 DEF WorldStep, Clock, CloseWindow, LapseCommand, ReportsInability, worldVars
  <2>3. waiting' \subseteq Target /\ closed' \subseteq Deployment /\ unable' \subseteq Machine
    BY <1>3 DEF WorldStep, Clock, CloseWindow, LapseCommand, ReportsInability, worldVars, Typed, DeployTypeOK
  <2>. QED  BY <2>1, <2>2, <2>3 DEF tableVars, Typed, DeployTypeOK, PassTypeOK
<1>. QED
  BY <1>1, <1>2, <1>3, OperatorsKeepTyped, SchedulerKeepsTyped DEF FaultyNext, Next

-------------------------------------------------------------------------------
(* Rows that come and go.                                                  *)

\* What an operator has half done was allowed when it was begun.
LEMMA OpsStayAllowed ==
  ASSUME OpsAreAllowed, [FaultyNext]_deployVars
  PROVE  OpsAreAllowed'
<1>1. ASSUME ops' \subseteq ops  PROVE OpsAreAllowed'
  BY <1>1 DEF OpsAreAllowed
<1>2. CASE UNCHANGED deployVars
  BY <1>1, <1>2 DEF deployVars
<1>3. CASE AgentStep \/ WorldStep
  BY <1>1, <1>3 DEF AgentStep, AgentClaims, AgentReports, WorldStep, Clock, CloseWindow, LapseCommand,
                    ReportsInability
<1>4. CASE Reconcile \/ PassDies
  BY <1>1, <1>4 DEF Reconcile, Tick, ReadInFlight, Judge, Settle, ApplyVerdicts, PassDies
<1>5. CASE Dispatch
  BY <1>1, <1>5 DEF Dispatch, ReadPending, Retire, ApplyVerdicts, ClaimTarget, SkipTarget, QueueCommand,
                    QueueRefused, RecordCommand, Dispatched, RefreshRead, RefreshWrite, PassOver
<1>6. ASSUME NEW d \in Deployment,
             \/ \E M \in SUBSET Machine, opened \in BOOLEAN : CreateDeployment(d, M, opened)
             \/ CancelCommit(d) \/ RetryFailures(d) \/ DeletePackage(d)
      PROVE  OpsAreAllowed'
  BY <1>1, <1>6 DEF CreateDeployment, CancelCommit, RetryFailures, DeletePackage
<1>7. ASSUME NEW d \in Deployment, CancelCheck(d)  PROVE OpsAreAllowed'
  BY <1>7 DEF CancelCheck, OpsAreAllowed
<1>8. ASSUME NEW m \in Machine, "delete" \in Operations, DeleteMachine(m)  PROVE OpsAreAllowed'
  BY <1>8 DEF DeleteMachine, OpsAreAllowed
<1>9. ASSUME NEW m \in Machine, ForgetMachine(m)  PROVE OpsAreAllowed'
  BY <1>1, <1>9 DEF ForgetMachine
<1>10. ASSUME NEW m \in Machine, NEW n \in Machine, MergeMachines(m, n)  PROVE OpsAreAllowed'
  BY <1>10 DEF MergeMachines, OpsAreAllowed
<1>11. ASSUME NEW m \in Machine, NEW n \in Machine, RenameMachine(m, n)  PROVE OpsAreAllowed'
  BY <1>1, <1>11 DEF RenameMachine
<1>. QED
  BY <1>2, <1>3, <1>4, <1>5, <1>6, <1>7, <1>8, <1>9, <1>10, <1>11 DEF FaultyNext, Next, OperatorStep, MergeStep

\* Only these steps write the tables.
Writes ==
    \/ \E d \in Deployment :
         \/ \E M \in SUBSET Machine, opened \in BOOLEAN : CreateDeployment(d, M, opened)
         \/ CancelCommit(d)
         \/ "retry" \in Operations /\ RetryFailures(d)
    \/ \E m \in Machine : ForgetMachine(m) \/ \E n \in Machine : RenameMachine(m, n)
    \/ Settle \/ Retire
    \/ \E t \in sched.ready : ClaimTarget(t)
    \/ RecordCommand \/ RefreshWrite

\* The others leave them as they are, and the operators' own leave the pass too.
LEMMA OnlyTheseWrite ==
  ASSUME [FaultyNext]_deployVars, ~Writes
  PROVE  UNCHANGED <<tableVars, retries>>
<1>1. CASE UNCHANGED deployVars
  BY <1>1 DEF deployVars
<1>2. CASE AgentStep \/ WorldStep
  BY <1>2 DEF AgentStep, AgentClaims, AgentReports, WorldStep, Clock, CloseWindow, LapseCommand,
              ReportsInability
<1>3. CASE Reconcile \/ PassDies
  BY <1>3 DEF Reconcile, Tick, ReadInFlight, Judge, PassDies, Writes
<1>4. CASE Dispatch
  BY <1>4 DEF Dispatch, ReadPending, SkipTarget, QueueCommand,
              QueueRefused, Dispatched, RefreshRead, PassOver, Writes
<1>5. CASE OperatorStep \/ MergeStep
  BY <1>5 DEF OperatorStep, MergeStep, CancelCheck, DeletePackage, DeleteMachine, MergeMachines, Writes
<1>. QED  BY <1>1, <1>2, <1>3, <1>4, <1>5 DEF FaultyNext, Next

\* Only the scheduler moves its pass on and issues commands.
LEMMA OthersLeaveThePass ==
  ASSUME AgentStep \/ WorldStep \/ OperatorStep \/ MergeStep \/ UNCHANGED deployVars
  PROVE  UNCHANGED <<sched, madeFor>>
BY DEF AgentStep, AgentClaims, AgentReports, WorldStep, Clock, CloseWindow, LapseCommand,
       ReportsInability, OperatorStep, CreateDeployment, CancelCheck, CancelCommit, RetryFailures,
       DeletePackage, DeleteMachine, ForgetMachine, MergeStep, MergeMachines, RenameMachine, deployVars

\* A row comes with its deployment, or to the survivor of a merge; it goes
\* with its machine.
Comes(t) == \/ ~Begun(t[1]) /\ Begun(t[1])'
            \/ Begun(t[1]) /\ Duplicate # {} /\ t[2] \notin Duplicate
Goes(t) == "delete" \in Operations \/ (Duplicate # {} /\ t[2] \in Duplicate)

RowsBegun == \A t \in Target : HasTargetRow(t) => Begun(t[1])

LEMMA Presence ==
  ASSUME Typed, OpsAreAllowed, RowsBegun, sched.pc = "write" => sched.to # "none",
         [FaultyNext]_deployVars
  PROVE  /\ \A d \in Deployment : Begun(d) => Begun(d)'
         /\ \A t \in Target : ~HasTargetRow(t) /\ HasTargetRow(t)' => Comes(t)
         /\ \A t \in Target : HasTargetRow(t) /\ ~HasTargetRow(t)' => Goes(t)
         /\ RowsBegun'
<1> DEFINE Kept == \A d \in Deployment : Begun(d) => Begun(d)'
           Came == \A t \in Target : ~HasTargetRow(t) /\ HasTargetRow(t)' => Comes(t)
           Went == \A t \in Target : HasTargetRow(t) /\ ~HasTargetRow(t)' => Goes(t)
<1>0. /\ row \in [Target -> Row] /\ deployment \in [Deployment -> DeploymentStatus \cup {"none"}]
      /\ sched \in PassRecord /\ PassTypeOK
  BY DEF Typed, DeployTypeOK, PassTypeOK
\* Whatever has a row before has one after, and the other way round.
<1>1. ASSUME Kept, \A t \in Target : HasTargetRow(t)' <=> HasTargetRow(t)
      PROVE  Kept /\ Came /\ Went /\ RowsBegun'
  <2>1. RowsBegun'
    BY <1>1, Targets DEF RowsBegun
  <2>. QED  BY <1>1, <2>1
<1>2. CASE ~Writes
  BY <1>1, <1>2, OnlyTheseWrite DEF tableVars, HasTargetRow, Begun
<1>3. ASSUME NEW d \in Deployment, NEW M \in SUBSET Machine, NEW opened, CreateDeployment(d, M, opened)
      PROVE  Kept /\ Came /\ Went /\ RowsBegun'
  <2>1. Kept /\ Begun(d)' /\ ~Begun(d)
    BY <1>0, <1>3 DEF CreateDeployment, Begun
  <2>2. \A t \in Target : t[1] # d => row'[t] = row[t]
    BY <1>3, Targets DEF CreateDeployment
  <2>3. \A t \in Target : t[1] = d => ~HasTargetRow(t)
    BY <2>1 DEF RowsBegun
  <2>4. Came /\ Went
    BY <2>1, <2>2, <2>3 DEF HasTargetRow, Comes
  <2>5. RowsBegun'
    BY <2>1, <2>2, Targets DEF HasTargetRow, RowsBegun
  <2>. QED  BY <2>1, <2>4, <2>5
<1>4. ASSUME NEW d \in Deployment, CancelCommit(d) \/ RetryFailures(d)
      PROVE  Kept /\ Came /\ Went /\ RowsBegun'
  <2>1. Kept
    BY <1>0, <1>4 DEF CancelCommit, RetryFailures, Begun
  <2>2. \A t \in Target : row'[t].status # row[t].status => HasTargetRow(t) /\ HasTargetRow(t)'
    <3>1. CASE CancelCommit(d)
      BY <1>0, <3>1 DEF CancelCommit, HasTargetRow, Row
    <3>2. CASE RetryFailures(d)
      BY <1>0, <3>2 DEF RetryFailures, HasTargetRow, TargetsOf, Row
    <3>. QED  BY <1>4, <3>1, <3>2
  <2>. QED  BY <1>1, <2>1, <2>2 DEF HasTargetRow
<1>5. ASSUME NEW m \in Machine, ForgetMachine(m)  PROVE Kept /\ Came /\ Went /\ RowsBegun'
  <2>1. Kept
    BY <1>0, <1>5, RollUpTyped DEF ForgetMachine, Refreshed, Begun
  <2>2. "delete" \in Operations
    BY <1>5 DEF ForgetMachine, OpsAreAllowed
  <2>3. \A t \in Target : HasTargetRow(t)' => HasTargetRow(t)
    BY <1>0, <1>5 DEF ForgetMachine, HasTargetRow, NoTargetRow
  <2>4. RowsBegun'
    BY <2>1, <2>3, Targets DEF RowsBegun
  <2>5. Came
    BY <2>3
  <2>6. Went
    <3>1. \A t \in Target : Goes(t)
      BY <2>2, Zenon DEF Goes
    <3>. QED  BY <3>1
  <2>. QED  BY <2>1, <2>4, <2>5, <2>6
<1>6. ASSUME NEW m \in Machine, NEW n \in Machine, RenameMachine(m, n)
      PROVE  Kept /\ Came /\ Went /\ RowsBegun'
  <2>1. Kept /\ UNCHANGED deployment
    BY <1>6 DEF RenameMachine, Begun
  <2>2. m \in Duplicate /\ n \notin Duplicate
    BY <1>6 DEF RenameMachine, OpsAreAllowed
  <2>3. \A t \in Target : <<t[1], m>> \in Target /\ <<t[1], m>>[1] = t[1]
    BY Targets
  <2>4. \A t \in Target : ~HasTargetRow(t) /\ HasTargetRow(t)'
                            => t[2] = n /\ HasTargetRow(<<t[1], m>>)
    BY <1>0, <1>6 DEF RenameMachine, HasTargetRow, NoTargetRow
  <2>5. \A t \in Target : HasTargetRow(t) /\ ~HasTargetRow(t)' => t[2] = m
    BY <1>0, <1>6 DEF RenameMachine, HasTargetRow, NoTargetRow
  <2>6. Came
    BY <2>2, <2>3, <2>4 DEF RowsBegun, Comes
  <2>7. Went
    BY <2>2, <2>5 DEF Goes
  <2>8. RowsBegun'
    BY <2>1, <2>3, <2>4 DEF RowsBegun, Begun
  <2>. QED  BY <2>1, <2>6, <2>7, <2>8
<1>7. ASSUME NEW pc, ApplyVerdicts(pc)  PROVE Kept /\ Came /\ Went /\ RowsBegun'
  <2> DEFINE statusOf(t) == {v.status : v \in {u \in sched.verdicts : u.target = t}}
  <2>1. Kept
    BY <1>0, <1>7, RollUpTyped DEF ApplyVerdicts, Refreshed, Begun
  <2>2. \A t : statusOf(t) \subseteq TargetStatus
    BY <1>0 DEF PassRecord, Verdict
  <2>3. \A t \in Target : row'[t] = IF HasTargetRow(t) /\ statusOf(t) # {}
                                    THEN [row[t] EXCEPT !.status = CHOOSE x \in statusOf(t) : TRUE]
                                    ELSE row[t]
    BY <1>7 DEF ApplyVerdicts
  <2> HIDE DEF statusOf
  <2>4. \A t \in Target : statusOf(t) # {} => (CHOOSE x \in statusOf(t) : TRUE) \in TargetStatus
    BY <2>2
  <2>5. \A t \in Target : HasTargetRow(t)' <=> HasTargetRow(t)
    BY <1>0, <2>3, <2>4, StatusNames DEF HasTargetRow, Row
  <2>. QED  BY <1>1, <2>1, <2>5
<1>8. CASE Settle \/ Retire
  BY <1>7, <1>8 DEF Settle, Retire
<1>9. ASSUME NEW t \in sched.ready, ClaimTarget(t)  PROVE Kept /\ Came /\ Went /\ RowsBegun'
  BY <1>0, <1>1, <1>9 DEF ClaimTarget, HasTargetRow, Begun, PassRecord
<1>10. CASE RecordCommand
  BY <1>0, <1>1, <1>10 DEF RecordCommand, HasTargetRow, Begun, Row
<1>11. CASE RefreshWrite
  BY <1>0, <1>1, <1>11, RollUpTyped DEF RefreshWrite, Refreshed, HasTargetRow, Begun, Is
<1>. QED
  BY <1>2, <1>3, <1>4, <1>5, <1>6, <1>8, <1>9, <1>10, <1>11 DEF Writes

\* A known target stays known, and without a row it gets none.
LEMMA KnownStays ==
  ASSUME Typed, Apart, OpsAreAllowed, AllKnown, [FaultyNext]_deployVars
  PROVE  /\ RowsBegun'
         /\ \A d \in Deployment : Begun(d) => Begun(d)'
         /\ \A t \in Target : Known(t) => Known(t)' /\ (~HasTargetRow(t) => ~HasTargetRow(t)')
<1>1. /\ \A d \in Deployment : Begun(d) => Begun(d)'
      /\ \A t \in Target : ~HasTargetRow(t) /\ HasTargetRow(t)' => Comes(t)
      /\ \A t \in Target : HasTargetRow(t) /\ ~HasTargetRow(t)' => Goes(t)
      /\ RowsBegun'
  BY Presence DEF AllKnown, RowsBegun
<1>2. ASSUME NEW t \in Target, Known(t)
      PROVE  Known(t)' /\ (~HasTargetRow(t) => ~HasTargetRow(t)')
  <2>1. Begun(t[1]) /\ Begun(t[1])'
    BY <1>1, <1>2, Targets DEF Known
  <2>2. ~HasTargetRow(t) => ~HasTargetRow(t)'
    BY <1>1, <1>2, <2>1 DEF Known, Comes
  <2>3. HasTargetRow(t)' \/ Duplicate = {} \/ t[2] \in Duplicate
    BY <1>1, <1>2 DEF Known, Goes, Apart
  <2>. QED  BY <2>1, <2>2, <2>3 DEF Known
<1>. QED  BY <1>1, <1>2

\* What a pass takes with it is what it had, or what it reads off a row.
Learns ==
    /\ \A s \in sched'.seen : s \in sched.seen \/ (s.target \in Target /\ HasTargetRow(s.target))
    /\ \A v \in sched'.verdicts : \/ v \in sched.verdicts
                                  \/ (v.target \in Target /\ HasTargetRow(v.target))
                                  \/ \E s \in sched.seen : s.target = v.target
    /\ \A t \in sched'.ready : t \in sched.ready \/ (t \in Target /\ HasTargetRow(t))
    /\ sched'.pc \in InHand => \/ sched.pc \in InHand /\ sched'.target = sched.target
                               \/ sched'.target \in sched.ready
    /\ \A d \in sched'.touched : \/ d \in sched.touched
                                 \/ sched.pc \in InHand /\ d = sched.target[1]
    /\ sched'.pc = "write" => \/ /\ sched.pc = "write"
                                 /\ sched'.to = sched.to /\ sched'.target = sched.target
                              \/ sched'.target[1] \in sched.touched /\ sched'.to # "none"
    /\ \A c \in Command : \/ madeFor'[c] = madeFor[c]
                          \/ sched.pc \in InHand /\ madeFor'[c] = sched.target

\* A pass reads rows of targets that are known, and keeps them.
LEMMA AllStayKnown ==
  ASSUME Typed, Apart, OpsAreAllowed, AllKnown, [FaultyNext]_deployVars
  PROVE  AllKnown'
<1>0. /\ sched \in PassRecord /\ PassTypeOK /\ madeFor \in [Command -> Target \cup {NoTarget}]
  BY DEF Typed, DeployTypeOK, PassTypeOK
<1>1. /\ RowsBegun'
      /\ \A d \in Deployment : Begun(d) => Begun(d)'
      /\ \A t \in Target : Known(t) => Known(t)'
  BY KnownStays
<1>2. /\ \A t \in Target : HasTargetRow(t) => Known(t)
      /\ RowsBegun
  BY DEF AllKnown, Known, RowsBegun
<1>3. /\ \A s \in sched.seen : s.target \in Target
      /\ \A v \in sched.verdicts : v.target \in Target
      /\ sched.ready \subseteq Target /\ sched.touched \subseteq Deployment
      /\ sched.pc \in InHand => sched.target \in Target
      /\ sched.pc = "write" => sched.target[1] \in Deployment
  BY <1>0 DEF PassTypeOK, PassRecord, Seen, Verdict
<1>4. \A c \in Command : madeFor[c] # NoTarget => madeFor[c] \in Target /\ Known(madeFor[c])
  BY <1>0 DEF AllKnown
\* What it knew it knows, and what it reads it knows.
<1>5. ASSUME Learns
      PROVE  AllKnown'
  <2>1. \A s \in sched'.seen : Known(s.target)'
    BY <1>1, <1>2, <1>3, <1>5 DEF AllKnown, Learns
  <2>2. \A v \in sched'.verdicts : Known(v.target)'
    BY <1>1, <1>2, <1>3, <1>5 DEF AllKnown, Learns
  <2>3. \A t \in sched'.ready : Known(t)'
    BY <1>1, <1>2, <1>3, <1>5 DEF AllKnown, Learns
  <2>4. sched'.pc \in InHand => Known(sched.target)'
    BY <1>1, <1>3, <1>5 DEF AllKnown, Learns
  <2>5. \A d \in sched'.touched : Begun(d)'
    <3>1. sched.pc \in InHand => sched.target[1] \in Deployment /\ Begun(sched.target[1])
      BY <1>3, Targets DEF AllKnown, Known
    <3>2. \A d \in sched.touched : Begun(d)
      BY DEF AllKnown
    <3>. QED  BY <1>1, <1>3, <1>5, <3>1, <3>2 DEF Learns
  <2>6. sched'.pc = "write" => Begun(sched.target[1])' /\ sched'.to # "none"
    BY <1>1, <1>3, <1>5 DEF AllKnown, Learns
  <2>7. \A c \in Command : madeFor'[c] # NoTarget => Known(madeFor[c])'
    BY <1>1, <1>3, <1>4, <1>5 DEF AllKnown, Learns
  <2>. QED  BY <1>1, <2>1, <2>2, <2>3, <2>4, <2>5, <2>6, <2>7 DEF AllKnown, RowsBegun
<1>6. CASE UNCHANGED <<sched, madeFor>>
  <2>9. Learns
    BY <1>6 DEF Learns
  <2>. QED  BY <1>5, <2>9
<1>7. CASE sched' = Asleep /\ UNCHANGED madeFor
  <2>9. Learns
    BY <1>7 DEF Asleep, InHand, Learns
  <2>. QED  BY <1>5, <2>9
<1>8. CASE Tick
  <2>1. /\ sched'.pc = "inFlight" /\ sched'.seen = {} /\ sched'.verdicts = {} /\ sched'.ready = {}
        /\ sched'.touched = {} /\ UNCHANGED madeFor
    BY <1>8 DEF Tick, Asleep
  <2>9. Learns
    BY <2>1 DEF InHand, Learns
  <2>. QED  BY <1>5, <2>9
<1>9. CASE ReadInFlight
  <2>1. /\ sched'.pc = "judge" /\ sched'.verdicts = sched.verdicts /\ sched'.ready = sched.ready
        /\ sched'.touched = sched.touched /\ UNCHANGED madeFor
    BY <1>0, <1>9 DEF ReadInFlight, PassRecord
  <2>2. \A s \in sched'.seen : s.target \in Target /\ HasTargetRow(s.target)
    BY <1>0, <1>9 DEF ReadInFlight, PassRecord, Snapshot, HasTargetRow
  <2>9. Learns
    BY <2>1, <2>2 DEF InHand, Learns
  <2>. QED  BY <1>5, <2>9
<1>10. ASSUME NEW s \in sched.seen, Judge(s)  PROVE AllKnown'
  <2>1. /\ sched'.pc = "judge" /\ sched'.seen \subseteq sched.seen /\ sched'.ready = sched.ready
        /\ sched'.touched = sched.touched /\ UNCHANGED madeFor
        /\ \A v \in sched'.verdicts : v \in sched.verdicts \/ v.target = s.target
    BY <1>0, <1>10 DEF Judge, PassRecord, Is
  <2>9. Learns
    BY <2>1 DEF InHand, Learns
  <2>. QED  BY <1>5, <2>9
<1>11. CASE Settle \/ Retire
  <2>1. /\ sched'.pc \in {"pending", "claim"} /\ sched'.seen = sched.seen /\ sched'.verdicts = {}
        /\ sched'.ready = sched.ready /\ sched'.touched = sched.touched /\ UNCHANGED madeFor
    BY <1>0, <1>11 DEF Settle, Retire, ApplyVerdicts, PassRecord
  <2>9. Learns
    BY <2>1 DEF InHand, Learns
  <2>. QED  BY <1>5, <2>9
<1>12. CASE ReadPending
  <2>1. /\ sched'.pc = "retire" /\ sched'.seen = sched.seen /\ sched'.touched = sched.touched
        /\ UNCHANGED madeFor
        /\ \A t \in sched'.ready : t \in Target /\ HasTargetRow(t)
        /\ \A v \in sched'.verdicts : v.target \in Target /\ HasTargetRow(v.target)
    BY <1>0, <1>12 DEF ReadPending, PassRecord, HasTargetRow
  <2>9. Learns
    BY <2>1 DEF InHand, Learns
  <2>. QED  BY <1>5, <2>9
<1>13. ASSUME NEW t \in sched.ready, ClaimTarget(t) \/ SkipTarget(t)  PROVE AllKnown'
  <2>1. /\ sched'.pc \in InHand => sched'.target = t
        /\ sched'.pc # "write" /\ sched'.seen = sched.seen /\ sched'.verdicts = sched.verdicts
        /\ sched'.ready \subseteq sched.ready /\ sched'.touched = sched.touched /\ UNCHANGED madeFor
    <3>1. CASE ClaimTarget(t)
      BY <1>0, <3>1 DEF ClaimTarget, PassRecord
    <3>2. CASE SkipTarget(t)
      BY <1>0, <3>2 DEF SkipTarget, PassRecord, Is, InHand
    <3>. QED  BY <1>13, <3>1, <3>2
  <2>9. Learns
    BY <2>1 DEF Learns
  <2>. QED  BY <1>5, <2>9
<1>14. CASE QueueCommand
  <2>1. /\ sched.pc \in InHand /\ sched'.pc # "write" /\ sched'.target = sched.target
        /\ sched'.seen = sched.seen /\ sched'.verdicts = sched.verdicts
        /\ sched'.ready = sched.ready /\ sched'.touched = sched.touched
    BY <1>0, <1>14 DEF QueueCommand, PassRecord, Is, InHand
  <2>2. \A c \in Command : madeFor'[c] = madeFor[c] \/ madeFor'[c] = sched.target
    BY <1>0, <1>14 DEF QueueCommand
  <2>9. Learns
    BY <2>1, <2>2 DEF Learns
  <2>. QED  BY <1>5, <2>9
<1>15. CASE RecordCommand
  <2>1. /\ sched.pc \in InHand /\ sched'.pc = "claim" /\ sched'.seen = sched.seen
        /\ sched'.verdicts = sched.verdicts /\ sched'.ready = sched.ready
        /\ sched'.touched = sched.touched \cup {sched.target[1]} /\ UNCHANGED madeFor
    BY <1>0, <1>15 DEF RecordCommand, PassRecord, Is, InHand
  <2>9. Learns
    BY <2>1 DEF InHand, Learns
  <2>. QED  BY <1>5, <2>9
<1>16. CASE Dispatched
  <2>1. /\ sched'.pc = "refresh" /\ sched'.seen = sched.seen /\ sched'.verdicts = sched.verdicts
        /\ sched'.ready = sched.ready /\ sched'.touched = sched.touched /\ UNCHANGED madeFor
    BY <1>0, <1>16 DEF Dispatched, PassRecord
  <2>9. Learns
    BY <2>1 DEF InHand, Learns
  <2>. QED  BY <1>5, <2>9
<1>17. ASSUME NEW d \in sched.touched, RefreshRead(d)  PROVE AllKnown'
  <2>1. RollUp(d, row) # "none"
    BY <1>3, RollUpTyped DEF AllKnown, Begun, Typed, DeployTypeOK
  <2>2. /\ sched'.pc \in {"refresh", "write"} /\ sched'.seen = sched.seen
        /\ sched'.verdicts = sched.verdicts /\ sched'.ready = sched.ready
        /\ sched'.touched \subseteq sched.touched /\ UNCHANGED madeFor
        /\ sched'.pc = "write" => sched'.target[1] = d /\ sched'.to = RollUp(d, row)
    BY <1>0, <1>17 DEF RefreshRead, PassRecord, Is
  <2>9. Learns
    BY <2>1, <2>2 DEF InHand, Learns
  <2>. QED  BY <1>5, <2>9
<1>18. CASE AgentStep \/ WorldStep \/ OperatorStep \/ MergeStep \/ UNCHANGED deployVars
  BY <1>6, <1>18, OthersLeaveThePass
<1>19. CASE QueueRefused \/ RefreshWrite \/ PassOver \/ PassDies
  BY <1>7, <1>19 DEF QueueRefused, RefreshWrite, PassOver, PassDies
<1>. QED
  BY <1>8, <1>9, <1>10, <1>11, <1>12, <1>13, <1>14, <1>15, <1>16, <1>17, <1>18, <1>19
     DEF FaultyNext, Next, Reconcile, Dispatch

-------------------------------------------------------------------------------
(* What becomes of a row in flight, of a settled one, and of a budget.     *)

\* The verdicts of a pass that are written: statuses it decided on.
Judged(t) == {v.status : v \in {u \in sched.verdicts : u.target = t}}

LEMMA VerdictsWritten ==
  ASSUME Typed, NEW pc, ApplyVerdicts(pc)
  PROVE  /\ \A t \in Target : \/ UNCHANGED row[t]
                              \/ /\ HasTargetRow(t) /\ row'[t].status \in Judged(t)
                                 /\ row'[t] = [row[t] EXCEPT !.status = row'[t].status]
         /\ deployment' = [d \in Deployment |-> IF \E t \in Target : t[1] = d /\ Judged(t) # {}
                                                THEN RollUp(d, row') ELSE deployment[d]]
<1> DEFINE rows == [t \in Target |-> IF HasTargetRow(t) /\ Judged(t) # {}
                                     THEN [row[t] EXCEPT !.status = CHOOSE x \in Judged(t) : TRUE]
                                     ELSE row[t]]
           judged == {t \in Target : Judged(t) # {}}
<1>1. row' = rows /\ deployment' = Refreshed({t[1] : t \in judged}, rows)
  BY DEF ApplyVerdicts, Judged
<1>2. \A d : d \in {t[1] : t \in judged} <=> \E t \in Target : t[1] = d /\ Judged(t) # {}
  OBVIOUS
<1>3. deployment' = [d \in Deployment |-> IF \E t \in Target : t[1] = d /\ Judged(t) # {}
                                          THEN RollUp(d, row') ELSE deployment[d]]
  <2> HIDE DEF rows
  <2>. QED  BY <1>1, <1>2 DEF Refreshed
<1>4. \A t : Judged(t) # {} => (CHOOSE x \in Judged(t) : TRUE) \in Judged(t)
  OBVIOUS
<1>5. \A t \in Target : row[t] \in Row
  BY DEF Typed, DeployTypeOK
<1>6. ASSUME NEW t \in Target
      PROVE  \/ UNCHANGED row[t]
             \/ /\ HasTargetRow(t) /\ row'[t].status \in Judged(t)
                /\ row'[t] = [row[t] EXCEPT !.status = row'[t].status]
  <2>1. CASE HasTargetRow(t) /\ Judged(t) # {}
    <3>1. PICK x \in Judged(t) : row'[t] = [row[t] EXCEPT !.status = x]
      <4> HIDE DEF Judged
      <4>. QED  BY <1>1, <1>4, <2>1
    <3>2. row'[t].status = x
      BY <1>5, <3>1 DEF Row
    <3>. QED  BY <2>1, <3>1, <3>2
  <2>2. CASE ~(HasTargetRow(t) /\ Judged(t) # {})
    BY <1>1, <2>2
  <2>. QED  BY <2>1, <2>2
<1>. QED  BY <1>3, <1>6

\* What a step may make of a row.
Cancels(t) == row[t].status = "pending" /\ row'[t] = [row[t] EXCEPT !.status = "cancelled"]
Rearms(t) ==
    /\ "retry" \in Operations
    /\ row[t].status \in {"failed", "expired", "cancelled"}
    /\ row'[t] = [row[t] EXCEPT !.status = "pending", !.attempts = 0]
    /\ retries' = [retries EXCEPT ![t[1]] = @ + 1]
    /\ deployment' = [deployment EXCEPT ![t[1]] = "running"]
    /\ sched' = sched
Judges(t) ==
    /\ Settle \/ Retire
    /\ row'[t].status \in Judged(t)
    /\ row'[t] = [row[t] EXCEPT !.status = row'[t].status]
Claims(t) ==
    /\ sched.pc = "claim" /\ t \in sched.ready /\ row[t].status = "pending"
    /\ row'[t] = [status |-> "in_flight", attempts |-> row[t].attempts + 1, command |-> NoCommand]
    /\ sched'.pc = "queue" /\ sched'.target = t
Records(t) ==
    /\ RecordCommand
    /\ sched.pc = "record" /\ t = sched.target
    /\ row'[t] = [row[t] EXCEPT !.command = sched.command]

LEMMA RowKinds ==
  ASSUME Typed, RowsBegun, [FaultyNext]_deployVars, NEW t \in Target, HasTargetRow(t)
  PROVE  \/ UNCHANGED row[t] \/ ~HasTargetRow(t)'
         \/ Cancels(t) \/ Rearms(t) \/ Judges(t) \/ Claims(t) \/ Records(t)
<1>0. /\ row \in [Target -> Row] /\ sched \in PassRecord /\ PassTypeOK
  BY DEF Typed, DeployTypeOK, PassTypeOK
<1>1. CASE ~Writes
  BY <1>1, OnlyTheseWrite DEF tableVars
<1>2. ASSUME NEW d \in Deployment, NEW M \in SUBSET Machine, NEW opened, CreateDeployment(d, M, opened)
      PROVE  UNCHANGED row[t]
  <2>1. t[1] # d
    BY <1>2 DEF CreateDeployment, RowsBegun, Begun
  <2>. QED  BY <1>2, <2>1, Targets DEF CreateDeployment
<1>3. ASSUME NEW d \in Deployment, CancelCommit(d)  PROVE UNCHANGED row[t] \/ Cancels(t)
  BY <1>3 DEF CancelCommit, Cancels
<1>4. ASSUME NEW d \in Deployment, "retry" \in Operations, RetryFailures(d)  PROVE UNCHANGED row[t] \/ Rearms(t)
  BY <1>4 DEF RetryFailures, TargetsOf, Rearms
<1>5. ASSUME NEW m \in Machine, ForgetMachine(m)  PROVE UNCHANGED row[t] \/ ~HasTargetRow(t)'
  BY <1>5 DEF ForgetMachine, HasTargetRow, NoTargetRow
<1>6. ASSUME NEW m \in Machine, NEW n \in Machine, RenameMachine(m, n)
      PROVE  UNCHANGED row[t] \/ ~HasTargetRow(t)'
  BY <1>6 DEF RenameMachine, HasTargetRow, NoTargetRow
<1>7. CASE Settle \/ Retire
  <2>1. \E pc : ApplyVerdicts(pc)
    BY <1>7 DEF Settle, Retire
  <2>. QED  BY <1>7, <2>1, VerdictsWritten DEF Judges
<1>8. ASSUME NEW u \in sched.ready, ClaimTarget(u)  PROVE UNCHANGED row[t] \/ Claims(t)
  <2>1. u \in Target /\ sched'.pc = "queue" /\ sched'.target = u
    BY <1>0, <1>8 DEF ClaimTarget, PassRecord
  <2>. QED  BY <1>0, <1>8, <2>1 DEF ClaimTarget, Claims, Is
<1>9. CASE RecordCommand
  BY <1>0, <1>9 DEF RecordCommand, Records, Is
<1>10. CASE RefreshWrite
  BY <1>10 DEF RefreshWrite
<1>. QED
  BY <1>1, <1>2, <1>3, <1>4, <1>5, <1>6, <1>7, <1>8, <1>9, <1>10 DEF Writes

\* What decides is in flight when it is read, and stays so or goes.
LEMMA VerdictsStayDue ==
  ASSUME Typed, Apart, OpsAreAllowed, AllKnown, VerdictsAreDue, [FaultyNext]_deployVars
  PROVE  VerdictsAreDue'
<1>0. /\ row \in [Target -> Row] /\ sched \in PassRecord /\ PassTypeOK /\ RowsBegun
  BY DEF Typed, DeployTypeOK, PassTypeOK, AllKnown, RowsBegun
<1>1. /\ \A s \in sched.seen : s.target \in Target /\ Known(s.target) /\ InFlightOrGone(s.target)
      /\ \A v \in sched.verdicts : v.target \in Target /\ Known(v.target)
      /\ \A v \in sched.verdicts : v.status \notin Terminal
             => v.status = "pending" /\ InFlightOrGone(v.target) /\ sched.pc = "judge"
      /\ \A t \in sched.ready : t \in Target
  BY <1>0 DEF AllKnown, VerdictsAreDue, PassRecord, Seen, Verdict
\* Nobody but the pass moves a row in flight, other than away.
<1>2. ASSUME NEW t \in Target, Known(t), InFlightOrGone(t), ~(Settle \/ Retire)
      PROVE  InFlightOrGone(t)'
  <2>1. ASSUME ~HasTargetRow(t)  PROVE InFlightOrGone(t)'
    BY <1>2, <2>1, KnownStays DEF HasTargetRow, InFlightOrGone
  <2>2. ASSUME HasTargetRow(t)  PROVE InFlightOrGone(t)'
    <3>1. row[t].status = "in_flight" /\ row[t] \in Row
      BY <1>0, <1>2, <2>2 DEF HasTargetRow, InFlightOrGone
    <3>2. \/ UNCHANGED row[t] \/ ~HasTargetRow(t)'
          \/ Cancels(t) \/ Rearms(t) \/ Judges(t) \/ Claims(t) \/ Records(t)
      BY <1>0, <2>2, RowKinds
    <3>. QED
      BY <1>2, <3>1, <3>2 DEF Cancels, Rearms, Judges, Claims, Records, HasTargetRow, InFlightOrGone, Row
  <2>. QED  BY <2>1, <2>2
<1>3. ASSUME UNCHANGED sched  PROVE VerdictsAreDue'
  <2>1. ~(Settle \/ Retire)
    BY <1>0, <1>3 DEF Settle, Retire, ApplyVerdicts, Is, PassRecord
  <2>. QED  BY <1>1, <1>2, <1>3, <2>1 DEF VerdictsAreDue
<1>4. ASSUME sched'.seen = {}, sched'.verdicts = {}  PROVE VerdictsAreDue'
  BY <1>4 DEF VerdictsAreDue
<1>5. CASE Tick \/ QueueRefused \/ RefreshWrite \/ PassOver \/ PassDies
  <2>1. sched'.seen = {} /\ sched'.verdicts = {}
    BY <1>5 DEF Tick, QueueRefused, RefreshWrite, PassOver, PassDies, Asleep
  <2>. QED  BY <1>4, <2>1
<1>6. CASE ReadInFlight
  <2>1. /\ sched'.verdicts = {}
        /\ \A s \in sched'.seen : s.target \in Target /\ row[s.target].status = "in_flight"
        /\ UNCHANGED row
    BY <1>0, <1>6 DEF ReadInFlight, PassTypeOK, PassRecord, Snapshot, Is, tableVars
  <2>. QED  BY <2>1 DEF VerdictsAreDue, InFlightOrGone
<1>7. ASSUME NEW s \in sched.seen, Judge(s)  PROVE VerdictsAreDue'
  <2>1. /\ sched'.seen \subseteq sched.seen /\ UNCHANGED row /\ sched'.pc = "judge"
        /\ \A v \in sched'.verdicts : v \in sched.verdicts \/ (v.target = s.target /\ v.status = Outcome(s))
    BY <1>0, <1>7 DEF Judge, PassRecord, tableVars, Is
  <2>2. Outcome(s) \in Terminal \/ Outcome(s) = "pending"
    BY DEF Outcome, Terminal
  <2>. QED  BY <1>1, <2>1, <2>2 DEF VerdictsAreDue, InFlightOrGone
<1>8. CASE Settle \/ Retire
  <2>1. sched'.seen = {} /\ sched'.verdicts = {}
    BY <1>0, <1>8 DEF Settle, Retire, ApplyVerdicts, PassTypeOK, PassRecord, Is
  <2>. QED  BY <1>4, <2>1
<1>9. CASE ReadPending
  <2>1. sched'.seen = {} /\ \A v \in sched'.verdicts : v.status \in Terminal
    BY <1>0, <1>9 DEF ReadPending, PassTypeOK, PassRecord, Is, Terminal
  <2>. QED  BY <2>1 DEF VerdictsAreDue
<1>10. ASSUME NEW t \in sched.ready, ClaimTarget(t) \/ SkipTarget(t)  PROVE VerdictsAreDue'
  <2>1. sched'.seen = {} /\ sched'.verdicts = {}
    <3>1. CASE ClaimTarget(t)
      BY <1>0, <3>1 DEF ClaimTarget, PassTypeOK, PassRecord, Is
    <3>2. CASE SkipTarget(t)
      BY <1>0, <3>2 DEF SkipTarget, PassTypeOK, PassRecord, Is
    <3>. QED  BY <1>10, <3>1, <3>2
  <2>. QED  BY <1>4, <2>1
<1>11. CASE QueueCommand \/ RecordCommand \/ Dispatched \/ \E d \in sched.touched : RefreshRead(d)
  <2>1. sched.seen = {} /\ sched.verdicts = {}
    BY <1>0, <1>11 DEF QueueCommand, RecordCommand, Dispatched, RefreshRead, PassTypeOK, Is
  <2>2. sched'.seen = sched.seen /\ sched'.verdicts = sched.verdicts
    <3>1. CASE QueueCommand
      BY <1>0, <3>1 DEF QueueCommand, PassRecord
    <3>2. CASE RecordCommand
      BY <1>0, <3>2 DEF RecordCommand, PassRecord
    <3>3. CASE Dispatched
      BY <1>0, <3>3 DEF Dispatched, PassRecord
    <3>4. ASSUME NEW d \in sched.touched, RefreshRead(d)
          PROVE  sched'.seen = sched.seen /\ sched'.verdicts = sched.verdicts
      BY <1>0, <3>4 DEF RefreshRead, PassRecord
    <3>. QED  BY <1>11, <3>1, <3>2, <3>3, <3>4
  <2>. QED  BY <1>4, <2>1, <2>2
<1>12. CASE AgentStep \/ WorldStep \/ OperatorStep \/ MergeStep \/ UNCHANGED deployVars
  BY <1>3, <1>12, OthersLeaveThePass
<1>. QED
  BY <1>5, <1>6, <1>7, <1>8, <1>9, <1>10, <1>11, <1>12 DEF FaultyNext, Next, Reconcile, Dispatch

\* Only an operator's retry takes a settled target back.
LEMMA OnlyARetry ==
  ASSUME Typed, AllKnown, VerdictsAreDue, [FaultyNext]_deployVars,
         NEW t \in Target, row[t].status \in Terminal, row'[t].status \notin Terminal \cup {"none"}
  PROVE  retries' # retries
<1>0. /\ row[t] \in Row /\ sched \in PassRecord /\ RowsBegun /\ retries \in [Deployment -> 0..MaxRetries]
  BY DEF Typed, DeployTypeOK, PassTypeOK, AllKnown, RowsBegun
<1>1. HasTargetRow(t) /\ HasTargetRow(t)'
  BY DEF HasTargetRow, Terminal
<1>2. \/ UNCHANGED row[t] \/ ~HasTargetRow(t)'
      \/ Cancels(t) \/ Rearms(t) \/ Judges(t) \/ Claims(t) \/ Records(t)
  BY <1>0, <1>1, RowKinds
<1>3. CASE Rearms(t)
  <2>1. t[1] \in Deployment /\ retries'[t[1]] = retries[t[1]] + 1 /\ retries[t[1]] \in Nat
    BY <1>0, <1>3, Targets DEF Rearms
  <2>. QED  BY <2>1
<1>4. CASE Judges(t)
  <2>1. PICK v \in sched.verdicts : v.target = t /\ v.status = row'[t].status
    BY <1>4 DEF Judges, Judged
  <2>2. InFlightOrGone(t)
    BY <2>1 DEF VerdictsAreDue
  <2>. QED  BY <2>2 DEF InFlightOrGone, Terminal
<1>. QED
  BY <1>0, <1>1, <1>2, <1>3, <1>4 DEF Cancels, Claims, Records, Row, Terminal

\* What a pass may still queue had attempts left when it was read, and has.
LEMMA ReadingStaysEnough ==
  ASSUME Typed, Apart, OpsAreAllowed, AllKnown, VerdictsAreDue, ReadEnough, [FaultyNext]_deployVars
  PROVE  ReadEnough'
<1>0. /\ row \in [Target -> Row] /\ sched \in PassRecord /\ PassTypeOK /\ RowsBegun
      /\ MaxAttempts \in Nat /\ 0 < MaxAttempts
  BY DEF Typed, DeployTypeOK, PassTypeOK, AllKnown, RowsBegun
<1>1. ASSUME NEW t \in sched.ready, row'[t].status = "pending"
      PROVE  row'[t].attempts < MaxAttempts
  <2>1. t \in Target /\ Known(t) /\ row[t] \in Row
    BY <1>0 DEF AllKnown, PassRecord
  <2>2. HasTargetRow(t)
    BY <1>1, <2>1, KnownStays DEF HasTargetRow
  <2>3. \/ UNCHANGED row[t] \/ ~HasTargetRow(t)'
        \/ Cancels(t) \/ Rearms(t) \/ Judges(t) \/ Claims(t) \/ Records(t)
    BY <1>0, <2>1, <2>2, RowKinds
  <2>4. CASE Judges(t)
    <3>1. PICK v \in sched.verdicts : v.target = t /\ v.status = "pending"
      BY <1>1, <2>4 DEF Judges, Judged
    <3>2. sched.pc = "judge"
      BY <3>1 DEF VerdictsAreDue, Terminal
    <3>. QED  BY <1>0, <3>2 DEF PassTypeOK, InHand
  <2>5. CASE Records(t)
    <3>1. row'[t].status = row[t].status /\ row'[t].attempts = row[t].attempts
      BY <2>1, <2>5 DEF Records, Row
    <3>. QED  BY <1>1, <3>1 DEF ReadEnough
  <2>6. CASE UNCHANGED row[t]
    BY <1>1, <2>6 DEF ReadEnough
  <2>7. CASE Rearms(t)
    BY <1>0, <2>1, <2>7 DEF Rearms, Row
  <2>8. ~HasTargetRow(t)' \/ Cancels(t) \/ Claims(t) => row'[t].status # "pending"
    BY <2>1 DEF HasTargetRow, Cancels, Claims, Row
  <2>. QED  BY <1>1, <2>3, <2>4, <2>5, <2>6, <2>7, <2>8
<1>2. ASSUME sched'.ready \subseteq sched.ready  PROVE ReadEnough'
  BY <1>1, <1>2 DEF ReadEnough
<1>3. CASE ReadPending
  <2>1. \A t \in sched'.ready : t \in Target /\ ~(row[t].attempts >= MaxAttempts)
    BY <1>0, <1>3 DEF ReadPending, PassRecord
  <2>2. UNCHANGED row
    BY <1>3 DEF ReadPending, tableVars
  <2>3. \A t \in Target : row[t].attempts \in 0..MaxAttempts
    BY <1>0, DeployRowUpdates
  <2>4. \A t \in Target : row[t].attempts \in Nat
    BY <1>0, <2>3
  <2>. QED  BY <1>0, <2>1, <2>2, <2>4 DEF ReadEnough
<1>4. CASE Tick \/ QueueRefused \/ RefreshWrite \/ PassOver \/ PassDies
  <2>1. sched'.ready = {}
    BY <1>4 DEF Tick, QueueRefused, RefreshWrite, PassOver, PassDies, Asleep
  <2>. QED  BY <1>2, <2>1
<1>5. ASSUME NEW t \in sched.ready, ClaimTarget(t) \/ SkipTarget(t)  PROVE ReadEnough'
  <2>1. sched'.ready \subseteq sched.ready
    <3>1. CASE ClaimTarget(t)  BY <1>0, <3>1 DEF ClaimTarget, PassRecord
    <3>2. CASE SkipTarget(t)   BY <1>0, <3>2 DEF SkipTarget, PassRecord
    <3>. QED  BY <1>5, <3>1, <3>2
  <2>. QED  BY <1>2, <2>1
<1>6. CASE \/ ReadInFlight \/ (\E s \in sched.seen : Judge(s)) \/ Settle \/ Retire \/ QueueCommand
           \/ RecordCommand \/ Dispatched \/ (\E d \in sched.touched : RefreshRead(d))
  <2>1. sched'.ready = sched.ready
    <3>1. CASE ReadInFlight \/ \E s \in sched.seen : Judge(s)
      BY <1>0, <3>1 DEF ReadInFlight, Judge, PassRecord
    <3>2. CASE Settle \/ Retire
      BY <1>0, <3>2 DEF Settle, Retire, ApplyVerdicts, PassRecord
    <3>3. CASE QueueCommand \/ RecordCommand \/ Dispatched
      BY <1>0, <3>3 DEF QueueCommand, RecordCommand, Dispatched, PassRecord
    <3>4. CASE \E d \in sched.touched : RefreshRead(d)
      BY <1>0, <3>4 DEF RefreshRead, PassRecord
    <3>. QED  BY <1>6, <3>1, <3>2, <3>3, <3>4
  <2>. QED  BY <1>2, <2>1
<1>7. CASE AgentStep \/ WorldStep \/ OperatorStep \/ MergeStep \/ UNCHANGED deployVars
  BY <1>2, <1>7, OthersLeaveThePass
<1>. QED
  BY <1>3, <1>4, <1>5, <1>6, <1>7 DEF FaultyNext, Next, Reconcile, Dispatch

-------------------------------------------------------------------------------
(* The budget.                                                             *)

\* Retries are only ever added.
LEMMA RetriesGrow ==
  ASSUME Typed, [FaultyNext]_deployVars, NEW d \in Deployment
  PROVE  retries[d] \in Nat /\ retries'[d] \in Nat /\ retries[d] <= retries'[d]
<1>1. retries \in [Deployment -> 0..MaxRetries]
  BY DEF Typed, DeployTypeOK
<1>2. CASE UNCHANGED retries
  BY <1>1, <1>2
<1>3. ASSUME NEW e \in Deployment, RetryFailures(e)
      PROVE  retries[d] \in Nat /\ retries'[d] \in Nat /\ retries[d] <= retries'[d]
  <2>1. retries' = [retries EXCEPT ![e] = @ + 1]
    BY <1>3 DEF RetryFailures
  <2>2. retries[d] \in 0..MaxRetries
    BY <1>1
  <2>3. retries'[d] = retries[d] \/ retries'[d] = retries[d] + 1
    BY <1>1, <2>1
  <2>. QED  BY <2>2, <2>3
<1>4. CASE Writes
  <2>1. UNCHANGED retries \/ \E e \in Deployment : RetryFailures(e)
    BY <1>4 DEF Writes, CreateDeployment, CancelCommit, ForgetMachine, RenameMachine, Settle, Retire,
                ApplyVerdicts, ClaimTarget, RecordCommand, RefreshWrite
  <2>. QED  BY <1>2, <1>3, <2>1
<1>. QED  BY <1>2, <1>4, OnlyTheseWrite

\* A command more is one command more for one target.
LEMMA OneInstallMore ==
  ASSUME NEW c, NEW t, madeFor \in [Command -> Target \cup {NoTarget}],
         madeFor' = [madeFor EXCEPT ![c] = t], \A u \in Target : IsFiniteSet(Issued(u))
  PROVE  \A u \in Target : /\ IsFiniteSet(Issued(u)')
                           /\ u # t => Cardinality(Issued(u)') <= Cardinality(Issued(u))
                           /\ Cardinality(Issued(u)') <= Cardinality(Issued(u)) + 1
<1> SUFFICES ASSUME NEW u \in Target
             PROVE  /\ IsFiniteSet(Issued(u)')
                    /\ u # t => Cardinality(Issued(u)') <= Cardinality(Issued(u))
                    /\ Cardinality(Issued(u)') <= Cardinality(Issued(u)) + 1
  OBVIOUS
<1>1. Issued(u)' \subseteq Issued(u) \cup {c} /\ (u # t => Issued(u)' \subseteq Issued(u))
  BY DEF Issued
<1>2. IsFiniteSet(Issued(u) \cup {c}) /\ Cardinality(Issued(u) \cup {c}) <= Cardinality(Issued(u)) + 1
  <2>1. IsFiniteSet(Issued(u)) /\ Cardinality(Issued(u)) \in Nat
    BY FS_CardinalityType
  <2>2. /\ IsFiniteSet(Issued(u) \cup {c})
        /\ Cardinality(Issued(u) \cup {c})
             = IF c \in Issued(u) THEN Cardinality(Issued(u)) ELSE Cardinality(Issued(u)) + 1
    BY <2>1, FS_AddElement
  <2>. QED  BY <2>1, <2>2
<1>3. IsFiniteSet(Issued(u)') /\ Cardinality(Issued(u)') <= Cardinality(Issued(u) \cup {c})
  BY <1>1, <1>2, FS_Subset
<1>4. u # t => Cardinality(Issued(u)') <= Cardinality(Issued(u))
  BY <1>1, FS_Subset
<1>5. Cardinality(Issued(u)') \in Nat /\ Cardinality(Issued(u)) \in Nat /\ Cardinality(Issued(u) \cup {c}) \in Nat
  BY <1>2, <1>3, FS_CardinalityType
<1>. QED  BY <1>2, <1>3, <1>4, <1>5

\* An account that pays for no more, out of no less, is still in order.
LEMMA StaysPaid ==
  ASSUME NEW n \in Nat, NEW m \in Nat, NEW r \in Nat, NEW q \in Nat, NEW a \in Nat, NEW b \in Nat,
         n <= MaxAttempts * r + a, r <= q,
         \/ m <= n /\ a <= b
         \/ m <= n + 1 /\ b = a + 1
         \/ m <= n /\ a <= MaxAttempts /\ b = 0 /\ q = r + 1
  PROVE  m <= MaxAttempts * q + b
<1>1. MaxAttempts \in Nat /\ MaxAttempts * r \in Nat /\ MaxAttempts * q \in Nat
  OBVIOUS
<1>2. MaxAttempts * (r + 1) = MaxAttempts * r + MaxAttempts
  BY <1>1
<1>3. MaxAttempts * r <= MaxAttempts * q
  <2>1. PICK k \in Nat : q = r + k
    <3>1. q - r \in Nat /\ q = r + (q - r)  OBVIOUS
    <3>. QED  BY <3>1
  <2>2. MaxAttempts * (r + k) = MaxAttempts * r + MaxAttempts * k /\ MaxAttempts * k \in Nat
    BY <1>1
  <2>. QED  BY <1>1, <2>1, <2>2
<1>. QED  BY <1>1, <1>2, <1>3

\* What a row gives of credit is in its range.
LEMMA CreditTyped ==
  ASSUME Typed, NEW t \in Target
  PROVE  Credit(t) \in Nat /\ Credit(t) <= MaxAttempts /\ row[t].attempts \in Nat
<1>1. row[t].attempts \in 0..MaxAttempts
  BY DeployRowUpdates DEF Typed, DeployTypeOK
<1>. QED  BY <1>1 DEF Credit

\* And so it is after a step.
LEMMA CreditStaysTyped ==
  ASSUME Typed', NEW t \in Target
  PROVE  Credit(t)' \in Nat /\ Credit(t)' <= MaxAttempts
<1>1. row'[t].attempts \in 0..MaxAttempts
  BY DeployRowUpdates DEF Typed, DeployTypeOK
<1>. QED  BY <1>1 DEF Credit

\* The numbers the account is kept in.
LEMMA PaidIsNumbers ==
  ASSUME Paid, NEW t \in Target
  PROVE  /\ IsFiniteSet(Issued(t)) /\ Cardinality(Issued(t)) \in Nat /\ Upcoming(t) \in Nat
         /\ Cardinality(Issued(t)) + Upcoming(t) \in Nat
         /\ Cardinality(Issued(t)) + Upcoming(t) <= MaxAttempts * retries[t[1]] + Credit(t)
<1>1. IsFiniteSet(Issued(t)) /\ Cardinality(Issued(t)) + Upcoming(t) <= MaxAttempts * retries[t[1]] + Credit(t)
  BY DEF Paid
<1>2. Cardinality(Issued(t)) \in Nat
  BY <1>1, FS_CardinalityType
<1>. QED  BY <1>1, <1>2 DEF Upcoming

\* What a step does to what a target may still have.
LEMMA CreditKinds ==
  ASSUME Typed, Typed', Apart, OpsAreAllowed, AllKnown, VerdictsAreDue, [FaultyNext]_deployVars,
         NEW t \in Target, Known(t)
  PROVE  IF Claims(t) THEN Credit(t)' = Credit(t) + 1
         ELSE Credit(t) <= Credit(t)' \/ (Credit(t)' = 0 /\ retries'[t[1]] = retries[t[1]] + 1)
<1>0. /\ row[t] \in Row /\ RowsBegun /\ retries \in [Deployment -> 0..MaxRetries] /\ t[1] \in Deployment
  BY Targets DEF Typed, DeployTypeOK, AllKnown, RowsBegun
<1>1. /\ Credit(t) \in Nat /\ Credit(t) <= MaxAttempts /\ row[t].attempts \in Nat
      /\ Credit(t)' \in Nat /\ Credit(t)' <= MaxAttempts /\ MaxAttempts \in Nat
  BY CreditTyped, CreditStaysTyped
<1>2. CASE ~HasTargetRow(t)'
  BY <1>1, <1>2 DEF Credit, Claims, HasTargetRow
<1>3. CASE HasTargetRow(t)'
  <2>1. HasTargetRow(t)
    BY <1>3, KnownStays
  <2>2. Credit(t) = row[t].attempts /\ Credit(t)' = row'[t].attempts
    BY <1>3, <2>1 DEF Credit
  <2>3. \/ UNCHANGED row[t] \/ Cancels(t) \/ Rearms(t) \/ Judges(t) \/ Claims(t) \/ Records(t)
    BY <1>0, <1>3, <2>1, RowKinds
  <2>4. CASE UNCHANGED row[t] \/ Cancels(t) \/ Judges(t) \/ Records(t)
    <3>1. row'[t].attempts = row[t].attempts
      BY <1>0, <2>4 DEF Cancels, Judges, Records, Row
    <3>2. Claims(t) => row'[t].attempts = row[t].attempts + 1
      BY DEF Claims
    <3>. QED  BY <1>1, <2>2, <3>1, <3>2
  <2>5. CASE Rearms(t)
    <3>1. row'[t].attempts = 0
      BY <1>0, <2>5 DEF Rearms, Row
    <3>2. retries'[t[1]] = retries[t[1]] + 1
      BY <1>0, <2>5 DEF Rearms
    <3>3. ~Claims(t)
      BY <1>1, <3>1 DEF Claims
    <3>. QED  BY <2>2, <3>1, <3>2, <3>3
  <2>6. CASE Claims(t)
    <3>1. row'[t].attempts = row[t].attempts + 1
      BY <2>6 DEF Claims
    <3>. QED  BY <2>2, <2>6, <3>1
  <2>. QED  BY <2>3, <2>4, <2>5, <2>6
<1>. QED  BY <1>2, <1>3

\* Of commands, a target gets one that was about to be queued; of those about
\* to be queued, one with its claim.
LEMMA CostKinds ==
  ASSUME Typed, Paid, [FaultyNext]_deployVars, NEW t \in Target
  PROVE  /\ IsFiniteSet(Issued(t)')
         /\ Cardinality(Issued(t)') + Upcoming(t)'
              <= Cardinality(Issued(t)) + Upcoming(t) + (IF Claims(t) THEN 1 ELSE 0)
<1> DEFINE Goal == /\ IsFiniteSet(Issued(t)')
                   /\ Cardinality(Issued(t)') + Upcoming(t)'
                        <= Cardinality(Issued(t)) + Upcoming(t) + (IF Claims(t) THEN 1 ELSE 0)
<1>0. /\ sched \in PassRecord /\ PassTypeOK /\ madeFor \in [Command -> Target \cup {NoTarget}]
  BY DEF Typed, DeployTypeOK, PassTypeOK
<1>1. /\ IsFiniteSet(Issued(t)) /\ Cardinality(Issued(t)) \in Nat
      /\ Upcoming(t) \in {0, 1} /\ Upcoming(t)' \in {0, 1}
  BY PaidIsNumbers DEF Upcoming
<1>2. ASSUME UNCHANGED madeFor, Upcoming(t)' <= Upcoming(t) + (IF Claims(t) THEN 1 ELSE 0)  PROVE Goal
  <2>1. Issued(t)' = Issued(t)
    BY <1>2 DEF Issued
  <2>2. (IF Claims(t) THEN 1 ELSE 0) \in {0, 1}
    OBVIOUS
  <2>. QED  BY <1>1, <1>2, <2>1, <2>2
<1>3. ASSUME UNCHANGED <<sched, madeFor>>  PROVE Goal
  BY <1>1, <1>2, <1>3 DEF Upcoming
<1>4. ASSUME UNCHANGED madeFor, sched'.pc # "queue"  PROVE Goal
  BY <1>1, <1>2, <1>4 DEF Upcoming
<1>5. ASSUME NEW u \in sched.ready, ClaimTarget(u)  PROVE Goal
  <2>1. /\ u \in Target /\ sched'.pc = "queue" /\ sched'.target = u /\ UNCHANGED madeFor
        /\ row \in [Target -> Row]
    BY <1>0, <1>5 DEF ClaimTarget, PassRecord, Typed, DeployTypeOK
  <2>2. u = t => Claims(t)
    BY <1>5, <2>1 DEF ClaimTarget, Claims, Is
  <2>3. Upcoming(t)' = IF u = t THEN 1 ELSE 0
    BY <2>1 DEF Upcoming
  <2>. QED  BY <1>1, <1>2, <2>1, <2>2, <2>3
<1>6. CASE QueueCommand
  <2>1. /\ madeFor' = [madeFor EXCEPT ![Fresh] = sched.target] /\ sched'.pc = "record"
        /\ sched.pc = "queue"
    BY <1>0, <1>6 DEF QueueCommand, PassRecord, Is
  <2>2. \A u \in Target : IsFiniteSet(Issued(u))
    BY DEF Paid
  <2>3. /\ IsFiniteSet(Issued(t)')
        /\ t # sched.target => Cardinality(Issued(t)') <= Cardinality(Issued(t))
        /\ Cardinality(Issued(t)') <= Cardinality(Issued(t)) + 1
    BY <1>0, <2>1, <2>2, OneInstallMore
  <2>4. Upcoming(t)' = 0 /\ Upcoming(t) = IF sched.target = t THEN 1 ELSE 0
    BY <2>1 DEF Upcoming
  <2>5. Cardinality(Issued(t)') \in Nat
    BY <2>3, FS_CardinalityType
  <2>6. (IF Claims(t) THEN 1 ELSE 0) \in {0, 1}
    OBVIOUS
  <2>. QED  BY <1>1, <2>3, <2>4, <2>5, <2>6
<1>7. CASE \/ Tick \/ ReadInFlight \/ (\E s \in sched.seen : Judge(s)) \/ Settle \/ ReadPending \/ Retire
           \/ (\E u \in sched.ready : SkipTarget(u)) \/ QueueRefused \/ RecordCommand \/ Dispatched
           \/ (\E d \in sched.touched : RefreshRead(d)) \/ RefreshWrite \/ PassOver \/ PassDies
  <2>1. UNCHANGED madeFor
    BY <1>7 DEF Tick, ReadInFlight, Judge, Settle, ReadPending, Retire, ApplyVerdicts, SkipTarget, QueueRefused,
                RecordCommand, Dispatched, RefreshRead, RefreshWrite, PassOver, PassDies
  <2>2. sched'.pc # "queue"
    <3>1. CASE Tick \/ QueueRefused \/ RefreshWrite \/ PassOver \/ PassDies
      BY <3>1 DEF Tick, QueueRefused, RefreshWrite, PassOver, PassDies, Asleep
    <3>2. CASE ReadInFlight \/ ReadPending \/ Settle \/ Retire \/ RecordCommand \/ Dispatched
      BY <1>0, <3>2 DEF ReadInFlight, ReadPending, Settle, Retire, ApplyVerdicts, RecordCommand, Dispatched, PassRecord
    <3>3. CASE \/ \E s \in sched.seen : Judge(s)
               \/ \E u \in sched.ready : SkipTarget(u)
               \/ \E d \in sched.touched : RefreshRead(d)
      BY <1>0, <3>3 DEF Judge, SkipTarget, RefreshRead, PassRecord, Is
    <3>. QED  BY <1>7, <3>1, <3>2, <3>3
  <2>. QED  BY <1>4, <2>1, <2>2
<1>8. CASE AgentStep \/ WorldStep \/ OperatorStep \/ MergeStep \/ UNCHANGED deployVars
  BY <1>3, <1>8, OthersLeaveThePass
<1>. QED
  BY <1>5, <1>6, <1>7, <1>8 DEF FaultyNext, Next, Reconcile, Dispatch

\* Every step keeps what is paid for paid.
LEMMA StaysPaidFor ==
  ASSUME Typed, Typed', Apart, OpsAreAllowed, AllKnown, VerdictsAreDue, Paid, [FaultyNext]_deployVars
  PROVE  Paid'
<1>0. /\ sched \in PassRecord /\ PassTypeOK /\ madeFor \in [Command -> Target \cup {NoTarget}]
  BY DEF Typed, DeployTypeOK, PassTypeOK
<1> SUFFICES ASSUME NEW t \in Target
             PROVE  /\ IsFiniteSet(Issued(t)')
                    /\ Cardinality(Issued(t)') + Upcoming(t)'
                         <= MaxAttempts * retries'[t[1]] + Credit(t)'
  BY DEF Paid
<1> DEFINE n == Cardinality(Issued(t)) + Upcoming(t)
           m == Cardinality(Issued(t)') + Upcoming(t)'
<1>1. /\ IsFiniteSet(Issued(t)) /\ n \in Nat
      /\ n <= MaxAttempts * retries[t[1]] + Credit(t)
      /\ Credit(t) \in Nat /\ Credit(t) <= MaxAttempts /\ Credit(t)' \in Nat
      /\ retries[t[1]] \in Nat /\ retries'[t[1]] \in Nat /\ retries[t[1]] <= retries'[t[1]]
  BY PaidIsNumbers, CreditTyped, CreditStaysTyped, RetriesGrow, Targets
<1>2. IsFiniteSet(Issued(t)') /\ m <= n + (IF Claims(t) THEN 1 ELSE 0)
  BY CostKinds
<1>3. m \in Nat
  BY <1>2, FS_CardinalityType DEF Upcoming
\* A target no pass and no command knows.
<1>4. CASE ~Known(t)
  <2>1. Issued(t) = {} /\ Upcoming(t) = 0 /\ ~Claims(t)
    BY <1>0, <1>4, Targets DEF AllKnown, Issued, Upcoming, Claims, InHand
  <2>2. m = 0
    BY <1>2, <1>3, <2>1, FS_EmptySet
  <2>3. MaxAttempts * retries'[t[1]] \in Nat
    BY <1>1
  <2>. QED  BY <1>1, <1>2, <2>2, <2>3
<1>5. CASE Known(t)
  <2>1. IF Claims(t) THEN Credit(t)' = Credit(t) + 1
        ELSE Credit(t) <= Credit(t)' \/ (Credit(t)' = 0 /\ retries'[t[1]] = retries[t[1]] + 1)
    BY <1>5, CreditKinds
  <2>2. \/ m <= n /\ Credit(t) <= Credit(t)'
        \/ m <= n + 1 /\ Credit(t)' = Credit(t) + 1
        \/ m <= n /\ Credit(t) <= MaxAttempts /\ Credit(t)' = 0 /\ retries'[t[1]] = retries[t[1]] + 1
    BY <1>1, <1>2, <1>3, <2>1
  <2> DEFINE r == retries[t[1]]  q == retries'[t[1]]  a == Credit(t)  b == Credit(t)'
  <2>3. m <= MaxAttempts * q + b
    <3>1. /\ n \in Nat /\ m \in Nat /\ r \in Nat /\ q \in Nat /\ a \in Nat /\ b \in Nat
          /\ n <= MaxAttempts * r + a /\ r <= q
          /\ \/ m <= n /\ a <= b
             \/ m <= n + 1 /\ b = a + 1
             \/ m <= n /\ a <= MaxAttempts /\ b = 0 /\ q = r + 1
      BY <1>1, <1>3, <2>2
    <3> HIDE DEF n, m, r, q, a, b
    <3>. QED  BY <3>1, StaysPaid
  <2>. QED  BY <1>2, <2>3 DEF m
<1>. QED  BY <1>4, <1>5

\* What is paid for is what a target may cost.
LEMMA PaidKeepsTheBudget ==
  ASSUME Typed, Paid
  PROVE  BudgetIsKept
<1> SUFFICES ASSUME NEW t \in Target
             PROVE  Cardinality(Issued(t)) <= MaxAttempts * (1 + retries[t[1]])
  BY DEF BudgetIsKept, Issued
<1>1. /\ Cardinality(Issued(t)) \in Nat /\ Upcoming(t) \in Nat
      /\ Cardinality(Issued(t)) + Upcoming(t) <= MaxAttempts * retries[t[1]] + Credit(t)
  BY PaidIsNumbers
<1>2. Credit(t) \in Nat /\ Credit(t) <= MaxAttempts
  BY CreditTyped
<1>3. retries[t[1]] \in Nat /\ MaxAttempts \in Nat /\ MaxAttempts * retries[t[1]] \in Nat
  <2>1. t[1] \in Deployment /\ retries \in [Deployment -> 0..MaxRetries]
    BY Targets DEF Typed, DeployTypeOK
  <2>2. retries[t[1]] \in 0..MaxRetries
    BY <2>1
  <2>. QED  BY <2>2
<1>4. MaxAttempts * (1 + retries[t[1]]) = MaxAttempts * retries[t[1]] + MaxAttempts
  BY <1>3
<1>. QED  BY <1>1, <1>2, <1>3, <1>4

-------------------------------------------------------------------------------
(* The roll-up.                                                            *)

\* A row that comes to a deployment under way is another's of that deployment.
LEMMA Arrivals ==
  ASSUME Typed, RowsBegun, [FaultyNext]_deployVars,
         NEW t \in Target, Begun(t[1]), ~HasTargetRow(t), HasTargetRow(t)'
  PROVE  \E u \in Target : u[1] = t[1] /\ HasTargetRow(u) /\ row'[t] = row[u]
<1>0. /\ row \in [Target -> Row] /\ sched \in PassRecord
  BY DEF Typed, DeployTypeOK, PassTypeOK
<1>1. ~UNCHANGED row[t]
  BY DEF HasTargetRow
<1>2. CASE ~Writes
  BY <1>1, <1>2, OnlyTheseWrite DEF tableVars
<1>3. ASSUME NEW d \in Deployment, NEW M \in SUBSET Machine, NEW opened, CreateDeployment(d, M, opened)
      PROVE  FALSE
  <2>1. t[1] # d
    BY <1>3 DEF CreateDeployment, Begun
  <2>. QED  BY <1>1, <1>3, <2>1, Targets DEF CreateDeployment
<1>4. ASSUME NEW d \in Deployment, CancelCommit(d) \/ RetryFailures(d)  PROVE FALSE
  <2>1. row'[t] = row[t]
    <3>1. CASE CancelCommit(d)
      BY <3>1 DEF CancelCommit, HasTargetRow
    <3>2. CASE RetryFailures(d)
      BY <3>2 DEF RetryFailures, TargetsOf, HasTargetRow
    <3>. QED  BY <1>4, <3>1, <3>2
  <2>. QED  BY <1>1, <2>1
<1>5. ASSUME NEW m \in Machine, ForgetMachine(m)  PROVE FALSE
  BY <1>1, <1>5 DEF ForgetMachine, HasTargetRow, NoTargetRow
<1>6. ASSUME NEW m \in Machine, NEW n \in Machine, RenameMachine(m, n)
      PROVE  \E u \in Target : u[1] = t[1] /\ HasTargetRow(u) /\ row'[t] = row[u]
  <2>1. <<t[1], m>> \in Target /\ <<t[1], m>>[1] = t[1]
    BY Targets
  <2>2. row'[t] = row[<<t[1], m>>]
    BY <1>1, <1>6 DEF RenameMachine, HasTargetRow, NoTargetRow
  <2>. QED  BY <2>1, <2>2 DEF HasTargetRow
<1>7. ASSUME NEW pc, ApplyVerdicts(pc)  PROVE FALSE
  BY <1>1, <1>7, VerdictsWritten
<1>8. ASSUME NEW u \in sched.ready, ClaimTarget(u)  PROVE FALSE
  BY <1>0, <1>1, <1>8 DEF ClaimTarget, HasTargetRow
<1>9. CASE RecordCommand \/ RefreshWrite
  BY <1>0, <1>1, <1>9 DEF RecordCommand, RefreshWrite, HasTargetRow
<1>. QED
  BY <1>2, <1>3, <1>4, <1>5, <1>6, <1>7, <1>8, <1>9 DEF Writes, Settle, Retire

\* What is over stays so, except by an operator's retry and a verdict.
LEMMA OverStays ==
  ASSUME Typed, RowsBegun, [FaultyNext]_deployVars, NEW d \in Deployment, Begun(d), Over(d),
         \A t \in Target : t[1] = d => ~Rearms(t) /\ ~Judges(t)
  PROVE  Over(d)'
<1>0. row \in [Target -> Row]
  BY DEF Typed, DeployTypeOK
<1> SUFFICES ASSUME NEW t \in Target, t[1] = d, HasTargetRow(t)'  PROVE row'[t].status \in Terminal
  BY DEF Over, TargetsOf, HasTargetRow
<1>1. CASE ~HasTargetRow(t)
  <2>1. PICK u \in Target : u[1] = d /\ HasTargetRow(u) /\ row'[t] = row[u]
    BY <1>1, Arrivals
  <2>. QED  BY <2>1 DEF Over, TargetsOf, HasTargetRow
<1>2. CASE HasTargetRow(t)
  <2>1. row[t].status \in Terminal
    BY <1>2 DEF Over, TargetsOf, HasTargetRow
  <2>2. UNCHANGED row[t] \/ Cancels(t) \/ Rearms(t) \/ Judges(t) \/ Claims(t) \/ Records(t)
    BY <1>2, RowKinds
  <2>. QED  BY <1>0, <2>1, <2>2 DEF Cancels, Claims, Records, Terminal, Row
<1>. QED  BY <1>1, <1>2

\* What the roll-up says of the rows.
LEMMA RollUpSays ==
  ASSUME NEW d, NEW rows
  PROVE  /\ RollUp(d, rows) = "complete" => /\ deployment[d] \notin {"none", "cancelled"}
                                            /\ TargetsOf(d, rows) # {}
                                            /\ \A t \in TargetsOf(d, rows) : rows[t].status \in Terminal
         /\ RollUp(d, rows) \notin {"none", "complete", "cancelled"}
              => \/ TargetsOf(d, rows) = {}
                 \/ ~\A t \in TargetsOf(d, rows) : rows[t].status \in Terminal
<1> DEFINE states == {rows[t].status : t \in TargetsOf(d, rows)}
<1>1. /\ states = {} <=> TargetsOf(d, rows) = {}
      /\ states \subseteq Terminal <=> \A t \in TargetsOf(d, rows) : rows[t].status \in Terminal
  OBVIOUS
<1>2. RollUp(d, rows) = IF deployment[d] \in {"none", "cancelled"} THEN deployment[d]
                        ELSE IF states # {} /\ states \subseteq Terminal THEN "complete"
                        ELSE IF states \subseteq {"pending"} THEN "scheduled" ELSE "running"
  BY DEF RollUp
<1> HIDE DEF states
<1>. QED  BY <1>1, <1>2

\* A deployment that says complete is over, whoever says so.
LEMMA CompleteStaysOver ==
  ASSUME Typed, AllKnown, CompleteIsOver, RollUpIsOpen, [FaultyNext]_deployVars
  PROVE  CompleteIsOver'
<1>0. /\ row \in [Target -> Row] /\ deployment \in [Deployment -> DeploymentStatus \cup {"none"}]
      /\ sched \in PassRecord /\ RowsBegun /\ PassTypeOK
  BY DEF Typed, DeployTypeOK, PassTypeOK, AllKnown, RowsBegun
<1> SUFFICES ASSUME NEW d \in Deployment, deployment'[d] = "complete"  PROVE Over(d)'
  BY DEF CompleteIsOver, Over
<1>1. CASE deployment'[d] = RollUp(d, row')
  BY <1>1, RollUpSays DEF Over
<1>2. ASSUME deployment[d] = "complete", \A t \in Target : t[1] = d => ~Judges(t)
      PROVE  Over(d)'
  <2>1. Over(d) /\ Begun(d)
    BY <1>2 DEF CompleteIsOver, Over, Begun
  <2>2. \A t \in Target : t[1] = d => ~Rearms(t)
    BY <1>0 DEF Rearms
  <2>. QED  BY <1>0, <1>2, <2>1, <2>2, OverStays
<1>3. ASSUME NEW pc, ApplyVerdicts(pc)  PROVE Over(d)'
  <2>1. deployment'[d] = IF \E t \in Target : t[1] = d /\ Judged(t) # {} THEN RollUp(d, row') ELSE deployment[d]
    BY <1>3, VerdictsWritten
  <2>2. \A t \in Target : Judges(t) => Judged(t) # {}
    BY DEF Judges
  <2>. QED  BY <1>1, <1>2, <2>1, <2>2
<1>4. CASE ~(Settle \/ Retire) /\ deployment'[d] = deployment[d]
  BY <1>2, <1>4 DEF Judges
<1>5. CASE deployment'[d] # deployment[d] /\ ~(Settle \/ Retire)
  <2>1. Writes
    BY <1>5, OnlyTheseWrite DEF tableVars
  <2>2. ASSUME NEW e \in Deployment, NEW M \in SUBSET Machine, NEW opened, CreateDeployment(e, M, opened)
        PROVE  FALSE
    BY <1>0, <1>5, <2>2 DEF CreateDeployment
  <2>3. ASSUME NEW e \in Deployment, CancelCommit(e) \/ RetryFailures(e)  PROVE FALSE
    BY <1>0, <1>5, <2>3 DEF CancelCommit, RetryFailures
  <2>4. ASSUME NEW m \in Machine, ForgetMachine(m)  PROVE Over(d)'
    <3>1. deployment'[d] = RollUp(d, row')
      BY <1>5, <2>4 DEF ForgetMachine, Refreshed
    <3>. QED  BY <1>1, <3>1
  <2>5. ASSUME NEW m \in Machine, NEW n \in Machine, RenameMachine(m, n)  PROVE FALSE
    BY <1>5, <2>5 DEF RenameMachine
  <2>6. ASSUME NEW t \in sched.ready, ClaimTarget(t)  PROVE FALSE
    BY <1>5, <2>6 DEF ClaimTarget
  <2>7. CASE RecordCommand
    BY <1>5, <2>7 DEF RecordCommand
  <2>8. CASE RefreshWrite
    <3>1. UNCHANGED row /\ sched.pc = "write"
      BY <2>8 DEF RefreshWrite, Is
    <3>2. CASE d = sched.target[1]
      <4>1. sched.to = "complete"
        BY <1>0, <2>8, <3>2 DEF RefreshWrite, Refreshed
      <4>. QED  BY <3>1, <3>2, <4>1 DEF RollUpIsOpen, Over, TargetsOf
    <3>3. CASE d # sched.target[1]
      <4>1. deployment'[d] = RollUp(d, row')
        BY <1>5, <2>8, <3>1, <3>3 DEF RefreshWrite, Refreshed
      <4>. QED  BY <1>1, <4>1
    <3>. QED  BY <3>2, <3>3
  <2>. QED  BY <1>5, <2>1, <2>2, <2>3, <2>4, <2>5, <2>6, <2>7, <2>8 DEF Writes
<1>. QED  BY <1>3, <1>4, <1>5 DEF Settle, Retire

\* No merge, no delay: what the scheduler has a hand in is not over unless its
\* deployment says so.
LEMMA StaysOpen ==
  ASSUME Typed, AllKnown, OpsAreAllowed, [FaultyNext]_deployVars,
         NEW d \in Deployment, Begun(d), StillOpen(d), ~(Settle \/ Retire \/ RefreshWrite)
  PROVE  StillOpen(d)'
<1>0. /\ row \in [Target -> Row] /\ deployment \in [Deployment -> DeploymentStatus \cup {"none"}]
      /\ sched \in PassRecord /\ RowsBegun /\ PassTypeOK
  BY DEF Typed, DeployTypeOK, PassTypeOK, AllKnown, RowsBegun
<1> SUFFICES ASSUME Duplicate = {}  PROVE StillOpen(d)'
  BY DEF StillOpen
<1>1. ASSUME \A t \in Target : t[1] = d => row'[t].status = row[t].status, deployment'[d] = deployment[d]
      PROVE  StillOpen(d)'
  <2>1. TargetsOf(d, row') = TargetsOf(d, row)
    BY <1>1 DEF TargetsOf
  <2>2. \A t \in TargetsOf(d, row) : row'[t].status = row[t].status
    BY <1>1 DEF TargetsOf
  <2>. QED  BY <1>1, <2>1, <2>2 DEF StillOpen, Over
<1>2. CASE ~Writes
  BY <1>1, <1>2, OnlyTheseWrite DEF tableVars
<1>3. ASSUME NEW e \in Deployment, NEW M \in SUBSET Machine, NEW opened, CreateDeployment(e, M, opened)
      PROVE  StillOpen(d)'
  <2>1. d # e
    BY <1>3 DEF CreateDeployment, Begun
  <2>2. \A t \in Target : t[1] = d => row'[t] = row[t]
    BY <1>3, <2>1, Targets DEF CreateDeployment
  <2>. QED  BY <1>0, <1>1, <1>3, <2>1, <2>2 DEF CreateDeployment
<1>4. ASSUME NEW e \in Deployment, CancelCommit(e)  PROVE StillOpen(d)'
  <2>1. CASE d = e
    BY <1>0, <1>4, <2>1 DEF CancelCommit, StillOpen
  <2>2. CASE d # e
    BY <1>0, <1>1, <1>4, <2>2 DEF CancelCommit
  <2>. QED  BY <2>1, <2>2
<1>5. ASSUME NEW e \in Deployment, RetryFailures(e)  PROVE StillOpen(d)'
  <2>1. CASE d = e
    <3>1. PICK t \in TargetsOf(d, row) : row[t].status \in {"failed", "expired", "cancelled"}
      BY <1>5, <2>1 DEF RetryFailures
    <3>2. t \in Target /\ t[1] = d /\ row'[t].status = "pending"
      BY <1>0, <1>5, <2>1, <3>1 DEF RetryFailures, TargetsOf, Row
    <3>. QED  BY <3>2 DEF StillOpen, Over, TargetsOf, Terminal
  <2>2. CASE d # e
    <3>1. \A t \in Target : t[1] = d => row'[t] = row[t]
      BY <1>5, <2>2 DEF RetryFailures, TargetsOf
    <3>. QED  BY <1>0, <1>1, <1>5, <2>2, <3>1 DEF RetryFailures
  <2>. QED  BY <2>1, <2>2
<1>6. ASSUME NEW m \in Machine, ForgetMachine(m)  PROVE StillOpen(d)'
  <2>1. <<d, m>> \in Target /\ \A t \in Target : t[1] = d /\ t[2] = m => t = <<d, m>>
    BY Targets
  <2>2. CASE HasTargetRow(<<d, m>>)
    <3>1. deployment'[d] = RollUp(d, row')
      BY <1>0, <1>6, <2>2 DEF ForgetMachine, Refreshed
    <3>2. RollUp(d, row') # "none"
      BY <1>0, RollUpTyped DEF Begun
    <3>. QED  BY <3>1, <3>2, RollUpSays DEF StillOpen, Over
  <2>3. CASE ~HasTargetRow(<<d, m>>)
    <3>1. \A t \in Target : t[1] = d => row'[t].status = row[t].status
      BY <1>0, <1>6, <2>1, <2>3 DEF ForgetMachine, HasTargetRow, NoTargetRow
    <3>2. deployment'[d] = deployment[d]
      BY <1>0, <1>6, <2>3 DEF ForgetMachine, Refreshed
    <3>. QED  BY <1>1, <3>1, <3>2
  <2>. QED  BY <2>2, <2>3
<1>7. ASSUME NEW m \in Machine, NEW n \in Machine, RenameMachine(m, n)  PROVE StillOpen(d)'
  BY <1>7 DEF RenameMachine, OpsAreAllowed
<1>8. ASSUME NEW t \in sched.ready, ClaimTarget(t)  PROVE StillOpen(d)'
  <2>0. t \in Target
    BY <1>0 DEF PassRecord
  <2>1. CASE t[1] = d
    <3>1. row'[t].status = "in_flight"
      BY <1>0, <1>8, <2>0 DEF ClaimTarget
    <3>. QED  BY <2>0, <2>1, <3>1 DEF StillOpen, Over, TargetsOf, Terminal
  <2>2. CASE t[1] # d
    BY <1>0, <1>1, <1>8, <2>2 DEF ClaimTarget
  <2>. QED  BY <2>1, <2>2
<1>9. CASE RecordCommand
  <2>1. \A t \in Target : row'[t].status = row[t].status
    BY <1>0, <1>9 DEF RecordCommand, Row
  <2>. QED  BY <1>1, <1>9, <2>1 DEF RecordCommand
<1>. QED
  BY <1>2, <1>3, <1>4, <1>5, <1>6, <1>7, <1>8, <1>9 DEF Writes

\* No stale roll-up says complete.
LEMMA RollUpStaysOpen ==
  ASSUME Typed, Apart, OpsAreAllowed, AllKnown, RollUpIsOpen, [FaultyNext]_deployVars
  PROVE  RollUpIsOpen'
<1>0. /\ row \in [Target -> Row] /\ deployment \in [Deployment -> DeploymentStatus \cup {"none"}]
      /\ sched \in PassRecord /\ RowsBegun /\ PassTypeOK
  BY DEF Typed, DeployTypeOK, PassTypeOK, AllKnown, RowsBegun
<1>1. /\ sched.touched \subseteq Deployment /\ \A d \in sched.touched : Begun(d) /\ StillOpen(d)
      /\ sched.pc \in InHand => /\ sched.target[1] \in Deployment /\ Begun(sched.target[1])
                                /\ StillOpen(sched.target[1])
  BY <1>0, Targets DEF PassRecord, PassTypeOK, AllKnown, Known, RollUpIsOpen
\* Whoever was watched is watched.
<1>2. ASSUME ~(Settle \/ Retire \/ RefreshWrite), sched'.touched \subseteq sched.touched,
             sched'.pc \in InHand => sched.pc \in InHand /\ sched'.target = sched.target,
             sched'.pc # "write"
      PROVE  RollUpIsOpen'
  <2>1. \A d \in sched'.touched : StillOpen(d)'
    BY <1>1, <1>2, StaysOpen
  <2>2. sched'.pc \in InHand => StillOpen(sched.target[1])'
    BY <1>1, <1>2, StaysOpen
  <2>. QED  BY <1>2, <2>1, <2>2 DEF RollUpIsOpen
<1>3. ASSUME sched'.touched = {}, sched'.pc \notin InHand, sched'.pc # "write"  PROVE RollUpIsOpen'
  BY <1>3 DEF RollUpIsOpen
<1>4. CASE AgentStep \/ WorldStep \/ OperatorStep \/ MergeStep \/ UNCHANGED deployVars
  <2>1. UNCHANGED sched
    BY <1>4, OthersLeaveThePass
  <2>2. ~(Settle \/ Retire \/ RefreshWrite)
    <3>1. Settle => sched.pc = "judge" /\ sched'.pc = "pending"
      BY <1>0 DEF Settle, ApplyVerdicts, Is, PassRecord
    <3>2. Retire => sched.pc = "retire" /\ sched'.pc = "claim"
      BY <1>0 DEF Retire, ApplyVerdicts, Is, PassRecord
    <3>3. RefreshWrite => sched.pc = "write" /\ sched'.pc = "idle"
      BY DEF RefreshWrite, Is, Asleep
    <3>. QED  BY <2>1, <3>1, <3>2, <3>3
  <2>3. CASE sched.pc # "write"
    BY <1>2, <2>1, <2>2, <2>3
  <2>4. CASE sched.pc = "write"
    <3>1. \A d \in sched'.touched : StillOpen(d)'
      BY <1>1, <2>1, <2>2, StaysOpen
    <3>2. ASSUME sched.to = "complete"  PROVE Duplicate # {} /\ Over(sched.target[1])'
      <4> DEFINE d == sched.target[1]
      <4>1. d \in Deployment /\ Begun(d) /\ Over(d) /\ Duplicate # {}
        BY <2>4, <3>2 DEF RollUpIsOpen, AllKnown, PassTypeOK, Typed
      <4>2. \A t \in Target : t[1] = d => ~Rearms(t) /\ ~Judges(t)
        BY <2>2, <4>1 DEF Apart, Rearms, Judges
      <4>3. \A e \in Deployment :
              Begun(e) /\ Over(e) /\ (\A t \in Target : t[1] = e => ~Rearms(t) /\ ~Judges(t)) => Over(e)'
        BY <1>0, OverStays
      <4>4. d' = d
        BY <2>1
      <4>5. \A e \in Deployment : e = d => Over(e)'
        BY <4>1, <4>2, <4>3
      <4>6. \A e \in Deployment : e = d' /\ Over(e)' => Over(d)'
        BY DEF Over, TargetsOf
      <4>. QED  BY <4>1, <4>4, <4>5, <4>6
    <3>. QED  BY <2>1, <2>4, <3>1, <3>2 DEF RollUpIsOpen, InHand
  <2>. QED  BY <2>3, <2>4
<1>5. CASE Tick \/ QueueRefused \/ RefreshWrite \/ PassOver \/ PassDies
  <2>1. sched'.touched = {} /\ sched'.pc \notin InHand /\ sched'.pc # "write"
    BY <1>5 DEF Tick, QueueRefused, RefreshWrite, PassOver, PassDies, Asleep, InHand
  <2>. QED  BY <1>3, <2>1
<1>6. CASE ReadInFlight \/ (\E s \in sched.seen : Judge(s)) \/ Settle \/ ReadPending \/ Retire
  <2>1. sched.touched = {}
    BY <1>0, <1>6 DEF ReadInFlight, Judge, Settle, ReadPending, Retire, Is, PassTypeOK, InHand
  <2>2. sched'.touched = sched.touched /\ sched'.pc \in {"judge", "pending", "retire", "claim"}
    <3>1. CASE ReadInFlight \/ \E s \in sched.seen : Judge(s)
      BY <1>0, <3>1 DEF ReadInFlight, Judge, PassRecord, Is
    <3>2. CASE Settle \/ Retire
      BY <1>0, <3>2 DEF Settle, Retire, ApplyVerdicts, PassRecord
    <3>3. CASE ReadPending
      BY <1>0, <3>3 DEF ReadPending, PassRecord
    <3>. QED  BY <1>6, <3>1, <3>2, <3>3
  <2>. QED  BY <1>3, <2>1, <2>2 DEF InHand
<1>7. ASSUME NEW t \in sched.ready, SkipTarget(t)  PROVE RollUpIsOpen'
  <2>1. /\ sched'.touched = sched.touched /\ sched'.pc = "claim" /\ sched.pc = "claim"
    BY <1>0, <1>7 DEF SkipTarget, PassRecord, Is
  <2>. QED  BY <1>2, <2>1 DEF InHand, Settle, Retire, RefreshWrite, Is
<1>8. ASSUME NEW t \in sched.ready, ClaimTarget(t)  PROVE RollUpIsOpen'
  <2>1. /\ sched'.touched = sched.touched /\ sched'.pc = "queue" /\ sched.pc = "claim" /\ sched'.target = t
        /\ t \in Target
    BY <1>0, <1>8 DEF ClaimTarget, PassRecord, Is
  <2>2. \A d \in sched'.touched : StillOpen(d)'
    BY <1>1, <2>1, StaysOpen DEF Settle, Retire, RefreshWrite, Is
  <2>3. row'[t].status = "in_flight"
    BY <1>0, <1>8, <2>1 DEF ClaimTarget
  <2>4. ~Over(t[1])'
    BY <2>1, <2>3 DEF Over, TargetsOf, Terminal
  <2>. QED  BY <2>1, <2>2, <2>4 DEF RollUpIsOpen, StillOpen
<1>9. CASE QueueCommand \/ Dispatched
  <2>1. /\ sched'.touched = sched.touched /\ sched'.target = sched.target
        /\ sched.pc \in InHand \/ sched'.pc \notin InHand
        /\ sched'.pc # "write" /\ sched.pc \in {"queue", "claim"}
    BY <1>0, <1>9 DEF QueueCommand, Dispatched, PassRecord, Is, InHand
  <2>. QED  BY <1>2, <2>1 DEF Settle, Retire, RefreshWrite, Is
<1>10. CASE RecordCommand
  <2>1. /\ sched'.touched = sched.touched \cup {sched.target[1]} /\ sched'.pc = "claim"
        /\ sched.pc = "record"
    BY <1>0, <1>10 DEF RecordCommand, PassRecord, Is
  <2>2. \A d \in sched'.touched : StillOpen(d)'
    BY <1>1, <2>1, StaysOpen DEF InHand, Settle, Retire, RefreshWrite, Is
  <2>. QED  BY <2>1, <2>2 DEF RollUpIsOpen, InHand
<1>11. ASSUME NEW d \in sched.touched, RefreshRead(d)  PROVE RollUpIsOpen'
  <2>1. /\ sched.pc = "refresh" /\ UNCHANGED <<row, deployment>> /\ sched'.touched \subseteq sched.touched
        /\ sched'.pc \in {"refresh", "write"}
        /\ sched'.pc = "write" => /\ sched'.target[1] = d /\ sched'.to = RollUp(d, row)
                                  /\ RollUp(d, row) # deployment[d]
    BY <1>0, <1>11 DEF RefreshRead, PassRecord, Is, tableVars
  <2>2. \A e \in sched'.touched : StillOpen(e)'
    BY <1>1, <2>1, StaysOpen DEF Settle, Retire, RefreshWrite, Is
  <2>3. ASSUME sched'.pc = "write", sched'.to = "complete"  PROVE Duplicate # {} /\ Over(d)'
    <3>1. RollUp(d, row) = "complete" /\ deployment[d] # "complete"
      BY <2>1, <2>3
    <3>2. Over(d) /\ TargetsOf(d, row) # {} /\ deployment[d] # "cancelled"
      BY <3>1, RollUpSays DEF Over
    <3>3. Duplicate # {}
      BY <1>1, <3>1, <3>2 DEF StillOpen
    <3>. QED  BY <2>1, <3>2, <3>3 DEF Over, TargetsOf
  <2>. QED  BY <2>1, <2>2, <2>3 DEF RollUpIsOpen, InHand
<1>. QED
  BY <1>4, <1>5, <1>6, <1>7, <1>8, <1>9, <1>10, <1>11 DEF FaultyNext, Next, Reconcile, Dispatch

-------------------------------------------------------------------------------
(* The first two theorems.                                                 *)

\* The first state.
LEMMA DeployInitInv == Init => FirstInv
<1> SUFFICES ASSUME Init  PROVE FirstInv
  OBVIOUS
<1>1. /\ sched.pc = "idle" /\ sched.seen = {} /\ sched.verdicts = {} /\ sched.ready = {}
      /\ sched.touched = {}
  BY DEF Init, Asleep
<1>2. \A t \in Target : ~HasTargetRow(t) /\ row[t].status = "none"
  BY DEF Init, HasTargetRow, NoTargetRow
<1>3. OpsAreAllowed
  BY DEF Init, OpsAreAllowed
<1>4. AllKnown /\ VerdictsAreDue /\ ReadEnough /\ RollUpIsOpen
  BY <1>1, <1>2 DEF AllKnown, VerdictsAreDue, ReadEnough, RollUpIsOpen, InHand, Init
<1>5. CompleteIsOver
  BY DEF Init, CompleteIsOver
<1>6. ASSUME NEW t \in Target
      PROVE  /\ IsFiniteSet(Issued(t))
             /\ Cardinality(Issued(t)) + Upcoming(t) <= MaxAttempts * retries[t[1]] + Credit(t)
  <2>1. Issued(t) = {}
    BY <1>6, Targets DEF Init, Issued
  <2>2. IsFiniteSet(Issued(t)) /\ Cardinality(Issued(t)) = 0 /\ Upcoming(t) = 0
    BY <1>1, <2>1, FS_EmptySet DEF Upcoming
  <2>3. retries[t[1]] = 0 /\ MaxAttempts * 0 = 0 /\ Credit(t) = MaxAttempts /\ MaxAttempts \in Nat
    BY <1>2, Targets DEF Init, Credit
  <2>. QED  BY <2>2, <2>3
<1>7. Paid
  BY <1>6 DEF Paid
<1>. QED  BY <1>3, <1>4, <1>5, <1>7, DeployInitTyped DEF FirstInv

\* Every step.
LEMMA DeployStepInv == Apart /\ FirstInv /\ [FaultyNext]_deployVars => FirstInv'
<1> SUFFICES ASSUME Apart, FirstInv, [FaultyNext]_deployVars  PROVE FirstInv'
  OBVIOUS
<1>1. Typed'
  BY DeployStepTyped DEF FirstInv
<1>. QED
  BY <1>1, OpsStayAllowed, AllStayKnown, VerdictsStayDue, ReadingStaysEnough, StaysPaidFor,
     CompleteStaysOver, RollUpStaysOpen DEF FirstInv

\* No target gets more commands than its budget, and no deployment is complete
\* while it has work left, passes that die included (_claim_target,
\* _refresh_deployment_status).
THEOREM DeploymentSafety ==
  ASSUME Apart
  PROVE  FaultySpec => []DeployInv
<1>1. FirstInv /\ [FaultyNext]_deployVars => FirstInv'
  BY DeployStepInv
<1>2. FirstInv => DeployInv
  BY PaidKeepsTheBudget DEF FirstInv, DeployInv, Typed
<1>. QED  BY <1>1, <1>2, DeployInitInv, PTL DEF FaultySpec

\* Only an operator's retry takes a settled target back, whatever the row says
\* by the time a verdict is written (_retire).
THEOREM SettledIsReopenedByARetry ==
  ASSUME Apart
  PROVE  FaultySpec => OnlyARetryReopens
<1>1. FirstInv /\ [FaultyNext]_deployVars => FirstInv'
  BY DeployStepInv
<1>2. FirstInv /\ [FaultyNext]_deployVars =>
        [\A t \in Target : row[t].status \in Terminal /\ row'[t].status \notin Terminal \cup {"none"}
           => retries' # retries]_deployVars
  BY OnlyARetry DEF FirstInv
<1>. QED  BY <1>1, <1>2, DeployInitInv, PTL DEF FaultySpec, OnlyARetryReopens

-------------------------------------------------------------------------------
(* Passes that live: the second invariant.                                 *)

\* A row in flight is left to the pass that claimed it, or goes.
LEMMA InFlightStays ==
  ASSUME Typed, Apart, OpsAreAllowed, AllKnown, [FaultyNext]_deployVars,
         NEW t \in Target, Known(t), InFlightOrGone(t), ~(Settle \/ Retire \/ RecordCommand)
  PROVE  ~HasTargetRow(t)' \/ (HasTargetRow(t) /\ row'[t] = row[t])
<1>0. /\ row \in [Target -> Row] /\ RowsBegun
  BY DEF Typed, DeployTypeOK, AllKnown, RowsBegun
<1>1. CASE ~HasTargetRow(t)
  BY <1>1, KnownStays
<1>2. CASE HasTargetRow(t)
  <2>1. row[t].status = "in_flight"
    BY <1>2 DEF HasTargetRow, InFlightOrGone
  <2>2. \/ row'[t] = row[t] \/ ~HasTargetRow(t)'
        \/ Cancels(t) \/ Rearms(t) \/ Judges(t) \/ Claims(t) \/ Records(t)
    BY <1>0, <1>2, RowKinds
  <2>3. ~Cancels(t) /\ ~Rearms(t) /\ ~Judges(t) /\ ~Claims(t) /\ ~Records(t)
    BY <2>1 DEF Cancels, Rearms, Judges, Claims, Records
  <2>. QED  BY <1>2, <2>2, <2>3
<1>. QED  BY <1>1, <1>2

\* A command is live from when it is queued, for the target in hand.
LEMMA LiveIsQueued ==
  ASSUME Typed, [Next]_deployVars, NEW c \in Command, Live(c)', ~QueueCommand
  PROVE  Live(c) /\ madeFor'[c] = madeFor[c]
<1>0. status \in [Command -> CommandStatus \cup NoRow]
  BY DEF Typed, DeployTypeOK, QueueTypeOK
<1>1. CASE UNCHANGED <<status, madeFor>>
  BY <1>1 DEF Live
<1>2. CASE Reconcile
  <2>1. CASE Tick
    BY <1>0, <2>1 DEF Tick, ExpireStale, Live
  <2>2. CASE ReadInFlight \/ (\E s \in sched.seen : Judge(s)) \/ Settle
    BY <1>1, <2>2 DEF ReadInFlight, Judge, Settle, ApplyVerdicts, queueVars
  <2>. QED  BY <1>2, <2>1, <2>2 DEF Reconcile
<1>3. CASE Dispatch
  BY <1>1, <1>3 DEF Dispatch, ReadPending, Retire, ApplyVerdicts, ClaimTarget, SkipTarget, QueueRefused,
                    RecordCommand, Dispatched, RefreshRead, RefreshWrite, PassOver, queueVars
<1>4. CASE OperatorStep
  <2>1. ASSUME NEW m \in Machine, DeleteMachine(m)  PROVE Live(c) /\ madeFor'[c] = madeFor[c]
    BY <1>0, <2>1 DEF DeleteMachine, DeleteRows, Live
  <2>. QED  BY <1>1, <1>4, <2>1 DEF OperatorStep, CreateDeployment, CancelCheck, CancelCommit, RetryFailures,
                                    DeletePackage, ForgetMachine, queueVars
<1>5. CASE AgentStep
  <2>1. ASSUME NEW a \in Agent, NEW m \in Machine, AgentClaims(a, m)
        PROVE  Live(c) /\ madeFor'[c] = madeFor[c]
    BY <1>0, <2>1 DEF AgentClaims, Claim, Claimable, PendingOf, Live
  <2>2. ASSUME NEW a \in Agent, NEW e \in Command, NEW ok \in BOOLEAN, AgentReports(a, e, ok)
        PROVE  Live(c) /\ madeFor'[c] = madeFor[c]
    BY <1>0, <2>2 DEF AgentReports, RecordResult, Live
  <2>. QED  BY <1>5, <2>1, <2>2 DEF AgentStep
<1>6. CASE WorldStep
  BY <1>1, <1>6 DEF WorldStep, Clock, CloseWindow, LapseCommand, Lapse, ReportsInability, queueVars
<1>7. CASE UNCHANGED deployVars
  BY <1>1, <1>7 DEF deployVars, queueVars
<1>. QED  BY <1>2, <1>3, <1>4, <1>5, <1>6, <1>7 DEF Next

\* A target with a live command is in flight under it, or about to be.
LiveOnRow(c) == row[madeFor[c]].status = "in_flight" /\ row[madeFor[c]].command = c
LiveInHand(c) ==
    /\ row[madeFor[c]].status = "in_flight" /\ row[madeFor[c]].command = NoCommand
    /\ Is("record") /\ sched.target = madeFor[c] /\ sched.command = c

LEMMA LiveStaysTracked ==
  ASSUME Typed, Apart, OpsAreAllowed, AllKnown, VerdictsAreDue, TrackInv, [Next]_deployVars
  PROVE  LiveIsTracked'
<1> SUFFICES ASSUME NEW c \in Command, Live(c)', madeFor'[c] # NoTarget
             PROVE  ~HasTargetRow(madeFor[c])' \/ LiveOnRow(c)' \/ LiveInHand(c)'
  BY DEF LiveIsTracked, LiveOnRow, LiveInHand
<1>0. /\ row \in [Target -> Row] /\ sched \in PassRecord /\ PassTypeOK /\ RowsBegun
      /\ madeFor \in [Command -> Target \cup {NoTarget}] /\ [FaultyNext]_deployVars
  BY DEF Typed, DeployTypeOK, PassTypeOK, AllKnown, RowsBegun, FaultyNext
<1>1. CASE QueueCommand /\ c = Fresh
  <2>1. /\ sched.pc = "queue" /\ sched.target \in Target /\ madeFor'[c] = sched.target
        /\ sched'.pc = "record" /\ sched'.target = sched.target /\ sched'.command = c /\ row' = row
    BY <1>0, <1>1 DEF QueueCommand, PassTypeOK, PassRecord, InHand, Is, tableVars
  <2>2. HasTargetRow(sched.target) => /\ row[sched.target].status = "in_flight"
                                      /\ row[sched.target].command = NoCommand
    BY <2>1 DEF TrackInv, PassIsTracked, InHand, InFlightWith
  <2>. QED  BY <2>1, <2>2 DEF HasTargetRow, LiveInHand, Is
<1>2. CASE ~(QueueCommand /\ c = Fresh)
  <2>1. Live(c) /\ madeFor'[c] = madeFor[c]
    <3>1. CASE QueueCommand
      BY <1>0, <1>2, <3>1 DEF QueueCommand, Create, Live, Typed, DeployTypeOK, QueueTypeOK
    <3>. QED  BY <3>1, LiveIsQueued
  <2>2. PICK t \in Target : t = madeFor[c] /\ t = madeFor'[c] /\ Known(t) /\ c # NoCommand
    BY <1>0, <2>1 DEF AllKnown
  <2>3. ~HasTargetRow(t) \/ LiveOnRow(c) \/ LiveInHand(c)
    BY <2>1, <2>2 DEF TrackInv, LiveIsTracked, LiveOnRow, LiveInHand
  <2>4. InFlightOrGone(t)
    BY <2>2, <2>3 DEF InFlightOrGone, HasTargetRow, LiveOnRow, LiveInHand
  <2>5. CASE ~HasTargetRow(t)
    BY <1>0, <2>2, <2>5, KnownStays DEF HasTargetRow
  <2>6. CASE RecordCommand /\ HasTargetRow(t)
    <3>1. sched.pc = "record" /\ sched.target \in Target /\ sched.target \in DOMAIN row
      BY <1>0, <2>6 DEF RecordCommand, PassTypeOK, InHand, Is
    <3>2. CASE t = sched.target
      <4>1. row[t].command = NoCommand
        BY <2>2, <2>6, <3>1, <3>2 DEF TrackInv, PassIsTracked, InHand, InFlightWith
      <4>2. LiveInHand(c)
        BY <2>2, <2>3, <2>6, <4>1 DEF LiveOnRow
      <4>3. row'[t] = [row[t] EXCEPT !.command = c]
        BY <1>0, <2>2, <2>6, <3>2, <4>2 DEF RecordCommand, LiveInHand
      <4>. QED  BY <1>0, <2>1, <2>2, <4>2, <4>3 DEF LiveOnRow, LiveInHand, Row
    <3>3. CASE t # sched.target
      <4>1. row'[t] = row[t] /\ ~LiveInHand(c)
        BY <1>0, <2>2, <2>6, <3>3 DEF RecordCommand, LiveInHand
      <4>. QED  BY <2>2, <2>3, <2>6, <4>1 DEF LiveOnRow
    <3>. QED  BY <3>2, <3>3
  <2>7. CASE (Settle \/ Retire) /\ HasTargetRow(t)
    <3>1. LiveOnRow(c) /\ sched.pc \in {"judge", "retire"}
      BY <2>2, <2>3, <2>7 DEF LiveInHand, Settle, Retire, Is
    <3>2. ~Judges(t)
      <4> SUFFICES ASSUME NEW v \in sched.verdicts, v.target = t  PROVE FALSE
        BY DEF Judges, Judged
      <4>1. CASE sched.pc = "judge"
        <5>1. row[t].command \in {e \in Command \cup {NoCommand} : Ended(e)}
          BY <2>7, <4>1 DEF TrackInv, PassIsTracked, InFlightWith
        <5>. QED  BY <2>1, <2>2, <3>1, <5>1 DEF LiveOnRow, Ended
      <4>2. CASE sched.pc = "retire"
        BY <2>2, <3>1, <4>2 DEF TrackInv, PassIsTracked, LiveOnRow
      <4>. QED  BY <3>1, <4>1, <4>2
    <3>3. \/ UNCHANGED row[t] \/ ~HasTargetRow(t)'
          \/ Cancels(t) \/ Rearms(t) \/ Judges(t) \/ Claims(t) \/ Records(t)
      BY <1>0, <2>2, <2>7, RowKinds
    <3>4. row'[t] = row[t] \/ ~HasTargetRow(t)'
      BY <2>2, <3>1, <3>2, <3>3 DEF LiveOnRow, Cancels, Rearms, Claims, Records
    <3>. QED  BY <2>2, <3>1, <3>4 DEF LiveOnRow, HasTargetRow
  <2>8. CASE HasTargetRow(t) /\ ~(Settle \/ Retire \/ RecordCommand)
    <3>1. ~HasTargetRow(t)' \/ row'[t] = row[t]
      BY <1>0, <2>2, <2>4, <2>8, InFlightStays
    <3>2. LiveOnRow(c) /\ row'[t] = row[t] => LiveOnRow(c)'
      BY <2>2 DEF LiveOnRow
    <3>3. LiveInHand(c) => UNCHANGED sched
      <4>1. LiveInHand(c) => sched.pc = "record"
        BY DEF LiveInHand, Is
      <4>2. sched.pc = "record" => ~Reconcile /\ ~Dispatch
        BY <1>0, <2>8 DEF Reconcile, Dispatch, Tick, ReadInFlight, Judge, ReadPending, ClaimTarget, SkipTarget,
                     QueueCommand, QueueRefused, Dispatched, RefreshRead, RefreshWrite, PassOver, Is
      <4>. QED  BY <4>1, <4>2, OthersLeaveThePass DEF Next
    <3>4. LiveInHand(c) /\ row'[t] = row[t] => LiveInHand(c)'
      BY <2>2, <3>3 DEF LiveInHand, Is
    <3>. QED  BY <2>2, <2>3, <2>8, <3>1, <3>2, <3>4 DEF HasTargetRow
  <2>. QED  BY <2>5, <2>6, <2>7, <2>8
<1>. QED  BY <1>1, <1>2

\* A row whose command is known to the pass stays in flight under it, or goes.
LEMMA HeldStays ==
  ASSUME Typed, Apart, OpsAreAllowed, AllKnown, [FaultyNext]_deployVars, ~(Settle \/ Retire \/ RecordCommand),
         NEW t \in Target, Known(t)
  PROVE  /\ \A e \in Command \cup {NoCommand} : InFlightWith(t, {e}) => InFlightWith(t, {e})'
         /\ InFlightWith(t, {e \in Command \cup {NoCommand} : Ended(e)}) =>
              ~HasTargetRow(t)' \/ /\ row'[t].status = "in_flight" /\ Ended(row[t].command)
                                   /\ row'[t].command = row[t].command
<1>1. InFlightOrGone(t) => ~HasTargetRow(t)' \/ row'[t] = row[t]
  BY InFlightStays
<1>2. \A S : InFlightWith(t, S) => InFlightOrGone(t)
  BY DEF InFlightWith, InFlightOrGone, HasTargetRow
<1>. QED  BY <1>1, <1>2 DEF InFlightWith, HasTargetRow

\* While a pass judges, nothing it found ended comes to life.
LEMMA EndedStays ==
  ASSUME Typed, [Next]_deployVars, NEW e \in Command \cup {NoCommand}, Ended(e), ~QueueCommand
  PROVE  Ended(e)'
BY LiveIsQueued DEF Ended

\* What a pass has read stays true until it writes it down.
LEMMA PassStaysTracked ==
  ASSUME Typed, Apart, OpsAreAllowed, AllKnown, VerdictsAreDue, TrackInv, [Next]_deployVars
  PROVE  PassIsTracked'
<1>0. /\ row \in [Target -> Row] /\ sched \in PassRecord /\ PassTypeOK /\ RowsBegun
      /\ [FaultyNext]_deployVars
  BY DEF Typed, DeployTypeOK, PassTypeOK, AllKnown, RowsBegun, FaultyNext
<1>1. /\ \A s \in sched.seen : /\ s.target \in Target /\ Known(s.target)
                               /\ s.command \in Command \cup {NoCommand}
                               /\ InFlightWith(s.target, {s.command})
      /\ \A v \in sched.verdicts : v.target \in Target /\ Known(v.target)
      /\ \A t \in sched.ready : t \in Target /\ Known(t)
      /\ sched.pc \in InHand => sched.target \in Target /\ Known(sched.target)
                                /\ InFlightWith(sched.target, {NoCommand})
  BY <1>0 DEF AllKnown, TrackInv, PassIsTracked, PassTypeOK, PassRecord, Seen, Verdict
\* The pass stands still.
<1>2. ASSUME UNCHANGED sched  PROVE PassIsTracked'
  <2>1. ~(Settle \/ Retire \/ RecordCommand \/ QueueCommand)
    <3>1. Settle => sched.pc = "judge" /\ sched'.pc = "pending"
      BY <1>0 DEF Settle, ApplyVerdicts, Is, PassRecord
    <3>2. Retire => sched.pc = "retire" /\ sched'.pc = "claim"
      BY <1>0 DEF Retire, ApplyVerdicts, Is, PassRecord
    <3>3. RecordCommand => sched.pc = "record" /\ sched'.pc = "claim"
      BY <1>0 DEF RecordCommand, Is, PassRecord
    <3>4. QueueCommand => sched.pc = "queue" /\ sched'.pc = "record"
      BY <1>0 DEF QueueCommand, Is, PassRecord
    <3>. QED  BY <1>2, <3>1, <3>2, <3>3, <3>4
  <2>2. \A s \in sched'.seen : InFlightWith(s.target, {s.command})'
    BY <1>0, <1>1, <1>2, <2>1, HeldStays
  <2>3. ASSUME sched'.pc = "judge", NEW v \in sched'.verdicts
        PROVE  InFlightWith(v.target, {e \in Command \cup {NoCommand} : Ended(e)})'
    <3>1. /\ v.target \in Target /\ Known(v.target)
          /\ InFlightWith(v.target, {e \in Command \cup {NoCommand} : Ended(e)})
      BY <1>1, <1>2, <2>3 DEF TrackInv, PassIsTracked
    <3>2. \/ ~HasTargetRow(v.target)'
          \/ /\ row'[v.target].status = "in_flight" /\ Ended(row[v.target].command)
             /\ row'[v.target].command = row[v.target].command
      BY <1>0, <2>1, <3>1, HeldStays
    <3>3. \A e \in Command \cup {NoCommand} : Ended(e) => Ended(e)'
      BY <2>1, EndedStays
    <3>4. row[v.target].command \in Command \cup {NoCommand}
      BY <1>0, <3>1, DeployRowUpdates
    <3>. QED  BY <3>2, <3>3, <3>4 DEF InFlightWith
  <2>4. ASSUME sched'.pc = "retire", NEW v \in sched'.verdicts  PROVE row'[v.target].status # "in_flight"
    <3> DEFINE u == v.target
    <3>1. u \in Target /\ Known(u) /\ row[u].status # "in_flight" /\ sched.pc = "retire"
      BY <1>1, <1>2, <2>4 DEF TrackInv, PassIsTracked
    <3> HIDE DEF u
    <3>2. CASE ~HasTargetRow(u)
      BY <1>0, <3>1, <3>2, KnownStays DEF HasTargetRow, u
    <3>3. CASE HasTargetRow(u)
      <4>1. \/ UNCHANGED row[u] \/ ~HasTargetRow(u)'
            \/ Cancels(u) \/ Rearms(u) \/ Judges(u) \/ Claims(u) \/ Records(u)
        BY <1>0, <3>1, <3>3, RowKinds
      <4>2. row[u] \in Row
        BY <1>0, <3>1
      <4>. QED
        BY <2>1, <3>1, <4>1, <4>2 DEF Cancels, Rearms, Judges, Claims, Records, HasTargetRow, Row, u
    <3>. QED  BY <3>2, <3>3
  <2>5. sched'.pc \in InHand => InFlightWith(sched.target, {NoCommand})'
    BY <1>0, <1>1, <1>2, <2>1, HeldStays
  <2>. QED  BY <2>2, <2>3, <2>4, <2>5 DEF PassIsTracked
\* The pass moves to where it holds nothing.
<1>3. ASSUME sched'.seen = {}, sched'.verdicts = {}, sched'.pc \notin InHand  PROVE PassIsTracked'
  BY <1>3 DEF PassIsTracked
<1>4. CASE Tick \/ QueueRefused \/ RefreshWrite \/ PassOver
  <2>1. sched'.seen = {} /\ sched'.verdicts = {} /\ sched'.pc \notin InHand
    BY <1>4 DEF Tick, QueueRefused, RefreshWrite, PassOver, Asleep, InHand
  <2>. QED  BY <1>3, <2>1
<1>5. CASE ReadInFlight
  <2>1. /\ sched'.verdicts = {} /\ sched'.pc = "judge" /\ row' = row
        /\ \A s \in sched'.seen : row[s.target].status = "in_flight" /\ s.command = row[s.target].command
    BY <1>0, <1>5 DEF ReadInFlight, PassTypeOK, PassRecord, Snapshot, Is, tableVars
  <2>. QED  BY <2>1 DEF PassIsTracked, InFlightWith, InHand
<1>6. ASSUME NEW s \in sched.seen, Judge(s)  PROVE PassIsTracked'
  <2>1. /\ sched'.seen \subseteq sched.seen /\ row' = row /\ status' = status
        /\ sched.pc = "judge" /\ sched'.pc = "judge"
        /\ \A v \in sched'.verdicts : v \in sched.verdicts \/ (v.target = s.target /\ ~Unfinished(s.command))
    BY <1>0, <1>6 DEF Judge, PassRecord, tableVars, queueVars, Is
  <2>2. ASSUME ~Unfinished(s.command)
        PROVE  InFlightWith(s.target, {e \in Command \cup {NoCommand} : Ended(e)})
    BY <1>1, <2>2 DEF InFlightWith, Ended, Unfinished, Live
  <2>3. \A v \in sched'.verdicts : InFlightWith(v.target, {e \in Command \cup {NoCommand} : Ended(e)})
    BY <2>1, <2>2 DEF TrackInv, PassIsTracked
  <2>4. \A v \in sched'.verdicts : InFlightWith(v.target, {e \in Command \cup {NoCommand} : Ended(e)})'
    BY <2>1, <2>3 DEF InFlightWith, HasTargetRow, Ended, Live
  <2>5. \A r \in sched'.seen : InFlightWith(r.target, {r.command})'
    BY <1>1, <2>1 DEF InFlightWith, HasTargetRow
  <2>. QED  BY <2>1, <2>4, <2>5 DEF PassIsTracked, InHand
<1>7. CASE Settle \/ Retire
  <2>1. sched'.seen = {} /\ sched'.verdicts = {} /\ sched'.pc \notin InHand
    BY <1>0, <1>7 DEF Settle, Retire, ApplyVerdicts, PassTypeOK, PassRecord, Is, InHand
  <2>. QED  BY <1>3, <2>1
<1>8. CASE ReadPending
  <2>1. /\ sched'.seen = {} /\ sched'.pc = "retire" /\ row' = row
        /\ \A v \in sched'.verdicts : row[v.target].status = "pending"
    BY <1>0, <1>8 DEF ReadPending, PassTypeOK, PassRecord, Is, tableVars
  <2>. QED  BY <2>1 DEF PassIsTracked, InHand
<1>9. ASSUME NEW t \in sched.ready, ClaimTarget(t)  PROVE PassIsTracked'
  <2>1. /\ sched'.seen = {} /\ sched'.verdicts = {} /\ sched'.pc = "queue" /\ sched'.target = t
        /\ row'[t].status = "in_flight" /\ row'[t].command = NoCommand
    BY <1>0, <1>1, <1>9 DEF ClaimTarget, PassTypeOK, PassRecord, Is
  <2>. QED  BY <2>1 DEF PassIsTracked, InFlightWith
<1>10. CASE QueueCommand
  <2>1. /\ sched'.seen = {} /\ sched'.verdicts = {} /\ sched'.pc = "record"
        /\ sched'.target = sched.target /\ sched.pc = "queue" /\ row' = row
    BY <1>0, <1>10 DEF QueueCommand, PassTypeOK, PassRecord, Is, tableVars
  <2>. QED  BY <1>1, <2>1 DEF PassIsTracked, InFlightWith, HasTargetRow, InHand
<1>11. CASE RecordCommand \/ Dispatched \/ (\E t \in sched.ready : SkipTarget(t))
            \/ (\E d \in sched.touched : RefreshRead(d))
  <2>1. sched.seen = {} /\ sched.verdicts = {}
    BY <1>0, <1>11 DEF RecordCommand, Dispatched, SkipTarget, RefreshRead, PassTypeOK, Is
  <2>2. sched'.seen = sched.seen /\ sched'.verdicts = sched.verdicts /\ sched'.pc \notin InHand
    <3>1. CASE RecordCommand \/ Dispatched
      BY <1>0, <3>1 DEF RecordCommand, Dispatched, PassRecord, InHand
    <3>2. ASSUME NEW t \in sched.ready, SkipTarget(t)
          PROVE  sched'.seen = sched.seen /\ sched'.verdicts = sched.verdicts /\ sched'.pc \notin InHand
      BY <1>0, <3>2 DEF SkipTarget, PassRecord, InHand, Is
    <3>3. ASSUME NEW d \in sched.touched, RefreshRead(d)
          PROVE  sched'.seen = sched.seen /\ sched'.verdicts = sched.verdicts /\ sched'.pc \notin InHand
      BY <1>0, <3>3 DEF RefreshRead, PassRecord, InHand, Is
    <3>. QED  BY <1>11, <3>1, <3>2, <3>3
  <2>. QED  BY <1>3, <2>1, <2>2
<1>12. CASE AgentStep \/ WorldStep \/ OperatorStep \/ UNCHANGED deployVars
  BY <1>2, <1>12, OthersLeaveThePass
<1>. QED
  BY <1>4, <1>5, <1>6, <1>7, <1>8, <1>9, <1>10, <1>11, <1>12 DEF Next, Reconcile, Dispatch

\* As long as no pass dies, the command of an attempt is known to the row it
\* is for: no machine runs the same deployment twice at a time, and no target is
\* settled while its installer runs (_claim_target).
THEOREM LiveInstallsAreTracked ==
  ASSUME Apart
  PROVE  Spec => []LiveIsTracked
<1>1. Init => FirstInv /\ TrackInv
  <2>1. Init => PassIsTracked
    BY DEF Init, Asleep, PassIsTracked, InHand
  <2>2. Init => LiveIsTracked
    BY DEF Init, LiveIsTracked
  <2>. QED  BY <2>1, <2>2, DeployInitInv DEF TrackInv
<1>2. FirstInv /\ TrackInv /\ [Next]_deployVars => FirstInv' /\ TrackInv'
  <2> SUFFICES ASSUME FirstInv, TrackInv, [Next]_deployVars  PROVE FirstInv' /\ TrackInv'
    OBVIOUS
  <2>1. [FaultyNext]_deployVars
    BY DEF FaultyNext
  <2>2. FirstInv'
    BY <2>1, DeployStepInv
  <2>. QED  BY <2>2, PassStaysTracked, LiveStaysTracked DEF FirstInv, TrackInv
<1>3. TrackInv => LiveIsTracked
  BY DEF TrackInv
<1>. QED  BY <1>1, <1>2, <1>3, PTL DEF Spec
=============================================================================
