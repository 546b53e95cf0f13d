------------------------------ MODULE UpkeepProofs ------------------------------
(***************************************************************************)
(* What the hub does to keep its PCs up goes well for any number of them:  *)
(*                                                                         *)
(*  - firmware updates, for any number of machines, agents and commands,   *)
(*    whether or not passes die and replies get lost;                      *)
(*  - the file backups of a PC, for any number of runs, versions, reports  *)
(*    and retries, whether uploads fail, answers get lost, runs are        *)
(*    cancelled or expire, rotation stops half-way or the hub stops.       *)
(***************************************************************************)
EXTENDS Firmware, Backup, FiniteSetTheorems, WellFoundedInduction, TLAPS

USE QueueAssumption, FirmwareAssumption

-------------------------------------------------------------------------------
(* Firmware updates: types.                                                *)

JobStatus == Open \cup {"none", "complete", "cancelled"}
Row == [status : TargetStatus \cup {"none"}, command : Command \cup {NoCommand}]
Reading == [version : Version, since : Since]

PassRecord == [pc : Pc, seen : SUBSET Machine, late : BOOLEAN, target : Machine \cup {NoMachine},
               command : Command \cup {NoCommand}]
CancelRecord == [pc : {"idle", "next", "recall", "close"}, todo : SUBSET Machine,
                 target : Machine \cup {NoMachine}, command : Command \cup {NoCommand},
                 job : BOOLEAN, left : BOOLEAN]

\* A step that leaves the queue alone leaves it typed.
LEMMA FirmwareQueueUntouched ==
  ASSUME QueueTypeOK, UNCHANGED queueVars
  PROVE  QueueTypeOK'
BY DEF QueueTypeOK, queueVars

\* The queue's operations, as they are called here, keep its kinds of values.
LEMMA FirmwareQueueOperations ==
  ASSUME QueueTypeOK
  PROVE  /\ ExpireStale => QueueTypeOK'
         /\ \A c \in Command : Lapse(c) => QueueTypeOK'
         /\ \A c \in Command, m \in Machine \cup {NoMachine} : Create(c, m) => QueueTypeOK'
         /\ \A a \in Agent, m \in Machine : Claim(a, m) => QueueTypeOK'
         /\ \A c \in Command \cup {NoCommand}, ok \in BOOLEAN : RecordResult(c, ok) => QueueTypeOK'
         /\ \A c \in Command : CancelIfPending(c) => QueueTypeOK'
         /\ \A m \in Machine : \A ids \in SUBSET Command : DeleteRows(m, ids) => QueueTypeOK'
<1> USE DEF QueueTypeOK, CommandStatus, NoRow
<1>1. ExpireStale => QueueTypeOK'  BY DEF ExpireStale
<1>2. \A c \in Command : Lapse(c) => QueueTypeOK'  BY DEF Lapse
<1>3. \A c \in Command, m \in Machine \cup {NoMachine} : Create(c, m) => QueueTypeOK'
  BY DEF Create
<1>4. \A a \in Agent, m \in Machine : Claim(a, m) => QueueTypeOK'  BY DEF Claim
<1>5. \A c \in Command \cup {NoCommand}, ok \in BOOLEAN : RecordResult(c, ok) => QueueTypeOK'
  <2>1. SUFFICES ASSUME NEW c \in Command \cup {NoCommand}, NEW ok \in BOOLEAN, RecordResult(c, ok)
                 PROVE  QueueTypeOK'
    OBVIOUS
  <2>2. result' \in [Command -> {"none", "ok", "fail"}]
    BY <2>1 DEF RecordResult
  <2>3. status' \in [Command -> CommandStatus \cup NoRow]
    BY <2>1 DEF RecordResult
  <2>. QED  BY <2>1, <2>2, <2>3 DEF RecordResult
<1>6. \A c \in Command : CancelIfPending(c) => QueueTypeOK'  BY DEF CancelIfPending
<1>7. \A m \in Machine : \A ids \in SUBSET Command : DeleteRows(m, ids) => QueueTypeOK'
  BY DEF DeleteRows
<1>. QED  BY <1>1, <1>2, <1>3, <1>4, <1>5, <1>6, <1>7

\* The first state has the kinds of values it should.
LEMMA FirmwareInitTyped == Init => FirmwareTypeOK
<1>1. Init => QueueTypeOK
  BY DEF Init, QueueInit, QueueTypeOK, CommandStatus, NoRow
<1>2. NoTarget \in Row /\ NoPass \in PassRecord /\ NoCancel \in CancelRecord
  BY DEF NoTarget, Row, NoPass, PassRecord, Pc, NoCancel, CancelRecord
<1>3. Init => /\ agent \in [Machine -> [at : Place, command : Command \cup {NoCommand}]]
              /\ report \in [Machine -> [version : Version, since : Since]]
  BY DEF Init, Place, Version, Since
<1>4. Init => row \in [Machine -> Row]
  BY <1>2 DEF Init
<1>5. Init => /\ age \in [Machine -> 0..3] /\ bios \in [Machine -> Version]
              /\ post \in [Machine -> {"none", "ok", "refused", "failed"}]
  BY DEF Init, Version
<1>6. Init => job \in Open \cup {"none", "complete", "cancelled"} /\ image \in BOOLEAN /\ closed \in BOOLEAN
              /\ leaving \subseteq Machine /\ staged \subseteq Machine /\ booted \subseteq Machine
              /\ bootSeen \subseteq Machine
  BY DEF Init
<1>7. Init => pass \in PassRecord /\ cancel \in CancelRecord
  BY <1>2 DEF Init
<1>. QED
  BY <1>1, <1>3, <1>4, <1>5, <1>6, <1>7 DEF FirmwareTypeOK, Row, PassRecord, CancelRecord

\* A roll-up gives a job's status.
LEMMA JobRollUpTyped ==
  ASSUME job \in JobStatus, NEW rows
  PROVE  RollUp(rows) \in JobStatus
BY DEF JobStatus, RollUp, Open

\* An UPDATE of statuses leaves the rows rows, and the job a job.
LEMMA WriteTyped ==
  ASSUME row \in [Machine -> Row], job \in JobStatus, NEW M, NEW to \in TargetStatus, Write(M, to)
  PROVE  row' \in [Machine -> Row] /\ job' \in JobStatus
<1>1. \A r \in Row : [r EXCEPT !.status = to] \in Row
  BY DEF Row
<1>2. row' \in [Machine -> Row]
  BY <1>1 DEF Write
<1>. QED  BY <1>2, JobRollUpTyped DEF Write

\* What operators and the requests that serve them do keeps the kinds of values.
LEMMA OperatorsKeepTypes ==
  ASSUME FirmwareTypeOK, Operate \/ CancelStep \/ \E m \in Machine : ForgetMachine(m)
  PROVE  FirmwareTypeOK'
<1>0. /\ row \in [Machine -> Row] /\ job \in JobStatus /\ cancel \in CancelRecord
      /\ NoTarget \in Row /\ NoCancel \in CancelRecord
  BY DEF FirmwareTypeOK, Row, JobStatus, CancelRecord, NoTarget, NoCancel
<1> USE FirmwareQueueUntouched DEF requests, world
<1>1. ASSUME NEW M \in SUBSET Machine, NEW refused \in SUBSET M, CreateJob(M, refused)
      PROVE  FirmwareTypeOK'
  <2>1. row' \in [Machine -> Row]
    BY <1>0, <1>1 DEF CreateJob, Row, NoTarget, TargetStatus, Recallable, Terminal
  <2>2. job' \in JobStatus
    BY <1>1 DEF CreateJob, JobStatus, Open
  <2>. QED  BY <1>1, <2>1, <2>2 DEF CreateJob, FirmwareTypeOK, Row, JobStatus
<1>2. ASSUME NEW m \in Machine, CancelTarget(m)  PROVE FirmwareTypeOK'
  <2>1. cancel' \in CancelRecord
    BY <1>2 DEF CancelTarget, CancelRecord, NoCancel
  <2>. QED  BY <1>2, <2>1 DEF CancelTarget, FirmwareTypeOK, CancelRecord, tables
<1>3. CASE CancelJob
  <2>1. cancel' \in CancelRecord
    BY <1>3 DEF CancelJob, CancelRecord, NoCancel
  <2>. QED  BY <1>3, <2>1 DEF CancelJob, FirmwareTypeOK, CancelRecord, tables
<1>4. CASE DeletePayload
  <2>1. image' \in BOOLEAN /\ UNCHANGED <<queueVars, job, row, closed, age, pass, requests, world>>
    BY <1>4 DEF DeletePayload
  <2>. QED  BY <2>1 DEF FirmwareTypeOK
<1>5. ASSUME NEW m \in Machine, DeleteMachine(m)  PROVE FirmwareTypeOK'
  <2>1. QueueTypeOK'
    BY <1>5, FirmwareQueueOperations DEF DeleteMachine, FirmwareTypeOK
  <2>2. leaving' \subseteq Machine
    BY <1>5 DEF DeleteMachine, FirmwareTypeOK
  <2>. QED  BY <1>5, <2>1, <2>2 DEF DeleteMachine, FirmwareTypeOK, tables
<1>6. ASSUME NEW m \in Machine, ForgetMachine(m)  PROVE FirmwareTypeOK'
  <2>1. row' \in [Machine -> Row] /\ job' \in JobStatus /\ leaving' \subseteq Machine
    BY <1>0, <1>6, JobRollUpTyped DEF ForgetMachine, FirmwareTypeOK
  <2>. QED  BY <1>6, <2>1 DEF ForgetMachine, FirmwareTypeOK, Row, JobStatus
<1>7. ASSUME NEW m \in cancel.todo, CancelRead(m)  PROVE FirmwareTypeOK'
  <2>1. m \in Machine /\ row[m].command \in Command \cup {NoCommand}
    BY <1>0, <1>7 DEF CancelRecord, Row
  <2>2. cancel' \in CancelRecord
    BY <1>0, <1>7, <2>1 DEF CancelRead, CancelRecord
  <2>. QED  BY <1>7, <2>2 DEF CancelRead, FirmwareTypeOK, CancelRecord, tables
<1>8. CASE CancelRecall
  <2>1. QueueTypeOK'
    BY <1>0, <1>8, FirmwareQueueOperations DEF CancelRecall, FirmwareTypeOK, CancelRecord
  <2>2. cancel' \in CancelRecord
    BY <1>0, <1>8 DEF CancelRecall, CancelRecord
  <2>. QED  BY <1>8, <2>1, <2>2 DEF CancelRecall, FirmwareTypeOK, CancelRecord, tables
<1>9. CASE CancelClose
  <2>1. row' \in [Machine -> Row] /\ job' \in JobStatus
    BY <1>0, <1>9, WriteTyped DEF CancelClose, TargetStatus, Terminal
  <2>2. cancel' \in CancelRecord
    BY <1>0, <1>9 DEF CancelClose, CancelRecord
  <2>. QED  BY <1>9, <2>1, <2>2 DEF CancelClose, FirmwareTypeOK, CancelRecord, Row, JobStatus
<1>10. CASE CancelDone
  <2>1. job' \in JobStatus
    BY <1>0, <1>10, JobRollUpTyped DEF CancelDone, JobStatus
  <2>. QED  BY <1>0, <1>10, <2>1 DEF CancelDone, FirmwareTypeOK, CancelRecord, JobStatus
<1>. QED
  BY <1>1, <1>2, <1>3, <1>4, <1>5, <1>6, <1>7, <1>8, <1>9, <1>10 DEF Operate, CancelStep

\* The scheduler's place in the code, and what it has read, as it moves on.
LEMMA PassMoves ==
  ASSUME pass \in PassRecord
  PROVE  /\ NoPass \in PassRecord
         /\ \A pc \in Pc : [pass EXCEPT !.pc = pc] \in PassRecord
         /\ \A pc \in Pc, M \in SUBSET Machine : [pass EXCEPT !.pc = pc, !.seen = M] \in PassRecord
         /\ \A m : [pass EXCEPT !.seen = @ \ {m}] \in PassRecord
BY DEF PassRecord, NoPass, Pc

\* What the scheduler does keeps the kinds of values.
LEMMA PassKeepsTypes ==
  ASSUME FirmwareTypeOK, Tick \/ PassDies
  PROVE  FirmwareTypeOK'
<1>0. /\ row \in [Machine -> Row] /\ job \in JobStatus /\ pass \in PassRecord
      /\ pass.seen \in SUBSET Machine
  BY DEF FirmwareTypeOK, Row, JobStatus, PassRecord
<1> {"idle", "retire", "confirm", "unapplied", "read", "overdue", "dispatch", "queue", "record"}
      \subseteq Pc
  BY DEF Pc
<1> {"applied", "failed", "expired", "in_flight"} \subseteq TargetStatus
  BY DEF TargetStatus, Terminal, Recallable
\* Steps that read, and steps that write one status.
<1>1. ASSUME pass' \in PassRecord, UNCHANGED <<queueVars, tables, requests, world>>
      PROVE  FirmwareTypeOK'
  BY <1>1, FirmwareQueueUntouched DEF FirmwareTypeOK, PassRecord, tables, requests, world
<1>2. ASSUME pass' \in PassRecord, row' \in [Machine -> Row], job' \in JobStatus,
             UNCHANGED <<queueVars, image, closed, age, requests, world>>
      PROVE  FirmwareTypeOK'
  BY <1>2, FirmwareQueueUntouched DEF FirmwareTypeOK, PassRecord, Row, JobStatus, requests, world
<1>3. ASSUME NEW M, NEW to \in TargetStatus, Write(M, to), pass' \in PassRecord,
             UNCHANGED <<queueVars, image, closed, age, requests, world>>
      PROVE  FirmwareTypeOK'
  BY <1>0, <1>2, <1>3, WriteTyped
<1>4. CASE PassStart
  <2>1. Over \subseteq Machine  BY DEF Over
  <2>. QED  BY <1>0, <1>1, <1>4, <2>1, PassMoves DEF PassStart, ReadInto
<1>5. CASE Retired
  BY <1>0, <1>1, <1>5, PassMoves DEF Retired, Step
<1>6. CASE ConfirmStored
  BY <1>0, <1>3, <1>6, PassMoves DEF ConfirmStored, Step
<1>7. CASE FailUnapplied
  BY <1>0, <1>3, <1>7, PassMoves DEF FailUnapplied, Step
<1>8. CASE ReadOverdue
  BY <1>0, <1>1, <1>8, PassMoves DEF ReadOverdue, ReadInto
<1>9. CASE ReadPending
  <2>1. pass' \in PassRecord
    BY <1>0, <1>9 DEF ReadPending, PassRecord, FirmwareTypeOK
  <2>. QED  BY <1>1, <1>9, <2>1 DEF ReadPending
<1>10. CASE QueueCommand
  <2>1. Fresh \in Command
    BY <1>10 DEF QueueCommand, Fresh
  <2>2. QueueTypeOK'
    BY <1>0, <1>10, <2>1, FirmwareQueueOperations DEF QueueCommand, FirmwareTypeOK
  <2>3. pass' \in PassRecord
    BY <1>0, <1>10, <2>1 DEF QueueCommand, PassRecord
  <2>. QED  BY <1>10, <2>2, <2>3 DEF QueueCommand, FirmwareTypeOK, PassRecord, tables, requests, world
<1>11. CASE QueueRefused
  <2>1. pass' \in PassRecord
    BY <1>0, <1>11 DEF QueueRefused, PassRecord
  <2>. QED  BY <1>3, <1>11, <2>1 DEF QueueRefused
<1>12. CASE RecordCommand
  <2>1. pass' \in PassRecord
    BY <1>0, <1>12 DEF RecordCommand, PassRecord
  <2>2. row' \in [Machine -> Row]
    <3>1. \A r \in Row, c \in Command \cup {NoCommand} : [r EXCEPT !.command = c] \in Row
      BY DEF Row
    <3>2. pass.command \in Command \cup {NoCommand}
      BY <1>0 DEF PassRecord
    <3>. QED  BY <1>0, <1>12, <3>1, <3>2 DEF RecordCommand
  <2>3. job' \in JobStatus
    BY <1>0, <1>12, JobRollUpTyped DEF RecordCommand
  <2>. QED  BY <1>2, <1>12, <2>1, <2>2, <2>3 DEF RecordCommand
<1>13. CASE PassOver \/ PassDies
  BY <1>0, <1>1, <1>13, PassMoves DEF PassOver, PassDies
<1>14. ASSUME NEW m \in pass.seen, Retire(m) \/ Overdue(m)  PROVE FirmwareTypeOK'
  BY <1>0, <1>3, <1>14, PassMoves DEF Retire, Overdue
<1>15. ASSUME NEW m \in pass.seen, DispatchTooLate(m)  PROVE FirmwareTypeOK'
  BY <1>0, <1>3, <1>15, PassMoves DEF DispatchTooLate
<1>16. ASSUME NEW m \in pass.seen, NotNow(m)  PROVE FirmwareTypeOK'
  BY <1>0, <1>1, <1>16, PassMoves DEF NotNow
<1>17. ASSUME NEW m \in pass.seen, ClaimTarget(m)  PROVE FirmwareTypeOK'
  <2>1. row' \in [Machine -> Row]
    <3>1. \A r \in Row : [r EXCEPT !.status = "in_flight"] \in Row
      BY DEF Row
    <3>. QED  BY <1>0, <1>17, <3>1 DEF ClaimTarget
  <2>2. pass' \in PassRecord
    <3>1. m \in Machine  BY <1>0
    <3>2. CASE Is(m, {"pending"})
      <4>1. pass' = [pass EXCEPT !.pc = "queue", !.seen = pass.seen \ {m}, !.target = m]
        BY <1>0, <1>17, <3>2 DEF ClaimTarget, PassRecord
      <4>. QED  BY <1>0, <3>1, <4>1 DEF PassRecord
    <3>3. CASE ~Is(m, {"pending"})
      BY <1>0, <1>17, <3>3, PassMoves DEF ClaimTarget
    <3>. QED  BY <3>2, <3>3
  <2>. QED  BY <1>0, <1>2, <1>17, <2>1, <2>2 DEF ClaimTarget
<1>. QED
  BY <1>4, <1>5, <1>6, <1>7, <1>8, <1>9, <1>10, <1>11, <1>12, <1>13, <1>14, <1>15, <1>16, <1>17 DEF Tick

\* What machines, their agents and the requests they send do keeps the kinds of values.
LEMMA MachineKeepsTypes ==
  ASSUME FirmwareTypeOK, NEW m \in Machine,
         \/ AgentWorks(m) \/ AgentDies(m) \/ MachineStep(m) \/ IngestResult(m) \/ GrowOld(m)
         \/ \E a \in Agent : AgentClaims(a, m)
  PROVE  FirmwareTypeOK'
<1> DEFINE Work == [at : Place, command : Command \cup {NoCommand}]
<1>0. /\ row \in [Machine -> Row] /\ job \in JobStatus /\ agent \in [Machine -> Work]
      /\ report \in [Machine -> Reading] /\ bios \in [Machine -> Version]
      /\ age \in [Machine -> 0..3] /\ post \in [Machine -> {"none", "ok", "refused", "failed"}]
  BY DEF FirmwareTypeOK, Row, JobStatus, Reading
<1> {"none", "claimed", "running", "refusing", "failing", "staged", "answerOk", "answerFail"} = Place
  BY DEF Place
<1> {"flashing", "rebooting", "refused", "failed", "applied", "unknown"} \subseteq TargetStatus
  BY DEF TargetStatus, Touched, Terminal
<1>1. \A place \in Place : Goes(m, place) => agent' \in [Machine -> Work]
  BY <1>0 DEF Goes
<1>2. [at |-> "none", command |-> NoCommand] \in Work
  OBVIOUS
<1> USE FirmwareQueueUntouched DEF hub, tables, requests, world
<1>3. ASSUME NEW a \in Agent, AgentClaims(a, m)  PROVE FirmwareTypeOK'
  <2>1. QueueTypeOK'
    BY <1>3, FirmwareQueueOperations DEF AgentClaims, FirmwareTypeOK
  <2>2. agent' \in [Machine -> Work]
    BY <1>0, <1>3 DEF AgentClaims, Claimable, PendingOf
  <2>. QED  BY <1>3, <2>1, <2>2 DEF AgentClaims, FirmwareTypeOK
<1>4. ASSUME NEW lost \in BOOLEAN, Fetch(m, lost)  PROVE FirmwareTypeOK'
  <2>1. agent' \in [Machine -> Work]
    BY <1>1, <1>4 DEF Fetch
  <2>2. row' \in [Machine -> Row] /\ job' \in JobStatus
    BY <1>0, <1>4, WriteTyped DEF Fetch
  <2>3. age' \in [Machine -> 0..3] /\ booted' \subseteq Machine /\ bootSeen' \subseteq Machine
    <3>1. age' = age \/ age' = [age EXCEPT ![m] = 1]
      BY <1>4 DEF Fetch
    <3>2. 1 \in 0..3  OBVIOUS
    <3>. QED  BY <1>0, <1>4, <3>1, <3>2 DEF Fetch, FirmwareTypeOK
  <2>4. report' \in [Machine -> Reading]
    <3>1. \A r \in Reading : [r EXCEPT !.since = "before"] \in Reading
      BY DEF Reading, Since
    <3>2. CASE Is(m, {"in_flight"})
      BY <1>0, <1>4, <3>1, <3>2 DEF Fetch
    <3>3. CASE ~Is(m, {"in_flight"})
      BY <1>0, <1>4, <3>3 DEF Fetch
    <3>. QED  BY <3>2, <3>3
  <2>. QED  BY <1>4, <2>1, <2>2, <2>3, <2>4 DEF Fetch, FirmwareTypeOK, Row, JobStatus, Reading
<1>5. ASSUME NEW place \in Place, RunFails(m, place)  PROVE FirmwareTypeOK'
  <2>1. agent' \in [Machine -> Work]
    BY <1>1, <1>5 DEF RunFails
  <2>. QED  BY <1>5, <2>1 DEF RunFails, FirmwareTypeOK
<1>6. CASE RunStages(m)
  <2>1. agent' \in [Machine -> Work] /\ staged' \subseteq Machine
    BY <1>1, <1>6 DEF RunStages, FirmwareTypeOK
  <2>. QED  BY <1>6, <2>1 DEF RunStages, FirmwareTypeOK
<1>7. ASSUME NEW lost \in BOOLEAN, Report(m, lost)  PROVE FirmwareTypeOK'
  <2>1. agent' \in [Machine -> Work]
    BY <1>1, <1>7 DEF Report
  <2>2. post' \in [Machine -> {"none", "ok", "refused", "failed"}]
    BY <1>0, <1>7 DEF Report
  <2>. QED  BY <1>7, <2>1, <2>2 DEF Report, FirmwareTypeOK
<1>8. CASE Answer(m)
  <2>1. agent' \in [Machine -> Work]
    BY <1>0, <1>2, <1>8 DEF Answer
  <2>2. QueueTypeOK'
    BY <1>0, <1>8, FirmwareQueueOperations DEF Answer, FirmwareTypeOK
  <2>. QED  BY <1>8, <2>1, <2>2 DEF Answer, FirmwareTypeOK
<1>9. CASE AgentDies(m)
  <2>1. agent' \in [Machine -> Work]
    BY <1>0, <1>2, <1>9 DEF AgentDies
  <2>. QED  BY <1>9, <2>1 DEF AgentDies, FirmwareTypeOK
<1>10. CASE Boot(m)
  <2>1. agent' \in [Machine -> Work]
    BY <1>0, <1>2, <1>10 DEF Boot
  <2>3. bios' \in [Machine -> Version]
    <3>1. PICK v \in Version : bios' = [bios EXCEPT ![m] = v]
      BY <1>0, <1>10 DEF Boot
    <3>. QED  BY <1>0, <3>1
  <2>2. booted' \subseteq Machine /\ staged' \subseteq Machine
    BY <1>10 DEF Boot, FirmwareTypeOK
  <2>. QED  BY <1>10, <2>1, <2>2, <2>3 DEF Boot, FirmwareTypeOK
<1>11. CASE ByHand(m)
  <2>1. bios' \in [Machine -> Version]
    BY <1>0, <1>11 DEF ByHand, Version
  <2>. QED  BY <1>11, <2>1 DEF ByHand, FirmwareTypeOK
<1>12. CASE ReportInventory(m)
  <2>1. row' \in [Machine -> Row] /\ job' \in JobStatus
    BY <1>0, <1>12, WriteTyped DEF ReportInventory
  <2>2. report' \in [Machine -> Reading]
    <3>1. \A s \in Since : [version |-> bios[m], since |-> s] \in Reading
      BY <1>0 DEF Reading
    <3>. QED  BY <1>0, <1>12, <3>1 DEF ReportInventory, Since
  <2>. QED  BY <1>12, <2>1, <2>2 DEF ReportInventory, FirmwareTypeOK, Row, JobStatus, Reading
<1>13. CASE ReportUptime(m)
  BY <1>13 DEF ReportUptime, FirmwareTypeOK
<1>14. CASE IngestResult(m)
  <2>1. post' \in [Machine -> {"none", "ok", "refused", "failed"}]
    BY <1>0, <1>14 DEF IngestResult
  <2>2. row' \in [Machine -> Row] /\ job' \in JobStatus
    BY <1>0, <1>14, WriteTyped DEF IngestResult
  <2>. QED  BY <1>14, <2>1, <2>2 DEF IngestResult, FirmwareTypeOK, Row, JobStatus
<1>15. CASE GrowOld(m)
  <2>1. age' \in [Machine -> 0..3]
    BY <1>0, <1>15 DEF GrowOld
  <2>. QED  BY <1>15, <2>1 DEF GrowOld, FirmwareTypeOK
<1>. QED
  BY <1>3, <1>4, <1>5, <1>6, <1>7, <1>8, <1>9, <1>10, <1>11, <1>12, <1>13, <1>14, <1>15
     DEF AgentWorks, MachineStep

\* Every step keeps the kinds of values.
LEMMA FirmwareStepTyped == FirmwareTypeOK /\ [Next]_firmwareVars => FirmwareTypeOK'
<1> SUFFICES ASSUME FirmwareTypeOK, [Next]_firmwareVars  PROVE FirmwareTypeOK'
  OBVIOUS
<1>1. CASE UNCHANGED firmwareVars
  BY <1>1, FirmwareQueueUntouched DEF firmwareVars, hub, tables, requests, world, FirmwareTypeOK
<1>2. CASE CloseWindow
  BY <1>2, FirmwareQueueUntouched DEF CloseWindow, requests, world, FirmwareTypeOK
<1>3. ASSUME NEW c \in Command, LapseCommand(c)  PROVE FirmwareTypeOK'
  BY <1>3, FirmwareQueueOperations DEF LapseCommand, hub, tables, requests, world, FirmwareTypeOK
<1>4. CASE Sweep
  BY <1>4, FirmwareQueueOperations DEF Sweep, hub, tables, requests, world, FirmwareTypeOK
<1>. QED
  BY <1>1, <1>2, <1>3, <1>4, OperatorsKeepTypes, PassKeepsTypes, MachineKeepsTypes DEF Next

-------------------------------------------------------------------------------
(* One command per target.  The row is taken out of "pending" before its   *)
(* command is queued, and nothing makes it pending again: not the pass     *)
(* that dies in between, nor the next one.                                 *)

\* Before the job there is nothing to send, and nothing sent.
NotYetAJob == job = "none" =>
    ~At("queue") /\ \A m \in Machine : Is(m, {"none"}) /\ \A c \in Command : machine[c] # m

\* A pending target has no command, and none is about to be queued for it.
PendingIsUnsent == \A m \in Machine : Is(m, {"pending"}) =>
    ~(At("queue") /\ pass.target = m) /\ \A c \in Command : machine[c] # m

\* The command the scheduler is about to queue is the machine's first.
QueuesTheFirst == At("queue") =>
    pass.target \in Machine /\ \A c \in Command : machine[c] # pass.target

\* No machine has two.
SentOnce == \A c \in Command, d \in Command :
    machine[c] = machine[d] /\ machine[c] \in Machine => c = d

SendsOnce == NotYetAJob /\ PendingIsUnsent /\ QueuesTheFirst /\ SentOnce

\* What a machine reported, and since when, is held against what it runs.
Dated == \A m \in Machine :
    /\ report[m].since # "before" \/ m \in booted => age[m] > 0
    /\ report[m].since # "before" /\ report[m].version = "new" => bios[m] = "new"
    /\ report[m].since = "boot" => m \in booted /\ report[m].version = bios[m]

\* A machine that may still be sent the command was not handed the image, and one that is in
\* the middle of a flash, or says how it went, was.
Fetched == {"running", "refusing", "failing", "staged"}
Handed ==
    /\ \A m \in Machine : job = "none" \/ Is(m, Recallable) => age[m] = 0
    /\ \A m \in Machine :
          Is(m, Touched) \/ agent[m].at \in Fetched \/ post[m] # "none" \/ m \in staged => age[m] > 0

-------------------------------------------------------------------------------
(* What a step may be, for the rows and for the queue.                     *)

\* Whoever is about to write a row knows which.
HasSubject ==
    /\ At("queue") \/ At("record") => pass.target \in Machine
    /\ cancel.pc \in {"recall", "close"} => cancel.target \in Machine

\* Each request and each pass chooses its row when it sets out.
LEMMA SubjectKept ==
  ASSUME FirmwareTypeOK, HasSubject, [Next]_firmwareVars
  PROVE  HasSubject'
<1> USE DEF HasSubject, At
<1>1. CASE UNCHANGED <<pass, cancel>>
  BY <1>1
<1>0. /\ pass \in PassRecord /\ pass.seen \in SUBSET Machine
      /\ cancel \in CancelRecord /\ cancel.todo \in SUBSET Machine
  BY DEF FirmwareTypeOK, PassRecord, CancelRecord
<1>2. CASE Tick
  <2>1. CASE PassStart \/ Retired \/ ConfirmStored \/ FailUnapplied \/ ReadOverdue \/ ReadPending
    BY <1>0, <2>1 DEF PassStart, Retired, ConfirmStored, FailUnapplied, ReadOverdue, ReadPending,
       Step, ReadInto, requests, PassRecord
  <2>4. CASE QueueCommand
    BY <1>0, <2>4 DEF QueueCommand, requests, PassRecord
  <2>5. CASE QueueRefused
    BY <1>0, <2>5 DEF QueueRefused, requests, PassRecord
  <2>6. CASE RecordCommand
    BY <1>0, <2>6 DEF RecordCommand, requests, PassRecord
  <2>7. CASE PassOver
    BY <2>7 DEF PassOver, NoPass, requests
  <2>2. ASSUME NEW m \in pass.seen, Retire(m) \/ Overdue(m) \/ DispatchTooLate(m) \/ NotNow(m)
        PROVE  HasSubject'
    BY <1>0, <2>2 DEF Retire, Overdue, DispatchTooLate, NotNow, requests, PassRecord
  <2>3. ASSUME NEW m \in pass.seen, ClaimTarget(m)  PROVE HasSubject'
    <3>1. m \in Machine /\ UNCHANGED cancel
      BY <1>0, <2>3 DEF ClaimTarget, requests
    <3>2. CASE Is(m, {"pending"})
      BY <1>0, <2>3, <3>1, <3>2 DEF ClaimTarget, PassRecord
    <3>3. CASE ~Is(m, {"pending"})
      BY <1>0, <2>3, <3>1, <3>3 DEF ClaimTarget, PassRecord
    <3>. QED  BY <3>2, <3>3
  <2>. QED  BY <1>2, <2>1, <2>2, <2>3, <2>4, <2>5, <2>6, <2>7 DEF Tick
<1>3. CASE CancelStep
  <2>1. CASE CancelRecall
    BY <1>0, <2>1 DEF CancelRecall, CancelRecord
  <2>3. CASE CancelClose
    BY <1>0, <2>3 DEF CancelClose, CancelRecord
  <2>4. CASE CancelDone
    BY <2>4 DEF CancelDone, NoCancel
  <2>2. ASSUME NEW m \in cancel.todo, CancelRead(m)  PROVE HasSubject'
    <3>1. m \in Machine /\ UNCHANGED pass
      BY <1>0, <2>2 DEF CancelRead
    <3>2. CASE Is(m, Recallable)
      BY <1>0, <2>2, <3>1, <3>2 DEF CancelRead, CancelRecord
    <3>3. CASE ~Is(m, Recallable)
      BY <1>0, <2>2, <3>1, <3>3 DEF CancelRead, CancelRecord
    <3>. QED  BY <3>2, <3>3
  <2>. QED  BY <1>3, <2>1, <2>2, <2>3, <2>4 DEF CancelStep
<1>4. CASE Operate
  <2>1. CASE CancelJob \/ \E m \in Machine : CancelTarget(m)
    BY <1>0, <2>1 DEF CancelJob, CancelTarget, NoCancel
  <2>2. CASE \/ \E M \in SUBSET Machine : \E refused \in SUBSET M : CreateJob(M, refused)
             \/ DeletePayload \/ \E m \in Machine : DeleteMachine(m)
    BY <1>1, <2>2 DEF CreateJob, DeletePayload, DeleteMachine, requests
  <2>. QED  BY <1>4, <2>1, <2>2 DEF Operate
<1>5. CASE PassDies
  BY <1>5 DEF PassDies, NoPass, requests
<1>6. CASE CloseWindow \/ Sweep \/ (\E c \in Command : LapseCommand(c)) \/ UNCHANGED firmwareVars
  BY <1>1, <1>6 DEF CloseWindow, Sweep, LapseCommand, firmwareVars, hub, requests
<1>7. ASSUME NEW m \in Machine,
             \/ AgentWorks(m) \/ AgentDies(m) \/ MachineStep(m) \/ IngestResult(m) \/ GrowOld(m)
             \/ ForgetMachine(m) \/ \E a \in Agent : AgentClaims(a, m)
      PROVE  HasSubject'
  BY <1>1, <1>7 DEF AgentWorks, Fetch, Report, RunFails, RunStages, Answer, AgentDies, MachineStep,
     Boot, ByHand, ReportInventory, ReportUptime, IngestResult, GrowOld, ForgetMachine, AgentClaims,
     hub, requests
<1>. QED  BY <1>2, <1>3, <1>4, <1>5, <1>6, <1>7 DEF Next

\* A step that writes one status into some rows.  Nothing but evidence writes "applied", and
\* only a machine that was handed the image is on its way through a flash.
WritesSome == \E M \in SUBSET Machine, to \in TargetStatus \ Recallable :
    /\ Write(M, to)
    /\ to = "applied" => \A m \in M : bios[m] = "new" /\ Is(m, Touched)
    /\ to \in Touched => \A m \in M : age'[m] > 0

\* The scheduler takes a row for itself.
Takes(m) == Is(m, {"pending"}) /\ row' = [row EXCEPT ![m].status = "in_flight"] /\ UNCHANGED job

\* Every step that touches a target or the job is one of these.
RowKinds ==
    \/ UNCHANGED <<row, job>>
    \/ \E M \in SUBSET Machine : \E refused \in SUBSET M : CreateJob(M, refused)
    \/ WritesSome
    \/ \E m \in Machine : Takes(m) \/ ForgetMachine(m)
    \/ RecordCommand \/ CancelDone

\* What a machine reported since its fetch is held against what it runs now.
LEMMA RowSteps ==
  ASSUME FirmwareTypeOK, HasSubject, Dated, Handed, [Next]_firmwareVars
  PROVE  RowKinds
<1> USE DEF RowKinds
<1> /\ {"applied", "failed", "expired", "unknown", "cancelled", "flashing", "rebooting", "refused"}
         \subseteq TargetStatus \ Recallable
    /\ Touched = {"flashing", "rebooting"}
    /\ pass.seen \in SUBSET Machine
  BY DEF TargetStatus, Recallable, Terminal, Touched, FirmwareTypeOK
<1>1. ASSUME NEW M \in SUBSET Machine, NEW to \in TargetStatus \ Recallable, Write(M, to),
             to \notin {"applied", "flashing", "rebooting"}
      PROVE  RowKinds
  BY <1>1 DEF WritesSome
<1>2. CASE Tick
  <2>1. CASE PassStart \/ Retired \/ ReadOverdue \/ ReadPending \/ QueueCommand \/ PassOver
             \/ \E m \in pass.seen : NotNow(m)
    BY <2>1 DEF PassStart, Retired, ReadOverdue, ReadPending, QueueCommand, PassOver, NotNow, tables
  <2>2. CASE ConfirmStored
    <3> DEFINE M == {m \in Machine : /\ Is(m, Touched) /\ image
                                     /\ report[m].version = "new" /\ report[m].since # "before"}
    <3>1. Write(M, "applied") /\ \A m \in M : bios[m] = "new" /\ Is(m, Touched)
      BY <2>2 DEF ConfirmStored, Dated
    <3>2. M \in SUBSET Machine  OBVIOUS
    <3> HIDE DEF M
    <3>. QED  BY <3>1, <3>2 DEF WritesSome
  <2>3. CASE FailUnapplied
    <3> DEFINE M == {m \in bootSeen : /\ Is(m, {"rebooting"})
                                      /\ report[m] = [version |-> "old", since |-> "boot"]}
    <3>1. Write(M, "failed") /\ M \in SUBSET Machine
      BY <2>3 DEF FailUnapplied, FirmwareTypeOK
    <3>. QED  BY <1>1, <3>1
  <2>4. CASE QueueRefused
    <3>1. Write({pass.target}, "failed") /\ pass.target \in Machine
      BY <2>4 DEF QueueRefused, HasSubject
    <3>. QED  BY <1>1, <3>1
  <2>5. CASE RecordCommand
    BY <2>5
  <2>6. ASSUME NEW m \in pass.seen, Retire(m) \/ Overdue(m)  PROVE RowKinds
    BY <1>1, <2>6 DEF Retire, Overdue
  <2>7. ASSUME NEW m \in pass.seen, DispatchTooLate(m)  PROVE RowKinds
    BY <1>1, <2>7 DEF DispatchTooLate
  <2>8. ASSUME NEW m \in pass.seen, ClaimTarget(m)  PROVE RowKinds
    BY <2>8 DEF ClaimTarget, Takes
  <2>. QED  BY <1>2, <2>1, <2>2, <2>3, <2>4, <2>5, <2>6, <2>7, <2>8 DEF Tick
<1>3. CASE CancelStep
  <2>1. CASE CancelRecall \/ \E m \in cancel.todo : CancelRead(m)
    BY <2>1 DEF CancelRecall, CancelRead, tables
  <2>2. CASE CancelClose
    <3>1. Write({cancel.target}, "cancelled") /\ cancel.target \in Machine
      BY <2>2 DEF CancelClose, HasSubject
    <3>. QED  BY <1>1, <3>1
  <2>. QED  BY <1>3, <2>1, <2>2 DEF CancelStep
<1>4. CASE Operate
  BY <1>4 DEF Operate, CancelJob, CancelTarget, DeletePayload, DeleteMachine, tables
<1>5. CASE PassDies \/ CloseWindow \/ Sweep \/ (\E c \in Command : LapseCommand(c)) \/ UNCHANGED firmwareVars
  BY <1>5 DEF PassDies, CloseWindow, Sweep, LapseCommand, firmwareVars, hub, tables
<1>6. ASSUME NEW m \in Machine, AgentWorks(m)  PROVE RowKinds
  <2>1. ASSUME NEW lost \in BOOLEAN, Fetch(m, lost)  PROVE RowKinds
    <3>1. CASE Is(m, {"in_flight"})
      <4>1. Write({m}, "flashing") /\ age'[m] = 1
        BY <2>1, <3>1 DEF Fetch, FirmwareTypeOK
      <4>. QED  BY <4>1 DEF WritesSome
    <3>2. CASE ~Is(m, {"in_flight"})
      BY <2>1, <3>2 DEF Fetch
    <3>. QED  BY <3>1, <3>2
  <2>2. ASSUME NEW lost \in BOOLEAN, Report(m, lost)  PROVE RowKinds
    BY <2>2 DEF Report, tables
  <2>3. ASSUME NEW place \in Place, RunFails(m, place)  PROVE RowKinds
    BY <2>3 DEF RunFails, hub, tables
  <2>4. CASE RunStages(m) \/ Answer(m)
    BY <2>4 DEF RunStages, Answer, hub, tables
  <2>. QED  BY <1>6, <2>1, <2>2, <2>3, <2>4 DEF AgentWorks
<1>7. ASSUME NEW m \in Machine, MachineStep(m)  PROVE RowKinds
  <2>1. CASE Boot(m) \/ ByHand(m) \/ ReportUptime(m)
    BY <2>1 DEF Boot, ByHand, ReportUptime, hub, tables
  <2>2. CASE ReportInventory(m)
    <3>1. CASE Write({m}, "applied") /\ bios[m] = "new" /\ Is(m, Touched)
      BY <3>1 DEF WritesSome
    <3>. QED  BY <1>1, <2>2, <3>1 DEF ReportInventory
  <2>. QED  BY <1>7, <2>1, <2>2 DEF MachineStep
<1>8. ASSUME NEW m \in Machine, IngestResult(m)  PROVE RowKinds
  <2>1. post[m] \in {"ok", "refused", "failed"}
    BY <1>8 DEF IngestResult, FirmwareTypeOK
  <2>2. CASE post[m] = "ok"
    <3>1. Write({m}, "rebooting") /\ age'[m] > 0
      BY <1>8, <2>2 DEF IngestResult, Handed
    <3>. QED  BY <3>1 DEF WritesSome
  <2>. QED  BY <1>1, <1>8, <2>1, <2>2 DEF IngestResult
<1>9. ASSUME NEW m \in Machine, AgentDies(m) \/ GrowOld(m) \/ \E a \in Agent : AgentClaims(a, m)
      PROVE  RowKinds
  BY <1>9 DEF AgentDies, GrowOld, AgentClaims, hub, tables
<1>. QED  BY <1>2, <1>3, <1>4, <1>5, <1>6, <1>7, <1>8, <1>9 DEF Next

\* The queue's operations aim no new command at a machine, but the INSERT.
LEMMA OnlyCreateAims ==
  ASSUME QueueTypeOK, NEW c \in Command,
         \/ ExpireStale \/ UNCHANGED queueVars
         \/ \E d \in Command : Lapse(d)
         \/ \E a \in Agent, m \in Machine : Claim(a, m)
         \/ \E d, ok : RecordResult(d, ok)
         \/ \E d : CancelIfPending(d)
         \/ \E m, ids : DeleteRows(m, ids)
  PROVE  machine'[c] \in {machine[c], NoMachine}
BY DEF QueueTypeOK, queueVars, ExpireStale, Lapse, Claim, RecordResult, CancelIfPending, DeleteRows

\* The pass does not come to "queue" but by its claim, and stays with its target.
PassStays == At("queue")' => At("queue") /\ pass'.target = pass.target

\* Every step is one of these for the queue.
SendKinds ==
    \/ QueueCommand
    \/ /\ \A c \in Command : machine'[c] \in {machine[c], NoMachine}
       /\ PassStays \/ \E m \in Machine : ClaimTarget(m)

\* Nothing but the scheduler's INSERT aims a command at a machine.
LEMMA SendSteps ==
  ASSUME FirmwareTypeOK, [Next]_firmwareVars
  PROVE  SendKinds
<1> USE OnlyCreateAims DEF SendKinds
<1>0. QueueTypeOK /\ pass \in PassRecord /\ pass.seen \in SUBSET Machine
  BY DEF FirmwareTypeOK, PassRecord
<1>1. CASE Tick
  <2>1. CASE PassStart \/ Retired \/ ConfirmStored \/ FailUnapplied \/ ReadOverdue \/ ReadPending
    <3>1. UNCHANGED queueVars /\ ~At("queue")'
      BY <1>0, <2>1 DEF PassStart, Retired, ConfirmStored, FailUnapplied, ReadOverdue, ReadPending,
         Step, ReadInto, At, PassRecord
    <3>. QED  BY <1>0, <3>1 DEF PassStays
  <2>2. CASE QueueRefused
    <3>1. UNCHANGED queueVars /\ ~At("queue")'
      BY <1>0, <2>2 DEF QueueRefused, At, PassRecord
    <3>. QED  BY <1>0, <3>1 DEF PassStays
  <2>3. CASE RecordCommand
    <3>1. UNCHANGED queueVars /\ ~At("queue")'
      BY <1>0, <2>3 DEF RecordCommand, At, PassRecord
    <3>. QED  BY <1>0, <3>1 DEF PassStays
  <2>4. CASE PassOver
    <3>1. UNCHANGED queueVars /\ ~At("queue")'
      BY <2>4 DEF PassOver, At, NoPass
    <3>. QED  BY <1>0, <3>1 DEF PassStays
  <2>5. ASSUME NEW m \in pass.seen, Retire(m) \/ Overdue(m) \/ DispatchTooLate(m) \/ NotNow(m)
        PROVE  SendKinds
    <3>1. UNCHANGED queueVars /\ ~At("queue")'
      BY <1>0, <2>5 DEF Retire, Overdue, DispatchTooLate, NotNow, At, PassRecord
    <3>. QED  BY <1>0, <3>1 DEF PassStays
  <2>6. ASSUME NEW m \in pass.seen, ClaimTarget(m)  PROVE SendKinds
    <3>1. m \in Machine /\ UNCHANGED queueVars
      BY <1>0, <2>6 DEF ClaimTarget
    <3>. QED  BY <1>0, <2>6, <3>1
  <2>. QED  BY <1>1, <2>1, <2>2, <2>3, <2>4, <2>5, <2>6 DEF Tick
<1>2. CASE PassDies
  <2>1. UNCHANGED queueVars /\ ~At("queue")'
    BY <1>2 DEF PassDies, At, NoPass
  <2>. QED  BY <1>0, <2>1 DEF PassStays
\* Everything else leaves the pass where it is.
<1>3. ASSUME UNCHANGED pass  PROVE PassStays
  BY <1>3 DEF PassStays, At
<1>4. CASE CancelStep \/ Operate
  <2>1. UNCHANGED pass
    BY <1>4 DEF CancelStep, CancelRecall, CancelClose, CancelDone, CancelRead, Operate, CreateJob,
       CancelJob, CancelTarget, DeletePayload, DeleteMachine
  <2>2. \/ UNCHANGED queueVars \/ \E d : CancelIfPending(d)
        \/ \E m, ids : DeleteRows(m, ids)
    BY <1>4 DEF CancelStep, CancelRecall, CancelClose, CancelDone, CancelRead, Operate, CreateJob,
       CancelJob, CancelTarget, DeletePayload, DeleteMachine
  <2>. QED  BY <1>0, <1>3, <2>1, <2>2
<1>5. CASE CloseWindow \/ Sweep \/ (\E c \in Command : LapseCommand(c)) \/ UNCHANGED firmwareVars
  <2>1. UNCHANGED pass
    BY <1>5 DEF CloseWindow, Sweep, LapseCommand, firmwareVars, hub
  <2>2. UNCHANGED queueVars \/ ExpireStale \/ \E c \in Command : Lapse(c)
    BY <1>5 DEF CloseWindow, Sweep, LapseCommand, firmwareVars
  <2>. QED  BY <1>0, <1>3, <2>1, <2>2
<1>6. ASSUME NEW m \in Machine,
             \/ AgentWorks(m) \/ AgentDies(m) \/ MachineStep(m) \/ IngestResult(m) \/ GrowOld(m)
             \/ ForgetMachine(m) \/ \E a \in Agent : AgentClaims(a, m)
      PROVE  SendKinds
  <2>1. UNCHANGED pass
    BY <1>6 DEF AgentWorks, Fetch, Report, RunFails, RunStages, Answer, AgentDies, MachineStep,
       Boot, ByHand, ReportInventory, ReportUptime, IngestResult, GrowOld, ForgetMachine, AgentClaims, hub
  <2>2. \/ UNCHANGED queueVars \/ \E a \in Agent : Claim(a, m)
        \/ \E d, ok : RecordResult(d, ok)
    BY <1>6 DEF AgentWorks, Fetch, Report, RunFails, RunStages, Answer, AgentDies, MachineStep,
       Boot, ByHand, ReportInventory, ReportUptime, IngestResult, GrowOld, ForgetMachine, AgentClaims
  <2>. QED  BY <1>0, <1>3, <2>1, <2>2
<1>. QED  BY <1>1, <1>2, <1>4, <1>5, <1>6 DEF Next

\* A roll-up says complete only of rows that are over, and never makes a job none again.
LEMMA RollUpIsOver ==
  ASSUME NEW rows
  PROVE  /\ RollUp(rows) = "complete" => \A m \in Machine : rows[m].status \in Terminal \cup {"none"}
         /\ RollUp(rows) = "none" => job = "none"
BY DEF RollUp

\* Rows that do not exist stay so, and no row becomes pending again.
RowsMadeOnce ==
    /\ job' = "none" => job = "none"
    /\ \A m \in Machine : Is(m, {"none"}) => row'[m].status = "none"
    /\ \A m \in Machine : row'[m].status = "pending" => Is(m, {"pending"})

\* That is so of every step but create_job.
LEMMA RowsAreMadeOnce ==
  ASSUME FirmwareTypeOK, RowKinds,
         ~\E M \in SUBSET Machine : \E refused \in SUBSET M : CreateJob(M, refused)
  PROVE  RowsMadeOnce
<1>0. row \in [Machine -> Row]
  BY DEF FirmwareTypeOK, Row
<1> USE RollUpIsOver DEF Is, RowsMadeOnce
<1>1. CASE UNCHANGED <<row, job>>
  BY <1>1
<1>2. ASSUME NEW M, NEW to \in TargetStatus \ Recallable, Write(M, to)
      PROVE  RowsMadeOnce
  BY <1>0, <1>2 DEF Write, Row, Recallable
<1>3. ASSUME NEW m \in Machine, Takes(m) \/ ForgetMachine(m)
      PROVE  RowsMadeOnce
  BY <1>0, <1>3 DEF Takes, ForgetMachine, NoTarget, Row
<1>4. CASE RecordCommand
  BY <1>0, <1>4 DEF RecordCommand, Row
<1>5. CASE CancelDone
  BY <1>0, <1>5 DEF CancelDone
<1>. QED  BY <1>1, <1>2, <1>3, <1>4, <1>5 DEF RowKinds, WritesSome

-------------------------------------------------------------------------------
(* The inductive invariant.                                                *)

\* A machine that reported since the fetch runs what it reported, or newer.
LEMMA DatedKept ==
  ASSUME FirmwareTypeOK, Dated, [Next]_firmwareVars
  PROVE  Dated'
<1>0. /\ report \in [Machine -> Reading] /\ bios \in [Machine -> Version] /\ age \in [Machine -> 0..3]
  BY DEF FirmwareTypeOK, Reading
<1>1. CASE UNCHANGED <<report, bios, age, booted>>
  BY <1>1 DEF Dated
<1>2. ASSUME NEW m \in Machine, NEW lost \in BOOLEAN, Fetch(m, lost)  PROVE Dated'
  <2>1. CASE Is(m, {"in_flight"})
    BY <1>0, <1>2, <2>1 DEF Fetch, Dated, Reading
  <2>2. CASE ~Is(m, {"in_flight"})
    BY <1>1, <1>2, <2>2 DEF Fetch
  <2>. QED  BY <2>1, <2>2
<1>3. ASSUME NEW m \in Machine, Boot(m)  PROVE Dated'
  <2>1. PICK v \in Version : bios' = [bios EXCEPT ![m] = v] /\ (bios[m] = "new" => v = "new")
    BY <1>0, <1>3 DEF Boot
  <2>. QED  BY <1>0, <1>3, <2>1 DEF Boot, Dated, hub, tables
<1>4. ASSUME NEW m \in Machine, ByHand(m)  PROVE Dated'
  BY <1>0, <1>4 DEF ByHand, Dated, hub, tables
<1>5. ASSUME NEW m \in Machine, ReportInventory(m)  PROVE Dated'
  BY <1>0, <1>5 DEF ReportInventory, Dated, Reading
<1>6. ASSUME NEW m \in Machine, GrowOld(m)  PROVE Dated'
  BY <1>0, <1>6 DEF GrowOld, Dated, world
<1>7. ASSUME NEW m \in Machine,
             \/ \E lost \in BOOLEAN : Report(m, lost)
             \/ \E place \in Place : RunFails(m, place)
             \/ RunStages(m) \/ Answer(m) \/ AgentDies(m) \/ ReportUptime(m) \/ IngestResult(m)
             \/ ForgetMachine(m) \/ \E a \in Agent : AgentClaims(a, m)
      PROVE  Dated'
  BY <1>1, <1>7 DEF Report, RunFails, RunStages, Answer, AgentDies, ReportUptime, IngestResult,
     ForgetMachine, AgentClaims, hub, tables, world
<1>8. CASE CancelStep \/ Operate
  BY <1>1, <1>8 DEF CancelStep, CancelRecall, CancelClose, CancelDone, CancelRead, Operate, CreateJob,
     CancelJob, CancelTarget, DeletePayload, DeleteMachine, tables, world
<1>9. CASE CloseWindow \/ Sweep \/ PassDies \/ (\E c \in Command : LapseCommand(c)) \/ UNCHANGED firmwareVars
  BY <1>1, <1>9 DEF CloseWindow, Sweep, PassDies, LapseCommand, firmwareVars, hub, tables, world
<1>10. CASE Tick
  <2>1. UNCHANGED <<age, world>>
    BY <1>10 DEF Tick, PassStart, Retired, ConfirmStored, FailUnapplied, ReadOverdue, ReadPending,
       QueueCommand, QueueRefused, RecordCommand, PassOver, Retire, Overdue, DispatchTooLate, NotNow,
       ClaimTarget, tables
  <2>. QED  BY <1>1, <2>1 DEF world
<1>. QED
  BY <1>2, <1>3, <1>4, <1>5, <1>6, <1>7, <1>8, <1>9, <1>10 DEF Next, AgentWorks, MachineStep

\* No machine is ever sent a second command.
LEMMA SendsOnceKept ==
  ASSUME FirmwareTypeOK, SendsOnce, RowKinds, SendKinds
  PROVE  SendsOnce'
<1>0. /\ row \in [Machine -> Row] /\ machine \in [Command -> Machine \cup {NoMachine}]
      /\ pass \in PassRecord /\ pass.seen \in SUBSET Machine
  BY DEF FirmwareTypeOK, QueueTypeOK, Row, PassRecord
<1>1. ASSUME NEW M \in SUBSET Machine, NEW refused \in SUBSET M, CreateJob(M, refused)
      PROVE  SendsOnce'
  <2>1. UNCHANGED <<machine, pass>> /\ job' # "none" /\ job = "none"
    BY <1>1 DEF CreateJob, queueVars
  <2>. QED
    BY <2>1 DEF SendsOnce, NotYetAJob, PendingIsUnsent, QueuesTheFirst, SentOnce, At
<1>2. CASE ~\E M \in SUBSET Machine : \E refused \in SUBSET M : CreateJob(M, refused)
  <2>1. RowsMadeOnce
    BY <1>2, RowsAreMadeOnce
  <2>2. CASE QueueCommand
    <3>1. /\ Fresh \in Command /\ machine' = [machine EXCEPT ![Fresh] = pass.target]
          /\ At("queue") /\ ~At("queue")' /\ UNCHANGED <<row, job>>
      BY <1>0, <2>2 DEF QueueCommand, Create, Fresh, At, PassRecord, tables
    <3>2. pass.target \in Machine /\ \A c \in Command : machine[c] # pass.target
      BY <3>1 DEF SendsOnce, QueuesTheFirst
    <3>. QED
      BY <1>0, <3>1, <3>2 DEF SendsOnce, NotYetAJob, PendingIsUnsent, QueuesTheFirst, SentOnce, Is
  <2>3. ASSUME \A c \in Command : machine'[c] \in {machine[c], NoMachine}, PassStays
        PROVE  SendsOnce'
    <3>0. \A c \in Command, m \in Machine : machine'[c] = m => machine[c] = m
      BY <2>3
    <3>1. NotYetAJob'
      <4> SUFFICES ASSUME job' = "none"
            PROVE  ~At("queue")' /\ \A m \in Machine : /\ row'[m].status = "none"
                                                       /\ \A c \in Command : machine'[c] # m
        BY DEF NotYetAJob, Is
      <4>2. NotYetAJob /\ job = "none"
        BY <2>1 DEF SendsOnce, RowsMadeOnce
      <4>. QED  BY <2>1, <2>3, <3>0, <4>2 DEF NotYetAJob, PassStays, RowsMadeOnce, Is
    <3>2. PendingIsUnsent'
      <4> SUFFICES ASSUME NEW m \in Machine, row'[m].status = "pending"
            PROVE  ~(At("queue")' /\ pass'.target = m) /\ \A c \in Command : machine'[c] # m
        BY DEF PendingIsUnsent, Is
      <4>2. PendingIsUnsent /\ Is(m, {"pending"})
        BY <2>1 DEF SendsOnce, RowsMadeOnce, Is
      <4>. QED  BY <2>3, <3>0, <4>2 DEF PendingIsUnsent, PassStays, Is
    <3>3. QueuesTheFirst'
      BY <2>3 DEF SendsOnce, QueuesTheFirst, PassStays
    <3>4. SentOnce'
      BY <1>0, <2>3 DEF SendsOnce, SentOnce
    <3>. QED  BY <3>1, <3>2, <3>3, <3>4 DEF SendsOnce
  <2>4. ASSUME NEW m \in Machine, ClaimTarget(m)  PROVE SendsOnce'
    <3>1. UNCHANGED <<machine, job>>
      BY <2>4 DEF ClaimTarget, queueVars
    <3>2. CASE Is(m, {"pending"})
      <4>1. /\ pass'.pc = "queue" /\ pass'.target = m
            /\ row' = [row EXCEPT ![m].status = "in_flight"]
        BY <1>0, <2>4, <3>2 DEF ClaimTarget, PassRecord
      <4>2. \A c \in Command : machine[c] # m
        BY <3>2 DEF SendsOnce, PendingIsUnsent
      <4>3. job # "none"
        BY <3>2 DEF SendsOnce, NotYetAJob, Is
      <4>4. row'[m].status = "in_flight"
        BY <1>0, <4>1 DEF Row
      <4>. QED
        BY <2>1, <3>1, <4>1, <4>2, <4>3, <4>4
           DEF SendsOnce, RowsMadeOnce, NotYetAJob, PendingIsUnsent, QueuesTheFirst, SentOnce, At, Is
    <3>3. CASE ~Is(m, {"pending"})
      <4>1. PassStays
        BY <1>0, <2>4, <3>3 DEF ClaimTarget, PassStays, At, PassRecord
      <4>. QED  BY <2>3, <3>1, <4>1
    <3>. QED  BY <3>2, <3>3
  <2>. QED  BY <2>2, <2>3, <2>4 DEF SendKinds
<1>. QED  BY <1>1, <1>2

\* A complete job stays over: its rows change in no way that is not rolled up.
LEMMA CompleteKept ==
  ASSUME FirmwareTypeOK, CompleteIsOver, RowKinds
  PROVE  CompleteIsOver'
<1>0. row \in [Machine -> Row] /\ \A m \in Machine : row[m] \in Row
  BY DEF FirmwareTypeOK, Row
<1> USE RollUpIsOver DEF CompleteIsOver, Is
<1>1. CASE UNCHANGED <<row, job>>
  BY <1>1
<1>2. ASSUME NEW M \in SUBSET Machine, NEW refused \in SUBSET M, CreateJob(M, refused)
      PROVE  CompleteIsOver'
  BY <1>2 DEF CreateJob, NoTarget, Terminal
<1>3. ASSUME NEW M, NEW to, Write(M, to)  PROVE CompleteIsOver'
  <2>1. CASE \E m \in M : row[m].status # "none"
    BY <1>3, <2>1 DEF Write
  <2>2. CASE ~\E m \in M : row[m].status # "none"
    <3>1. row' = row /\ job' = job
      BY <1>0, <1>3, <2>2 DEF Write
    <3>. QED  BY <3>1
  <2>. QED  BY <2>1, <2>2
<1>4. ASSUME NEW m \in Machine, Takes(m)  PROVE CompleteIsOver'
  BY <1>4 DEF Takes, Terminal
<1>5. ASSUME NEW m \in Machine, ForgetMachine(m)  PROVE CompleteIsOver'
  BY <1>0, <1>5 DEF ForgetMachine, NoTarget
<1>6. CASE RecordCommand
  BY <1>6 DEF RecordCommand
<1>7. CASE CancelDone
  BY <1>7 DEF CancelDone
<1>. QED  BY <1>1, <1>2, <1>3, <1>4, <1>5, <1>6, <1>7 DEF RowKinds, WritesSome

\* What becomes of a row's place, whichever kind of step it is.
LEMMA RowsGoForward ==
  ASSUME FirmwareTypeOK, NotYetAJob, RowKinds
  PROVE  /\ job' = "none" => job = "none"
         /\ \A m \in Machine : Is(m, Recallable)' => Is(m, Recallable) \/ job = "none"
         /\ \A m \in Machine : Is(m, Touched)' => Is(m, Touched) \/ age'[m] > 0
<1>0. row \in [Machine -> Row]
  BY DEF FirmwareTypeOK, Row
<1> USE RollUpIsOver DEF Is
<1>1. CASE UNCHANGED <<row, job>>
  BY <1>1
<1>2. ASSUME NEW M \in SUBSET Machine, NEW refused \in SUBSET M, CreateJob(M, refused)
      PROVE  /\ job = "none"
             /\ job' # "none" /\ \A m \in Machine : row'[m].status \in {"none", "refused", "pending"}
  BY <1>2 DEF CreateJob, NoTarget
<1>3. CASE WritesSome
  BY <1>0, <1>3 DEF WritesSome, Write, Row
<1>4. ASSUME NEW m \in Machine, Takes(m)
      PROVE  /\ job' = job
             /\ \A n \in Machine : row'[n].status = row[n].status \/ (n = m /\ row'[n].status = "in_flight")
             /\ row[m].status = "pending"
  BY <1>0, <1>4 DEF Takes, Row
<1>5. ASSUME NEW m \in Machine, ForgetMachine(m)
      PROVE  /\ job' = "none" => job = "none"
             /\ \A n \in Machine : row'[n].status \in {row[n].status, "none"}
  BY <1>0, <1>5 DEF ForgetMachine, NoTarget, Row
<1>6. CASE RecordCommand
  <2>1. \A n \in Machine : row'[n].status = row[n].status
    BY <1>0, <1>6 DEF RecordCommand, Row
  <2>. QED  BY <1>6, <2>1 DEF RecordCommand
<1>7. CASE CancelDone
  BY <1>7 DEF CancelDone
<1>. QED
  BY <1>1, <1>2, <1>3, <1>4, <1>5, <1>6, <1>7 DEF RowKinds, Recallable, Touched

\* The image is handed out by the one step that also takes the row out of flight.
LEMMA HandedKept ==
  ASSUME FirmwareTypeOK, NotYetAJob, Handed, RowKinds, [Next]_firmwareVars
  PROVE  Handed'
<1>0. /\ row \in [Machine -> Row] /\ age \in [Machine -> 0..3]
      /\ agent \in [Machine -> [at : Place, command : Command \cup {NoCommand}]]
      /\ post \in [Machine -> {"none", "ok", "refused", "failed"}]
  BY DEF FirmwareTypeOK, Row
<1>1. /\ job' = "none" => job = "none"
      /\ \A m \in Machine : Is(m, Recallable)' => Is(m, Recallable) \/ job = "none"
      /\ \A m \in Machine : Is(m, Touched)' => Is(m, Touched) \/ age'[m] > 0
  BY RowsGoForward
\* Nobody gets further than the machine was.
<1>2. ASSUME UNCHANGED age,
             \A m \in Machine : /\ agent'[m].at \in Fetched => agent[m].at \in Fetched
                                /\ post'[m] # "none" => post[m] # "none" \/ agent[m].at \in Fetched
                                /\ m \in staged' => m \in staged \/ agent[m].at \in Fetched
      PROVE  Handed'
  BY <1>1, <1>2 DEF Handed
<1>3. CASE UNCHANGED <<age, agent, post, staged>>
  BY <1>2, <1>3
<1>4. ASSUME NEW m \in Machine, NEW lost \in BOOLEAN, Fetch(m, lost)  PROVE Handed'
  <2>1. CASE Is(m, {"in_flight"})
    <3>1. /\ age' = [age EXCEPT ![m] = 1] /\ row'[m].status = "flashing"
          /\ \A n \in Machine \ {m} : agent'[n] = agent[n]
          /\ UNCHANGED <<post, staged>>
      BY <1>0, <1>4, <2>1 DEF Fetch, Write, Goes, Is, Row, requests
    <3>2. ~Is(m, Recallable)'
      BY <3>1 DEF Is, Recallable
    <3>3. job' # "none"
      BY <1>1, <2>1 DEF NotYetAJob, Is
    <3>. QED  BY <1>0, <1>1, <3>1, <3>2, <3>3 DEF Handed
  <2>2. CASE ~Is(m, {"in_flight"})
    <3>1. /\ UNCHANGED <<age, post, staged>>
          /\ \A n \in Machine : agent'[n].at \in Fetched => agent[n].at \in Fetched
      BY <1>0, <1>4, <2>2 DEF Fetch, Goes, Fetched, requests
    <3>. QED  BY <1>2, <3>1
  <2>. QED  BY <2>1, <2>2
<1>5. ASSUME NEW m \in Machine, NEW place \in Place, RunFails(m, place)  PROVE Handed'
  BY <1>0, <1>2, <1>5 DEF RunFails, Goes, Fetched, hub, tables, requests
<1>6. ASSUME NEW m \in Machine, RunStages(m)  PROVE Handed'
  BY <1>0, <1>2, <1>6 DEF RunStages, Goes, Fetched, hub, tables, requests
<1>7. ASSUME NEW m \in Machine, NEW lost \in BOOLEAN, Report(m, lost)  PROVE Handed'
  <2>1. \A n \in Machine : agent'[n].at \in Fetched => agent[n].at \in Fetched
    BY <1>0, <1>7 DEF Report, Goes, Fetched
  <2>2. \A n \in Machine : post'[n] # "none" => post[n] # "none" \/ agent[n].at \in Fetched
    BY <1>0, <1>7 DEF Report, Fetched
  <2>. QED  BY <1>2, <1>7, <2>1, <2>2 DEF Report, tables
<1>8. ASSUME NEW m \in Machine,
             \/ Answer(m) \/ AgentDies(m) \/ Boot(m) \/ \E a \in Agent : AgentClaims(a, m)
      PROVE  Handed'
  <2>1. \A n \in Machine : agent'[n].at \in Fetched => agent[n].at \in Fetched
    BY <1>0, <1>8 DEF Answer, AgentDies, Boot, AgentClaims, Fetched
  <2>2. UNCHANGED <<age, post>> /\ staged' \subseteq staged
    BY <1>8 DEF Answer, AgentDies, Boot, AgentClaims, hub, tables, requests
  <2>. QED  BY <1>2, <2>1, <2>2
<1>9. ASSUME NEW m \in Machine, IngestResult(m)  PROVE Handed'
  BY <1>0, <1>2, <1>9 DEF IngestResult, world
<1>10. ASSUME NEW m \in Machine, GrowOld(m)  PROVE Handed'
  <2>1. /\ UNCHANGED <<row, job, agent, post, staged>>
        /\ age[m] > 0 /\ Is(m, Touched)
        /\ \A n \in Machine : age'[n] = IF n = m THEN age[n] + 1 ELSE age[n]
    BY <1>0, <1>10 DEF GrowOld, Handed, world, requests
  <2>2. job # "none" /\ ~Is(m, Recallable)
    BY <2>1 DEF Handed
  <2>. QED  BY <1>0, <2>1, <2>2 DEF Handed, Is
<1>11. ASSUME NEW m \in Machine, ByHand(m) \/ ReportInventory(m) \/ ReportUptime(m) \/ ForgetMachine(m)
      PROVE  Handed'
  BY <1>3, <1>11 DEF ByHand, ReportInventory, ReportUptime, ForgetMachine, hub, tables, requests, world
<1>12. CASE CancelStep \/ Operate
  BY <1>3, <1>12 DEF CancelStep, CancelRecall, CancelClose, CancelDone, CancelRead, Operate, CreateJob,
     CancelJob, CancelTarget, DeletePayload, DeleteMachine, tables, requests, world
<1>13. CASE CloseWindow \/ Sweep \/ PassDies \/ (\E c \in Command : LapseCommand(c)) \/ UNCHANGED firmwareVars
  BY <1>3, <1>13 DEF CloseWindow, Sweep, PassDies, LapseCommand, firmwareVars, hub, tables, requests, world
<1>14. CASE Tick
  <2>1. UNCHANGED <<age, requests, world>>
    BY <1>14 DEF Tick, PassStart, Retired, ConfirmStored, FailUnapplied, ReadOverdue, ReadPending,
       QueueCommand, QueueRefused, RecordCommand, PassOver, Retire, Overdue, DispatchTooLate, NotNow,
       ClaimTarget, tables
  <2>. QED  BY <1>3, <2>1 DEF world, requests
<1>. QED
  BY <1>4, <1>5, <1>6, <1>7, <1>8, <1>9, <1>10, <1>11, <1>12, <1>13, <1>14
  DEF Next, AgentWorks, MachineStep

IInv == FirmwareTypeOK /\ HasSubject /\ SendsOnce /\ CompleteIsOver /\ Dated /\ Handed

\* The inductive invariant holds at the start,
LEMMA FirmwareInitInv == Init => IInv
<1> SUFFICES ASSUME Init  PROVE IInv
  OBVIOUS
<1>1. FirmwareTypeOK
  BY FirmwareInitTyped
<1>2. HasSubject /\ CompleteIsOver /\ Dated /\ Handed
  BY DEF Init, HasSubject, CompleteIsOver, Dated, Handed, Fetched, At, Is, NoPass, NoCancel, NoTarget,
     Touched
<1>3. SendsOnce
  BY DEF Init, QueueInit, SendsOnce, NotYetAJob, PendingIsUnsent, QueuesTheFirst, SentOnce, At, Is,
     NoPass, NoTarget
<1>. QED  BY <1>1, <1>2, <1>3 DEF IInv

\* and every step keeps it.
LEMMA FirmwareStepInv == IInv /\ [Next]_firmwareVars => IInv'
<1> SUFFICES ASSUME IInv, [Next]_firmwareVars  PROVE IInv'
  OBVIOUS
<1>1. RowKinds /\ SendKinds
  BY RowSteps, SendSteps DEF IInv
<1>. QED
  BY <1>1, FirmwareStepTyped, SubjectKept, SendsOnceKept, CompleteKept, DatedKept, HandedKept
     DEF IInv, SendsOnce

\* So it holds in every state the program can reach.
LEMMA FirmwareReachable == Spec => []IInv
BY FirmwareInitInv, FirmwareStepInv, PTL DEF Spec

\* One command at most is aimed at a machine.
LEMMA OneIsCounted == SentOnce => OneShot
<1> SUFFICES ASSUME SentOnce, NEW m \in Machine
             PROVE  Cardinality({c \in Command : machine[c] = m}) <= 1
  BY DEF OneShot
<1> DEFINE Sent == {c \in Command : machine[c] = m}
<1>1. CASE Sent = {}
  BY <1>1, FS_EmptySet
<1>2. ASSUME NEW c \in Sent  PROVE Cardinality(Sent) <= 1
  <2>1. Sent = {c}
    BY DEF SentOnce
  <2>. QED  BY <2>1, FS_Singleton
<1>. QED  BY <1>1, <1>2

(* The tables hold the kinds of values they should; a machine is sent one  *)
(* update command per target whatever is lost, cancelled or swept; and a   *)
(* job that says complete has no target on its way.                        *)
THEOREM FirmwareSafety == Spec => []FirmwareInv
<1>1. IInv => FirmwareInv
  BY OneIsCounted DEF IInv, SendsOnce, FirmwareInv
<1>. QED  BY <1>1, FirmwareReachable, PTL

\* The hub says that a machine was flashed only of one it handed the image, and that runs it.
LEMMA SaidOnEvidence ==
  ASSUME FirmwareTypeOK, Handed, RowKinds, NEW m \in Machine,
         row'[m].status = "applied", row[m].status # "applied"
  PROVE  age[m] > 0 /\ bios[m] = "new"
<1>0. row \in [Machine -> Row]
  BY DEF FirmwareTypeOK, Row
<1>1. CASE WritesSome
  <2>1. bios[m] = "new" /\ Is(m, Touched)
    BY <1>0, <1>1 DEF WritesSome, Write, Row
  <2>. QED  BY <2>1 DEF Handed
<1>2. ASSUME NEW M \in SUBSET Machine, NEW refused \in SUBSET M, CreateJob(M, refused)
      PROVE  FALSE
  BY <1>2 DEF CreateJob, NoTarget
<1>3. ASSUME NEW n \in Machine, Takes(n) \/ ForgetMachine(n)  PROVE FALSE
  BY <1>0, <1>3 DEF Takes, ForgetMachine, NoTarget, Row
<1>4. CASE RecordCommand
  BY <1>0, <1>4 DEF RecordCommand, Row
<1>5. CASE CancelDone
  BY <1>5 DEF CancelDone
<1>. QED  BY <1>1, <1>2, <1>3, <1>4, <1>5 DEF RowKinds

(* A target becomes applied only on a machine that runs the new version.   *)
THEOREM AppliedFlashesAreReal == Spec => AppliedIsReal
<1>1. ASSUME IInv, [Next]_firmwareVars
      PROVE  [\A m \in Machine :
                row'[m].status = "applied" /\ row[m].status # "applied" => bios[m] = "new"]_firmwareVars
  <2> SUFFICES ASSUME NEW m \in Machine, row'[m].status = "applied", row[m].status # "applied"
               PROVE  bios[m] = "new"
    OBVIOUS
  <2>. QED  BY <1>1, RowSteps, SaidOnEvidence DEF IInv
<1>. QED  BY <1>1, FirmwareReachable, PTL DEF Spec, AppliedIsReal

(* The sweep for flashes that came to nothing fails no machine that runs   *)
(* the new version.                                                        *)
THEOREM UnappliedFlashesAreReal == Spec => UnappliedIsReal
<1>1. ASSUME IInv, [Next]_firmwareVars
      PROVE  [\A m \in Machine : FailUnapplied /\ row'[m] # row[m] => bios[m] # "new"]_firmwareVars
  <2> SUFFICES ASSUME NEW m \in Machine, FailUnapplied, row'[m] # row[m]
               PROVE  bios[m] # "new"
    OBVIOUS
  <2>1. row \in [Machine -> Row]
    BY <1>1 DEF IInv, FirmwareTypeOK, Row
  <2>2. report[m] = [version |-> "old", since |-> "boot"]
    BY <2>1 DEF FailUnapplied, Write
  <2>. QED  BY <1>1, <2>2 DEF IInv, Dated
<1>. QED  BY <1>1, FirmwareReachable, PTL DEF Spec, UnappliedIsReal

-------------------------------------------------------------------------------
(* Firmware updates keep the promise of OneFlash: the image leaves the hub *)
(* for a machine in one step, which also takes its row out of flight, and  *)
(* no row gets back in flight.                                             *)

OneFlashStep(m) ==
    \/ Promise!Keep(m) \/ Promise!Hand(m) \/ Promise!Stage(m) \/ Promise!Drop(m) \/ Promise!Flash(m)
    \/ Promise!ByHand(m) \/ Promise!Conclude(m) \/ Promise!Retract(m)

\* How far a machine is, and what is said of it, before and after a step.
LEMMA FlashDef ==
  ASSUME NEW m \in Machine
  PROVE  /\ flashOf[m] = IF age[m] = 0 THEN "waiting"
                         ELSE IF m \in staged THEN "staged"
                         ELSE IF agent[m].at = "running" THEN "handed" ELSE "over"
         /\ flashOf'[m] = IF age'[m] = 0 THEN "waiting"
                          ELSE IF m \in staged' THEN "staged"
                          ELSE IF agent'[m].at = "running" THEN "handed" ELSE "over"
         /\ saidOf[m] = (row[m].status = "applied")
         /\ saidOf'[m] = (row'[m].status = "applied")
BY DEF flashOf, saidOf, Is

\* A step that leaves the machine where it is at most changes what is said of it.
LEMMA QuietSteps ==
  ASSUME FirmwareTypeOK, Handed, RowKinds, NEW m \in Machine,
         flashOf'[m] = flashOf[m], bios'[m] = bios[m]
  PROVE  OneFlashStep(m)
<1>0. /\ saidOf[m] = (row[m].status = "applied") /\ saidOf'[m] = (row'[m].status = "applied")
      /\ age[m] \in 0..3
  BY FlashDef DEF FirmwareTypeOK
<1>1. CASE saidOf'[m] = saidOf[m]
  BY <1>1 DEF OneFlashStep, Promise!Keep
<1>2. CASE ~saidOf'[m]
  BY <1>2 DEF OneFlashStep, Promise!Retract
<1>3. CASE saidOf'[m] /\ saidOf'[m] # saidOf[m]
  <2>1. age[m] > 0 /\ bios[m] = "new"
    BY <1>0, <1>3, SaidOnEvidence
  <2>2. flashOf[m] # "waiting"
    BY <1>0, <2>1, FlashDef
  <2>. QED  BY <1>3, <2>1, <2>2 DEF OneFlashStep, Promise!Conclude
<1>. QED  BY <1>1, <1>2, <1>3

\* What happens to a machine in one step is one of the promise's actions, or nothing.
LEMMA FlashSteps ==
  ASSUME FirmwareTypeOK, Handed, RowKinds, [Next]_firmwareVars, NEW m \in Machine
  PROVE  OneFlashStep(m)
<1>0. /\ row \in [Machine -> Row] /\ age \in [Machine -> 0..3] /\ bios \in [Machine -> Version]
      /\ agent \in [Machine -> [at : Place, command : Command \cup {NoCommand}]]
  BY DEF FirmwareTypeOK, Row
<1>1. ASSUME age'[m] = age[m], agent'[m].at = "running" <=> agent[m].at = "running",
             m \in staged' <=> m \in staged, bios'[m] = bios[m]
      PROVE  OneFlashStep(m)
  BY <1>1, FlashDef, QuietSteps
<1>2. CASE UNCHANGED <<age, agent, staged, bios>>
  BY <1>1, <1>2
<1>3. ASSUME NEW n \in Machine, NEW lost \in BOOLEAN, Fetch(n, lost)  PROVE OneFlashStep(m)
  <2>1. CASE n # m \/ ~Is(n, {"in_flight"})
    <3>1. /\ age'[m] = age[m] /\ UNCHANGED <<staged, bios>>
          /\ agent'[m].at = "running" <=> agent[m].at = "running"
      BY <1>0, <1>3, <2>1 DEF Fetch, Goes
    <3>. QED  BY <1>1, <3>1
  <2>2. CASE n = m /\ Is(m, {"in_flight"})
    <3>1. age[m] = 0 /\ m \notin staged
      BY <1>0, <2>2 DEF Handed, Is, Recallable
    <3>2. /\ age'[m] = 1 /\ UNCHANGED <<staged, bios>>
          /\ row[m].status = "in_flight" /\ row'[m].status = "flashing"
      BY <1>0, <1>3, <2>2 DEF Fetch, Write, Is, Row
    <3>3. flashOf[m] = "waiting" /\ flashOf'[m] \in {"handed", "over"} /\ saidOf'[m] = saidOf[m]
      BY <3>1, <3>2, FlashDef
    <3>. QED  BY <3>2, <3>3 DEF OneFlashStep, Promise!Hand, Promise!Move, Promise!Runs, Promise!Says
  <2>. QED  BY <2>1, <2>2
<1>4. ASSUME NEW n \in Machine, RunStages(n)  PROVE OneFlashStep(m)
  <2>1. UNCHANGED <<age, bios, row>> /\ agent[n].at = "running" /\ staged' = staged \cup {n}
        /\ \A k \in Machine \ {n} : agent'[k] = agent[k]
    BY <1>0, <1>4 DEF RunStages, Goes, hub, tables
  <2>2. age[n] > 0
    BY <2>1 DEF Handed, Fetched
  <2>3. CASE n # m
    BY <1>1, <2>1, <2>3
  <2>4. CASE n = m /\ m \in staged
    BY <2>1, <2>2, <2>4, FlashDef, QuietSteps
  <2>5. CASE n = m /\ m \notin staged
    <3>1. flashOf[m] = "handed" /\ flashOf'[m] = "staged" /\ saidOf'[m] = saidOf[m]
      BY <1>0, <2>1, <2>2, <2>5, FlashDef
    <3>. QED  BY <2>1, <3>1 DEF OneFlashStep, Promise!Stage, Promise!Move, Promise!Runs, Promise!Says
  <2>. QED  BY <2>3, <2>4, <2>5
\* The agent stops without staging anything.
<1>5. ASSUME NEW n \in Machine, UNCHANGED <<age, bios, row, staged>>, agent[n].at = "running",
             agent'[n].at # "running", \A k \in Machine \ {n} : agent'[k] = agent[k]
      PROVE  OneFlashStep(m)
  <2>1. age[n] > 0
    BY <1>5 DEF Handed, Fetched
  <2>2. CASE n # m
    BY <1>1, <1>5, <2>2
  <2>3. CASE n = m /\ m \in staged
    BY <1>5, <2>1, <2>3, FlashDef, QuietSteps
  <2>4. CASE n = m /\ m \notin staged
    <3>1. flashOf[m] = "handed" /\ flashOf'[m] = "over" /\ saidOf'[m] = saidOf[m]
      BY <1>0, <1>5, <2>1, <2>4, FlashDef
    <3>. QED  BY <1>5, <3>1 DEF OneFlashStep, Promise!Drop, Promise!Move, Promise!Runs, Promise!Says
  <2>. QED  BY <2>2, <2>3, <2>4
<1>6. ASSUME NEW n \in Machine, NEW place \in Place, RunFails(n, place)  PROVE OneFlashStep(m)
  <2>1. /\ UNCHANGED <<age, bios, row, staged>> /\ agent[n].at = "running" /\ agent'[n].at # "running"
        /\ \A k \in Machine \ {n} : agent'[k] = agent[k]
    BY <1>0, <1>6 DEF RunFails, Goes, hub, tables
  <2>. QED  BY <1>5, <2>1
<1>7. ASSUME NEW n \in Machine, AgentDies(n)  PROVE OneFlashStep(m)
  <2>1. /\ UNCHANGED <<age, bios, row, staged>> /\ agent'[n].at = "none"
        /\ \A k \in Machine \ {n} : agent'[k] = agent[k]
    BY <1>0, <1>7 DEF AgentDies, hub, tables
  <2>2. CASE agent[n].at = "running"
    BY <1>5, <2>1, <2>2
  <2>3. CASE agent[n].at # "running"
    BY <1>1, <2>1, <2>3
  <2>. QED  BY <2>2, <2>3
<1>8. ASSUME NEW n \in Machine,
             \/ \E lost \in BOOLEAN : Report(n, lost)
             \/ Answer(n) \/ \E a \in Agent : AgentClaims(a, n)
      PROVE  OneFlashStep(m)
  <2>1. UNCHANGED <<age, staged, bios>>
    BY <1>8 DEF Report, Answer, AgentClaims, hub, tables
  <2>2. agent'[m].at = "running" <=> agent[m].at = "running"
    <3>1. ASSUME NEW lost \in BOOLEAN, Report(n, lost)
          PROVE  agent'[m].at = "running" <=> agent[m].at = "running"
      BY <1>0, <3>1 DEF Report, Goes
    <3>2. CASE Answer(n)
      BY <1>0, <3>2 DEF Answer
    <3>3. ASSUME NEW a \in Agent, AgentClaims(a, n)
          PROVE  agent'[m].at = "running" <=> agent[m].at = "running"
      BY <1>0, <3>3 DEF AgentClaims
    <3>. QED  BY <1>8, <3>1, <3>2, <3>3
  <2>. QED  BY <1>1, <2>1, <2>2
<1>9. ASSUME NEW n \in Machine, Boot(n)  PROVE OneFlashStep(m)
  <2>1. /\ UNCHANGED <<age, row>> /\ age[n] > 0 /\ staged' = staged \ {n} /\ agent'[n].at = "none"
        /\ \A k \in Machine \ {n} : agent'[k] = agent[k] /\ bios'[k] = bios[k]
        /\ n \notin staged => UNCHANGED bios
    BY <1>0, <1>9 DEF Boot, hub, tables
  <2>2. CASE n # m
    BY <1>1, <2>1, <2>2
  <2>3. CASE n = m /\ m \in staged
    <3>1. flashOf[m] = "staged" /\ flashOf'[m] = "over" /\ saidOf'[m] = saidOf[m]
      BY <1>0, <2>1, <2>3, FlashDef
    <3>. QED  BY <3>1 DEF OneFlashStep, Promise!Flash, Promise!Move, Promise!Says
  <2>4. CASE n = m /\ m \notin staged
    <3>1. CASE agent[m].at = "running"
      BY <1>5, <2>1, <2>4, <3>1
    <3>2. CASE agent[m].at # "running"
      BY <1>1, <2>1, <2>4, <3>2
    <3>. QED  BY <3>1, <3>2
  <2>. QED  BY <2>2, <2>3, <2>4
<1>10. ASSUME NEW n \in Machine, ByHand(n)  PROVE OneFlashStep(m)
  <2>1. /\ UNCHANGED <<age, row, staged, agent>> /\ age[n] = 0
        /\ \A k \in Machine \ {n} : bios'[k] = bios[k]
    BY <1>0, <1>10 DEF ByHand, hub, tables
  <2>2. CASE n # m
    BY <1>1, <2>1, <2>2
  <2>3. CASE n = m
    <3>1. flashOf[m] = "waiting" /\ flashOf'[m] = "waiting" /\ saidOf'[m] = saidOf[m]
      BY <2>1, <2>3, FlashDef
    <3>. QED  BY <3>1 DEF OneFlashStep, Promise!ByHand, Promise!Move, Promise!Says
  <2>. QED  BY <2>2, <2>3
<1>11. ASSUME NEW n \in Machine, GrowOld(n)  PROVE OneFlashStep(m)
  <2>1. UNCHANGED <<agent, staged, bios>> /\ age[n] > 0
        /\ \A k \in Machine : age'[k] = IF k = n THEN age[k] + 1 ELSE age[k]
    BY <1>0, <1>11 DEF GrowOld, Handed, world
  <2>. QED  BY <1>0, <2>1, FlashDef, QuietSteps
<1>12. ASSUME NEW n \in Machine,
              IngestResult(n) \/ ReportInventory(n) \/ ReportUptime(n) \/ ForgetMachine(n)
       PROVE  OneFlashStep(m)
  BY <1>2, <1>12 DEF IngestResult, ReportInventory, ReportUptime, ForgetMachine, hub, tables, world
<1>13. CASE CancelStep \/ Operate
  BY <1>2, <1>13 DEF CancelStep, CancelRecall, CancelClose, CancelDone, CancelRead, Operate, CreateJob,
     CancelJob, CancelTarget, DeletePayload, DeleteMachine, tables, world
<1>14. CASE CloseWindow \/ Sweep \/ PassDies \/ (\E c \in Command : LapseCommand(c)) \/ UNCHANGED firmwareVars
  BY <1>2, <1>14 DEF CloseWindow, Sweep, PassDies, LapseCommand, firmwareVars, hub, tables, world
<1>15. CASE Tick
  <2>1. UNCHANGED <<age, world>>
    BY <1>15 DEF Tick, PassStart, Retired, ConfirmStored, FailUnapplied, ReadOverdue, ReadPending,
       QueueCommand, QueueRefused, RecordCommand, PassOver, Retire, Overdue, DispatchTooLate, NotNow,
       ClaimTarget, tables
  <2>. QED  BY <1>2, <2>1 DEF world
<1>. QED
  BY <1>3, <1>4, <1>6, <1>7, <1>8, <1>9, <1>10, <1>11, <1>12, <1>13, <1>14, <1>15
  DEF Next, AgentWorks, MachineStep

(* No machine is handed the image twice, or flashed twice, or by a boot    *)
(* that had nothing staged, and none is said to be flashed that does not   *)
(* run the new version, for any number of machines, passes, cancels, lost  *)
(* replies and late reports.                                               *)
THEOREM OneFlashEach == Spec => ImplementsOneFlash
<1>1. Init => Promise!Init
  <2> SUFFICES ASSUME Init  PROVE Promise!Init
    OBVIOUS
  <2>1. flashOf = [m \in Machine |-> "waiting"]
    BY DEF Init, flashOf
  <2>2. saidOf = [m \in Machine |-> FALSE]
    <3>1. \A m \in Machine : Is(m, {"applied"}) = FALSE
      BY DEF Init, Is, NoTarget
    <3>. QED  BY <3>1 DEF saidOf
  <2>. QED  BY <2>1, <2>2 DEF Init, Promise!Init
<1>2. IInv /\ [Next]_firmwareVars => [Promise!Next]_Promise!vars
  <2> SUFFICES ASSUME IInv, [Next]_firmwareVars  PROVE Promise!Next
    OBVIOUS
  <2>1. RowKinds
    BY RowSteps DEF IInv
  <2>2. \A m \in Machine : OneFlashStep(m)
    BY <2>1, FlashSteps DEF IInv
  <2>. QED  BY <2>2 DEF OneFlashStep, Promise!Next
<1>. QED  BY <1>1, <1>2, FirmwareReachable, PTL DEF Spec, ImplementsOneFlash, Promise!Spec

-------------------------------------------------------------------------------
(* File backups.                                                           *)

USE BackupAssumption

-------------------------------------------------------------------------------
(* What holds whatever passes and reports do at once: the rows and the     *)
(* lists name runs that exist.                                             *)

Going(p) == {e.row : e \in posts[p].doomed} \cup (IF posts[p].pc = "drop" THEN {posts[p].row} ELSE {})
RowOf(s) == /\ s.id \in 1..recorded /\ s.run \in DOMAIN runs
            /\ s.chain = runs[s.run].chain /\ s.seq = runs[s.run].seq

ManifestRows ==
    /\ IsFiniteSet(fileSets)
    /\ \A s \in fileSets : RowOf(s)
    /\ \A s, o \in fileSets : s.id = o.id => s = o

DyingRows == \A p \in Post :
    /\ posts[p].pc \notin {"delete", "drop"} => posts[p].doomed = {}
    /\ posts[p].pc = "drop" => posts[p].row \in FileSet
    /\ \A x \in Going(p) : RowOf(x) /\ \A s \in fileSets : s.id = x.id => s = x

RunsAreKnown ==
    /\ \A r \in DOMAIN runs : runs[r].seq < r /\ runs[r].chain <= r
    /\ \A t \in Thread :
           /\ threads[t].pc = "expire" => threads[t].stale \subseteq DOMAIN runs
           /\ threads[t].pc = "start" => threads[t].seq <= Len(runs) /\ threads[t].chain <= Len(runs)
           /\ threads[t].pc \in {"queue", "attach"} => threads[t].run \in DOMAIN runs
    /\ \A p \in Post : posts[p].pc # "idle" => posts[p].run \in DOMAIN runs
    /\ cancelling.pc # "idle" => cancelling.run \in DOMAIN runs
    /\ \A r \in RunId : tasks[r].pc # "none" => r \in DOMAIN runs
    /\ \A c \in Command : orders[c] # 0 => orders[c] \in DOMAIN runs

BaseInv == BackupTypeOK /\ ManifestRows /\ DyingRows /\ RunsAreKnown

-------------------------------------------------------------------------------
(* What holds as long as passes and reports come one after the other.      *)

Leads(c) == \E s \in SetsOf(c) : \A o \in fileSets : o.id <= s.id
Tops(c, n) == (\A s \in SetsOf(c) : s.seq <= n) /\ \E s \in SetsOf(c) : s.seq = n
IsListed(r) == \E s \in fileSets : s.run = r

(* One pass, one run.                                                      *)
OnePass == \A t, u \in Thread : threads[t].pc \in Dispatching /\ threads[u].pc \in Dispatching => t = u
Clear == \A t \in Thread : threads[t].pc \in {"plan", "start"} => Running = {}
OneRun == \A q, r \in Running : q = r

(* What is planned, or under way and not listed, starts a chain or goes on *)
(* where the newest ends.                                                  *)
FreshChain(r) == /\ \A s \in fileSets : s.chain # r
                 /\ \A p \in Post : \A x \in Going(p) : x.chain # r
PlansHold ==
    /\ \A t \in Thread : threads[t].pc = "start" =>
           \/ threads[t].chain = 0 /\ threads[t].seq = 0
           \/ threads[t].seq > 0 /\ Leads(threads[t].chain) /\ Tops(threads[t].chain, threads[t].seq - 1)
    /\ \A r \in Running : ~IsListed(r) =>
           \/ runs[r].seq = 0 /\ runs[r].chain = r /\ FreshChain(r)
           \/ runs[r].seq > 0 /\ Leads(runs[r].chain) /\ Tops(runs[r].chain, runs[r].seq - 1)
    /\ \A s \in fileSets : s.run \in Running => s.id = recorded

(* The chains: whole, in the order of the inserts, one of them the newest. *)
ChainsInOrder ==
    /\ ListedOnce
    /\ \A s, o \in fileSets : s.chain = o.chain /\ s.seq <= o.seq => s.id <= o.id
    /\ \A s \in fileSets : \A n \in 0..s.seq : \E o \in SetsOf(s.chain) : o.seq = n
    /\ recorded > 0 => \E c \in Listed : Leads(c)

(* What goes is doomed, and from the top.                                  *)
GoesFromTheTop == \A p \in Post :
    /\ \A x \in Going(p) : x.run \notin Running /\ (x.chain \in Listed => x.chain \in Doomed)
    /\ \A e \in posts[p].doomed : \A s \in SetsOf(e.row.chain) : s.seq > e.row.seq =>
           \/ [order |-> e.order, row |-> s] \in posts[p].doomed
           \/ posts[p].pc = "drop" /\ posts[p].row = s
    /\ posts[p].pc = "drop" => \A s \in SetsOf(posts[p].row.chain) : s.seq <= posts[p].row.seq

ManifestInv == OnePass /\ Clear /\ OneRun /\ PlansHold /\ ChainsInOrder /\ GoesFromTheTop

-------------------------------------------------------------------------------
(* A command is executed once, and reports come after the upload.          *)
Selected == {"packed", "relaying", "report", "waiting"}
Sent == {"report", "waiting", "done"}
Asks(p) == posts[p].pc # "idle"
TasksLead ==
    /\ \A c, d \in Command : orders[c] # 0 /\ orders[c] = orders[d] => c = d
    /\ \A c \in Command : status[c] = "unissued" => orders[c] = 0
    /\ \A c \in Command : status[c] = "pending" /\ orders[c] # 0 => tasks[orders[c]].pc = "none"
    /\ \A t \in Thread : threads[t].pc = "queue" =>
           tasks[threads[t].run].pc = "none" /\ \A c \in Command : orders[c] # threads[t].run
    /\ \A r \in RunId : tasks[r].pc \notin Sent =>
           ~IsListed(r) /\ \A p \in Post : Asks(p) => posts[p].run # r
    /\ \A r \in DOMAIN runs : runs[r].status = "succeeded" => tasks[r].pc \in Sent
    /\ \A r \in RunId : tasks[r].pc \in {"none", "ready"} => tasks[r].packs = Nothing

(* What is reported as done is stored, until it is listed or cancelled.    *)
Stored(r, v) == SharesItsKey(r) \/ [key |-> KeyOf(r), holds |-> v] \in store
SaysDone(r) == \/ tasks[r].pc \in {"report", "waiting"} /\ tasks[r].ok
               \/ \E p \in Post : Asks(p) /\ posts[p].run = r /\ posts[p].ok
ReportsAreTrue ==
    /\ \A r \in Running : SaysDone(r) => Stored(r, tasks[r].packs)
    /\ \A p \in Post :
           /\ posts[p].pc \in {"base", "insert"} => posts[p].ok
           /\ posts[p].pc \in {"base", "insert", "fail", "finish"} => runs[posts[p].run].status # "cancelled"
           /\ posts[p].pc = "discard" => runs[posts[p].run].status = "cancelled"

StoreInv == TasksLead /\ ReportsAreTrue /\ KeptIsStored

-------------------------------------------------------------------------------
(* A chain that is going, or gone for good.                                *)
Passed(c) == c \in Doomed \/ (c \notin Listed /\ c \in DOMAIN runs /\ \A r \in Running : runs[r].chain # c)
Covered(c, v) == c \in unlisted \/ Passed(c) \/ \E s \in SetsOf(c) : s.lists >= v

VersionsGrow ==
    /\ \A s \in fileSets : s.lists <= file
    /\ \A s, o \in fileSets : s.chain = o.chain /\ o.lists # Nothing /\ s.id <= o.id => s.lists <= o.lists
    /\ \A r \in RunId : tasks[r].pc \in Selected =>
           tasks[r].packs \in {Nothing, tasks[r].seen} /\ tasks[r].seen <= file
    /\ \A r \in RunId : tasks[r].packs <= file
    /\ \A r \in Running : tasks[r].packs # Nothing /\ ~IsListed(r) =>
           \A s \in SetsOf(runs[r].chain) : s.lists <= tasks[r].packs

CacheIsCovered ==
    /\ cache.version <= file
    /\ cache.chain # 0 => cache.chain \in DOMAIN runs /\ Covered(cache.chain, cache.version)
    /\ \A r \in Running : tasks[r].pc \in Selected /\ tasks[r].packs = Nothing =>
           Covered(runs[r].chain, tasks[r].seen)
    /\ \A r \in DOMAIN runs :
           /\ runs[r].status = "succeeded" \/ \E p \in Post : posts[p].pc = "finish" /\ posts[p].run = r
           /\ tasks[r].pc \in {"report", "waiting"} /\ tasks[r].ok
           => Covered(runs[r].chain, tasks[r].seen)

CacheInv == VersionsGrow /\ CacheIsCovered

UpInv == BaseInv /\ (overlapped \/ (ManifestInv /\ StoreInv /\ CacheInv))

-------------------------------------------------------------------------------
(* Sets of numbers have a least and a greatest element.                    *)

\* A set of numbers has a least element.
LEMMA LeastOfMany ==
  ASSUME NEW T \in SUBSET Nat, T # {}
  PROVE  \E m \in T : \A k \in T : m <= k
<1> DEFINE R == {ss \in Nat \X Nat : ss[1] < ss[2]}
<1>1. IsWellFoundedOn(R, Nat)
  BY NatLessThanWellFounded DEF OpToRel
<1> HIDE DEF R
<1>2. PICK x \in T : \A y \in T : ~(<<y, x>> \in R)
  BY <1>1, WFMin
<1>3. \A y \in T : ~(y < x)
  BY <1>2 DEF R
<1> QED
  BY <1>3

\* A set of numbers below a bound has a greatest element, which Highest picks.
LEMMA HighestIs ==
  ASSUME NEW S \in SUBSET Nat, S # {}, NEW n \in Nat, \A k \in S : k <= n
  PROVE  Highest(S) \in S /\ \A k \in S : k <= Highest(S)
<1> DEFINE T == {j \in Nat : \E k \in S : j = n - k}
<1>1. T # {}
  <2>1. PICK k \in S : TRUE
    OBVIOUS
  <2>2. n - k \in Nat
    OBVIOUS
  <2> QED
    BY <2>2
<1>2. PICK m \in T : \A j \in T : m <= j
  BY <1>1, LeastOfMany
<1>3. PICK h \in S : m = n - h
  OBVIOUS
<1>4. \A k \in S : k <= h
  <2> TAKE k \in S
  <2>1. n - k \in T
    OBVIOUS
  <2>2. n - h <= n - k
    BY <1>2, <1>3, <2>1
  <2> QED
    BY <2>2
<1> QED
  BY <1>4 DEF Highest

-------------------------------------------------------------------------------
(* Chains of a manifest, and which of them are beyond the newest ones.     *)

Manifest(S, n) ==
    /\ IsFiniteSet(S) /\ n \in Nat
    /\ \A s \in S : s.id \in 1..n /\ s.seq \in Nat
    /\ \A s, o \in S : s.id = o.id => s = o
Chains(S) == {s.chain : s \in S}
OfChain(S, c) == {s \in S : s.chain = c}
LastIn(S, c) == Highest({s.id : s \in OfChain(S, c)})
Newer(S, d, c) == \E s \in OfChain(S, d) : \A o \in OfChain(S, c) : o.id < s.id
Ahead(S, c) == {d \in Chains(S) : Newer(S, d, c)}
Beyond(S) == {c \in Chains(S) : Cardinality(Ahead(S, c)) >= KeepChains}

\* The last archive of a chain is one of its archives, and the last.
LEMMA LastIsListed ==
  ASSUME NEW S, NEW n, Manifest(S, n), NEW c \in Chains(S)
  PROVE  /\ LastIn(S, c) \in Nat
         /\ \E s \in OfChain(S, c) : s.id = LastIn(S, c)
         /\ \A s \in OfChain(S, c) : s.id <= LastIn(S, c)
<1> DEFINE I == {s.id : s \in OfChain(S, c)}
<1>1. I \in SUBSET Nat /\ \A k \in I : k <= n
  BY DEF Manifest, OfChain
<1>2. I # {}
  BY DEF Chains, OfChain
<1>3. n \in Nat
  BY DEF Manifest
<1>4. Highest(I) \in I /\ \A k \in I : k <= Highest(I)
  BY <1>1, <1>2, <1>3, HighestIs
<1> QED
  BY <1>1, <1>4 DEF LastIn

\* A chain is newer if it has an archive after all of the other's.
LEMMA NewerByTheLast ==
  ASSUME NEW S, NEW n, Manifest(S, n), NEW c \in Chains(S), NEW d \in Chains(S)
  PROVE  LastIn(S, d) > LastIn(S, c) <=> Newer(S, d, c)
<1>1. /\ LastIn(S, c) \in Nat /\ LastIn(S, d) \in Nat
      /\ \E s \in OfChain(S, c) : s.id = LastIn(S, c)
      /\ \A s \in OfChain(S, c) : s.id <= LastIn(S, c)
      /\ \E s \in OfChain(S, d) : s.id = LastIn(S, d)
      /\ \A s \in OfChain(S, d) : s.id <= LastIn(S, d)
  BY LastIsListed
<1>2. \A s \in OfChain(S, c) \cup OfChain(S, d) : s.id \in Nat
  BY DEF OfChain, Manifest
<1> QED
  BY <1>1, <1>2 DEF Newer

\* Manifests are finite, and so are their sets of chains.
LEMMA ChainsAreFinite ==
  ASSUME NEW S, NEW n, Manifest(S, n)
  PROVE  IsFiniteSet(Chains(S)) /\ \A c : IsFiniteSet(Ahead(S, c))
<1>1. IsFiniteSet(S)
  BY DEF Manifest
<1> DEFINE f == [s \in S |-> s.chain]
<1>2. f \in Surjection(S, Chains(S))
  BY DEF Surjection, Chains
<1>3. IsFiniteSet(Chains(S))
  BY <1>1, <1>2, FS_Surjection
<1>4. \A c : Ahead(S, c) \in SUBSET Chains(S)
  BY DEF Ahead
<1> QED
  BY <1>3, <1>4, FS_Subset

\* More chains ahead of a doomed one leave it doomed.
LEMMA MoreAhead ==
  ASSUME NEW S, NEW T, NEW n, NEW m, Manifest(S, n), Manifest(T, m), NEW b \in Beyond(S), NEW c \in Chains(T),
         Ahead(S, b) \subseteq Ahead(T, c)
  PROVE  c \in Beyond(T)
<1>1. IsFiniteSet(Ahead(T, c)) /\ IsFiniteSet(Ahead(S, b))
  BY ChainsAreFinite
<1>2. Cardinality(Ahead(S, b)) <= Cardinality(Ahead(T, c))
  BY <1>1, FS_Subset
<1>3. Cardinality(Ahead(S, b)) \in Nat /\ Cardinality(Ahead(T, c)) \in Nat
  BY <1>1, FS_CardinalityType
<1>4. Cardinality(Ahead(S, b)) >= KeepChains
  BY DEF Beyond
<1> QED
  BY <1>2, <1>3, <1>4 DEF Beyond

\* An archive listed in another chain dooms no fewer.
LEMMA ListingKeepsBeyond ==
  ASSUME NEW S, NEW T, NEW n, NEW m, Manifest(S, n), Manifest(T, m), NEW x, T = S \cup {x},
         \A s \in S : s.id < x.id, NEW c \in Beyond(S), c # x.chain
  PROVE  c \in Beyond(T)
<1>1. c \in Chains(S) /\ c \in Chains(T) /\ OfChain(T, c) = OfChain(S, c)
  BY DEF Beyond, Chains, OfChain
<1>2. Ahead(S, c) \subseteq Ahead(T, c)
  BY <1>1 DEF Ahead, Chains, Newer, OfChain
<1> QED
  BY <1>1, <1>2, MoreAhead

\* An archive dropped from a doomed chain dooms no fewer of those that stay.
LEMMA DroppingKeepsBeyond ==
  ASSUME NEW S, NEW T, NEW n, Manifest(S, n), Manifest(T, n), NEW y, T \subseteq S,
         \A s \in S : s \notin T => s.chain = y, y \in Beyond(S),
         NEW c \in Beyond(S), c \in Chains(T)
  PROVE  c \in Beyond(T)
<1>1. \A d : OfChain(T, d) \subseteq OfChain(S, d) /\ (d # y => OfChain(T, d) = OfChain(S, d))
  BY DEF OfChain
<1>2. \A d \in Ahead(S, c) : d # y => d \in Ahead(T, c)
  <2> SUFFICES ASSUME NEW d \in Ahead(S, c), d # y PROVE d \in Ahead(T, c)
    OBVIOUS
  <2>1. d \in Chains(S) /\ Newer(S, d, c)
    BY DEF Ahead
  <2>2. Newer(T, d, c) 
    BY <1>1, <2>1 DEF Newer
  <2>3. d \in Chains(T)
    BY <2>2 DEF Newer, Chains, OfChain
  <2> QED
    BY <2>2, <2>3 DEF Ahead
<1>3. CASE y \notin Ahead(S, c)
  BY <1>2, <1>3, MoreAhead
<1>4. CASE y \in Ahead(S, c)
  <2>0. \A s \in S : s.id \in Nat
    BY DEF Manifest
  <2>1. PICK t \in OfChain(S, y) : \A o \in OfChain(S, c) : o.id < t.id
    BY <1>4 DEF Ahead, Newer
  <2>2. \A d \in Ahead(S, y) : d \in Ahead(S, c) /\ d # y
    <3> SUFFICES ASSUME NEW d \in Ahead(S, y) PROVE d \in Ahead(S, c) /\ d # y
      OBVIOUS
    <3>1. PICK u \in OfChain(S, d) : \A o \in OfChain(S, y) : o.id < u.id
      BY DEF Ahead, Newer
    <3>2. t.id < u.id /\ t.id \in Nat /\ u.id \in Nat /\ \A o \in OfChain(S, c) : o.id \in Nat
      BY <2>0, <2>1, <3>1 DEF OfChain
    <3>3. \A o \in OfChain(S, c) : o.id < u.id
      BY <2>1, <3>2
    <3>4. d # y
      BY <3>1, <3>2
    <3> QED
      BY <3>1, <3>3, <3>4 DEF Ahead, Newer
  <2>3. Ahead(S, y) \subseteq Ahead(T, c)
    BY <1>2, <2>2
  <2> QED
    BY <2>3, MoreAhead
<1> QED
  BY <1>3, <1>4

\* The chain with the last archive of all is among the newest.
LEMMA LeaderIsNotBeyond ==
  ASSUME NEW S, NEW n, Manifest(S, n), NEW c, \E s \in OfChain(S, c) : \A o \in S : o.id <= s.id
  PROVE  c \notin Beyond(S)
<1>1. \A s \in S : s.id \in Nat
  BY DEF Manifest
<1>2. Ahead(S, c) = {}
  BY <1>1 DEF Ahead, Newer, OfChain
<1>3. Cardinality(Ahead(S, c)) = 0
  BY <1>2, FS_EmptySet
<1> QED
  BY <1>3 DEF Beyond

\* The model's chains beyond the newest are those.
LEMMA BeyondByTheLast ==
  ASSUME NEW S, NEW n, Manifest(S, n)
  PROVE  Beyond(S) = {c \in Chains(S) :
             Cardinality({d \in Chains(S) : LastIn(S, d) > LastIn(S, c)}) >= KeepChains}
<1>1. \A c \in Chains(S) : Ahead(S, c) = {d \in Chains(S) : LastIn(S, d) > LastIn(S, c)}
  BY NewerByTheLast DEF Ahead
<1> QED
  BY <1>1 DEF Beyond

LEMMA DoomedIsBeyond ==
  ASSUME Manifest(fileSets, recorded)
  PROVE  Doomed = Beyond(fileSets)
<1>1. Doomed = {c \in Chains(fileSets) :
         Cardinality({d \in Chains(fileSets) : LastIn(fileSets, d) > LastIn(fileSets, c)}) >= KeepChains}
  BY DEF Doomed, Listed, LastOf, SetsOf, Chains, LastIn, OfChain
<1> QED
  BY <1>1, BeyondByTheLast

LEMMA DoomedIsBeyondNext ==
  ASSUME Manifest(fileSets', recorded')
  PROVE  Doomed' = Beyond(fileSets')
<1>1. Doomed' = {c \in Chains(fileSets') :
         Cardinality({d \in Chains(fileSets') : LastIn(fileSets', d) > LastIn(fileSets', c)}) >= KeepChains}
  BY DEF Doomed, Listed, LastOf, SetsOf, Chains, LastIn, OfChain
<1> QED
  BY <1>1, BeyondByTheLast

LEMMA ManifestIs ==
  /\ BackupTypeOK /\ ManifestRows => Manifest(fileSets, recorded)
  /\ BackupTypeOK' /\ ManifestRows' => Manifest(fileSets', recorded')
BY DEF BackupTypeOK, ManifestRows, Manifest, RowOf, FileSet

\* The chain that the next pass looks at is the one with the last archive.
LEMMA NewestLeads ==
  ASSUME BackupTypeOK, ManifestRows, Listed # {}
  PROVE  /\ Newest \in Listed /\ Leads(Newest) /\ Newest \notin Doomed
         /\ \A n \in Nat : (\A s \in SetsOf(Newest) : s.seq <= n) =>
                /\ Highest({s.seq : s \in SetsOf(Newest)}) \in 0..n
                /\ Tops(Newest, Highest({s.seq : s \in SetsOf(Newest)}))
<1>0. Manifest(fileSets, recorded)
  BY ManifestIs
<1>1. {s.id : s \in fileSets} \in SUBSET Nat /\ {s.id : s \in fileSets} # {}
      /\ \A k \in {s.id : s \in fileSets} : k <= recorded
  BY <1>0 DEF Manifest, Listed
<1>2. recorded \in Nat
  BY DEF BackupTypeOK
<1>3. PICK s \in fileSets : \A o \in fileSets : o.id <= s.id
  BY <1>1, <1>2, HighestIs
<1>4. /\ \A c \in Listed : /\ LastOf(c) \in Nat /\ \E x \in SetsOf(c) : x.id = LastOf(c)
                           /\ \A x \in SetsOf(c) : x.id <= LastOf(c)
  <2> SUFFICES ASSUME NEW c \in Listed
               PROVE  /\ LastOf(c) \in Nat /\ \E x \in SetsOf(c) : x.id = LastOf(c)
                      /\ \A x \in SetsOf(c) : x.id <= LastOf(c)
    OBVIOUS
  <2>1. c \in Chains(fileSets)
    BY DEF Listed, Chains
  <2>2. LastOf(c) = LastIn(fileSets, c) /\ SetsOf(c) = OfChain(fileSets, c)
    BY DEF LastOf, LastIn, SetsOf, OfChain
  <2> QED
    BY <1>0, <2>1, <2>2, LastIsListed
<1>5. s.chain \in Listed /\ \A d \in Listed : LastOf(d) <= LastOf(s.chain)
  <2> SUFFICES ASSUME NEW d \in Listed PROVE LastOf(d) <= LastOf(s.chain)
    BY DEF Listed
  <2>1. PICK x \in SetsOf(d) : x.id = LastOf(d)
    BY <1>4
  <2>2. x.id <= s.id /\ s.id <= LastOf(s.chain) /\ s.id \in Nat /\ x.id \in Nat
    BY <1>0, <1>3, <1>4 DEF SetsOf, Listed, Manifest
  <2>3. s.chain \in Listed /\ LastOf(s.chain) \in Nat
    BY <1>4 DEF Listed
  <2> QED
    BY <2>1, <2>2, <2>3
<1>6. Newest \in Listed /\ \A d \in Listed : LastOf(d) <= LastOf(Newest)
  BY <1>5 DEF Newest
<1>7. Leads(Newest)
  <2>1. PICK x \in SetsOf(Newest) : x.id = LastOf(Newest)
    BY <1>4, <1>6
  <2>2. \A o \in fileSets : o.id <= x.id
    <3> TAKE o \in fileSets
    <3>1. o.chain \in Listed /\ o \in SetsOf(o.chain)
      BY DEF Listed, SetsOf
    <3>2. o.id <= LastOf(o.chain) /\ LastOf(o.chain) <= LastOf(Newest) /\ o.id \in Nat
      BY <1>0, <1>4, <1>6, <3>1 DEF Manifest
    <3>3. LastOf(o.chain) \in Nat /\ LastOf(Newest) \in Nat
      BY <1>4, <1>6, <3>1
    <3> QED
      BY <2>1, <3>2, <3>3
  <2> QED
    BY <2>1, <2>2 DEF Leads
<1>8. Newest \notin Doomed
  BY <1>0, <1>7, LeaderIsNotBeyond, DoomedIsBeyond DEF Leads, SetsOf, OfChain
<1>9. ASSUME NEW n \in Nat, \A x \in SetsOf(Newest) : x.seq <= n
      PROVE  /\ Highest({x.seq : x \in SetsOf(Newest)}) \in 0..n
             /\ Tops(Newest, Highest({x.seq : x \in SetsOf(Newest)}))
  <2> DEFINE Q == {x.seq : x \in SetsOf(Newest)}
  <2>1. Q \in SUBSET Nat /\ Q # {} /\ \A k \in Q : k <= n
    BY <1>0, <1>6, <1>9 DEF Manifest, SetsOf, Listed
  <2>2. Highest(Q) \in Q /\ \A k \in Q : k <= Highest(Q)
    BY <2>1, HighestIs
  <2> QED
    BY <1>9, <2>1, <2>2 DEF Tops
<1> QED
  BY <1>6, <1>7, <1>8, <1>9

LEMMA LeaderIsKept ==
  ASSUME BackupTypeOK, ManifestRows, NEW c, Leads(c)
  PROVE  c \in Listed /\ c \notin Doomed
BY ManifestIs, LeaderIsNotBeyond, DoomedIsBeyond DEF Leads, SetsOf, OfChain, Listed

-------------------------------------------------------------------------------
(* What the steps write.                                                   *)

\* A run's status changes, and nothing else of any run.
LEMMA FinishMeans ==
  ASSUME BackupTypeOK, NEW r \in DOMAIN runs, NEW to \in RunStatus, FinishRun(r, to)
  PROVE  /\ runs' \in Seq(RunRow) /\ Len(runs') = Len(runs) /\ DOMAIN runs' = DOMAIN runs
         /\ runs'[r].status = to
         /\ \A q \in DOMAIN runs :
                /\ q # r => runs'[q].status = runs[q].status
                /\ runs'[q].chain = runs[q].chain /\ runs'[q].seq = runs[q].seq /\ runs'[q].at = runs[q].at
<1>1. runs \in Seq(RunRow)
  BY DEF BackupTypeOK
<1>2. runs[r] \in RunRow
  BY <1>1
<1>3. [runs[r] EXCEPT !.status = to] \in RunRow
  BY <1>2 DEF RunRow
<1>4. runs' = [runs EXCEPT ![r] = [runs[r] EXCEPT !.status = to]]
  BY DEF FinishRun
<1>5. \A q \in DOMAIN runs : runs[q] \in RunRow
  BY <1>1
<1>6. runs' \in Seq(RunRow) /\ Len(runs') = Len(runs) /\ DOMAIN runs' = DOMAIN runs
  BY <1>1, <1>3, <1>4
<1>7. ASSUME NEW x \in RunRow
      PROVE  LET y == [x EXCEPT !.status = to]
             IN  y.status = to /\ y.chain = x.chain /\ y.seq = x.seq /\ y.at = x.at
  BY DEF RunRow
<1>8. \A q \in DOMAIN runs : runs'[q] = IF q = r THEN [runs[r] EXCEPT !.status = to] ELSE runs[q]
  BY <1>1, <1>4
<1> QED
  BY <1>2, <1>6, <1>7, <1>8

\* A run's command is written.
LEMMA AttachMeans ==
  ASSUME BackupTypeOK, NEW r \in DOMAIN runs, NEW c \in Command \cup {NoBackup},
         runs' = [runs EXCEPT ![r].command = c]
  PROVE  /\ runs' \in Seq(RunRow) /\ Len(runs') = Len(runs) /\ DOMAIN runs' = DOMAIN runs
         /\ \A q \in DOMAIN runs :
                /\ runs'[q].status = runs[q].status
                /\ runs'[q].chain = runs[q].chain /\ runs'[q].seq = runs[q].seq /\ runs'[q].at = runs[q].at
<1>1. runs \in Seq(RunRow)
  BY DEF BackupTypeOK
<1>2. runs[r] \in RunRow
  BY <1>1
<1>3. [runs[r] EXCEPT !.command = c] \in RunRow
  BY <1>2 DEF RunRow
<1>4. runs' = [runs EXCEPT ![r] = [runs[r] EXCEPT !.command = c]]
  OBVIOUS
<1>5. \A q \in DOMAIN runs : runs[q] \in RunRow
  BY <1>1
<1>6. runs' \in Seq(RunRow) /\ Len(runs') = Len(runs) /\ DOMAIN runs' = DOMAIN runs
  BY <1>1, <1>3, <1>4
<1>7. ASSUME NEW x \in RunRow
      PROVE  LET y == [x EXCEPT !.command = c]
             IN  y.status = x.status /\ y.chain = x.chain /\ y.seq = x.seq /\ y.at = x.at
  BY DEF RunRow
<1>8. \A q \in DOMAIN runs : runs'[q] = IF q = r THEN [runs[r] EXCEPT !.command = c] ELSE runs[q]
  BY <1>1, <1>4
<1> QED
  BY <1>2, <1>6, <1>7, <1>8

\* A run is added, as it was planned.
LEMMA StartMeans ==
  ASSUME BackupTypeOK, NEW t \in Thread, StartFileRun(t)
  PROVE  LET r == Len(runs) + 1 IN
         /\ r \in RunId /\ r \notin DOMAIN runs /\ DOMAIN runs' = DOMAIN runs \cup {r}
         /\ runs' \in Seq(RunRow) /\ Len(runs') = r
         /\ runs'[r].status = "running" /\ runs'[r].seq = threads[t].seq
         /\ runs'[r].chain = IF threads[t].chain = 0 THEN r ELSE threads[t].chain
         /\ \A q \in DOMAIN runs : runs'[q] = runs[q]
         /\ threads' \in [Thread -> PassState]
         /\ threads'[t].pc = "queue" /\ threads'[t].run = r
         /\ \A u \in Thread : u # t => threads'[u] = threads[u]
<1> DEFINE r == Len(runs) + 1
           x == [status |-> "running", seq |-> threads[t].seq,
                 chain |-> IF threads[t].chain = 0 THEN r ELSE threads[t].chain,
                 at |-> threads[t].now, command |-> NoBackup]
<1>1. runs \in Seq(RunRow) /\ r \in RunId /\ runs' = Append(runs, x)
  BY DEF BackupTypeOK, StartFileRun
<1>2. threads \in [Thread -> PassState] /\ threads[t] \in PassState
  BY DEF BackupTypeOK
<1>3. x \in RunRow
  BY <1>1, <1>2 DEF PassState, RunRow, RunStatus, RunId
<1>4. threads' = [threads EXCEPT ![t] = [threads[t] EXCEPT !.pc = "queue", !.run = r]]
  BY DEF StartFileRun
<1>5. [threads[t] EXCEPT !.pc = "queue", !.run = r] \in PassState
  <2>1. r \in 0..MaxRuns
    BY <1>1 DEF RunId
  <2> HIDE DEF r
  <2> QED
    BY <1>2, <2>1 DEF PassState
<1>6. /\ threads' \in [Thread -> PassState]
      /\ threads'[t].pc = "queue" /\ threads'[t].run = r
      /\ \A u \in Thread : u # t => threads'[u] = threads[u]
  BY <1>2, <1>4, <1>5 DEF PassState
<1> HIDE DEF x
<1>7. /\ runs' \in Seq(RunRow) /\ Len(runs') = Len(runs) + 1 /\ runs'[Len(runs) + 1] = x
      /\ \A q \in 1..Len(runs) : runs'[q] = runs[q]
  BY <1>1, <1>3
<1>8. DOMAIN runs = 1..Len(runs) /\ DOMAIN runs' = 1..(Len(runs) + 1) /\ Len(runs) \in Nat
  BY <1>1, <1>7
<1>9. DOMAIN runs' = DOMAIN runs \cup {r} /\ r \notin DOMAIN runs
  BY <1>8
<1>10. /\ x.status = "running" /\ x.seq = threads[t].seq
       /\ x.chain = IF threads[t].chain = 0 THEN r ELSE threads[t].chain
  BY DEF x
<1> QED
  BY <1>1, <1>6, <1>7, <1>8, <1>9, <1>10

\* A report moves on.
LEMMA OnwardMeans ==
  ASSUME BackupTypeOK, NEW p \in Post, NEW pc \in {"idle", "get", "discard", "fail", "base", "insert",
             "finish", "chains", "delete", "drop", "answer"}, Onward(p, pc)
  PROVE  /\ posts' \in [Post -> PostState]
         /\ posts'[p].pc = pc /\ posts'[p].run = posts[p].run /\ posts'[p].ok = posts[p].ok
         /\ posts'[p].doomed = posts[p].doomed /\ posts'[p].row = posts[p].row
         /\ \A q \in Post : q # p => posts'[q] = posts[q]
<1>1. posts \in [Post -> PostState] /\ posts[p] \in PostState
  BY DEF BackupTypeOK
<1>2. posts' = [posts EXCEPT ![p] = [posts[p] EXCEPT !.pc = pc]]
  BY DEF Onward
<1>3. [posts[p] EXCEPT !.pc = pc] \in PostState
  BY <1>1 DEF PostState
<1> QED
  BY <1>1, <1>2, <1>3 DEF PostState

\* The agent has the answer of a run's work.
LEMMA ReportAsMeans ==
  ASSUME BackupTypeOK, NEW r \in RunId, NEW ok \in BOOLEAN, ReportAs(r, ok)
  PROVE  /\ tasks' \in [RunId -> TaskState]
         /\ tasks'[r].pc = "report" /\ tasks'[r].ok = ok /\ tasks'[r].packs = tasks[r].packs
         /\ tasks'[r].seen = tasks[r].seen
         /\ \A q \in RunId : q # r => tasks'[q] = tasks[q]
<1>1. tasks \in [RunId -> TaskState] /\ tasks[r] \in TaskState
  BY DEF BackupTypeOK
<1>2. tasks' = [tasks EXCEPT ![r] = [tasks[r] EXCEPT !.pc = "report", !.ok = ok]]
  BY DEF ReportAs
<1>3. [tasks[r] EXCEPT !.pc = "report", !.ok = ok] \in TaskState
  BY <1>1 DEF TaskState
<1> QED
  BY <1>1, <1>2, <1>3 DEF TaskState

LEMMA NoRecordsAreTyped ==
  /\ NoThread \in PassState /\ NoPost \in PostState /\ NoTask \in TaskState
  /\ NoThread.pc = "idle" /\ NoPost.pc = "idle" /\ NoTask.pc = "none"
  /\ NoPost.doomed = {} /\ NoPost.run = 0 /\ NoTask.packs = 0 /\ NoTask.ok = FALSE /\ NoPost.ok = FALSE
<1>1. NoThread \in PassState /\ NoThread.pc = "idle"
  BY DEF NoThread, PassState
<1>2. /\ NoPost \in PostState /\ NoPost.pc = "idle"
      /\ NoPost.doomed = {} /\ NoPost.run = 0 /\ NoPost.ok = FALSE
  BY DEF NoPost, PostState
<1>3. NoTask \in TaskState /\ NoTask.pc = "none" /\ NoTask.packs = 0 /\ NoTask.ok = FALSE
  BY DEF NoTask, TaskState, Holding, Nothing
<1> QED
  BY <1>1, <1>2, <1>3

LEMMA DoneIs ==
  ASSUME BackupTypeOK, NEW r \in RunId
  PROVE  /\ Done(r) \in TaskState /\ Done(r).pc = "done" /\ Done(r).packs = tasks[r].packs
         /\ Done(r).ok = FALSE /\ Done(r).seen = 0
<1>1. tasks[r] \in TaskState
  BY DEF BackupTypeOK
<1>2. NoTask \in TaskState /\ NoTask.ok = FALSE /\ NoTask.seen = 0
  BY NoRecordsAreTyped DEF NoTask
<1>3. Done(r) = [NoTask EXCEPT !.pc = "done", !.packs = tasks[r].packs]
  BY DEF Done
<1> QED
  BY <1>1, <1>2, <1>3 DEF TaskState

-------------------------------------------------------------------------------
(* Types, and that numbers of runs are those of runs.                      *)

KeysKept == \A q \in DOMAIN runs :
    q \in DOMAIN runs' /\ runs'[q].chain = runs[q].chain /\ runs'[q].seq = runs[q].seq /\ runs'[q].at = runs[q].at
RunningShrinks == DOMAIN runs' = DOMAIN runs /\ Running' \subseteq Running
Calls == {"delete", "drop"}
PostsCalm == \A p \in Post :
    \/ /\ posts'[p].doomed = posts[p].doomed /\ posts'[p].row = posts[p].row
       /\ posts'[p].pc = posts[p].pc \/ {posts'[p].pc, posts[p].pc} \cap Calls = {}
    \/ posts'[p].doomed = {} /\ posts'[p].pc \notin Calls
PassesCalm == \A t \in Thread : threads'[t].pc \in Dispatching =>
    threads[t].pc \in Dispatching /\ (threads'[t].pc \in {"plan", "start"} => threads'[t] = threads[t])
SetsKept == fileSets' = fileSets /\ recorded' = recorded
Calm == KeysKept /\ RunningShrinks /\ SetsKept /\ PostsCalm /\ PassesCalm

\* The queue's operations, as they are called here, keep its kinds of values.
LEMMA BackupQueueOperations ==
  ASSUME QueueTypeOK
  PROVE  /\ UNCHANGED queueVars => QueueTypeOK'
         /\ \A c \in Command : Lapse(c) => QueueTypeOK'
         /\ \A c \in Command, m \in Machine : Create(c, m) => QueueTypeOK'
         /\ \A a \in Agent, m \in Machine : Claim(a, m) => QueueTypeOK'
         /\ \A c \in Command : CancelIfPending(c) => QueueTypeOK'
<1> USE DEF QueueTypeOK, CommandStatus, NoRow
<1>1. UNCHANGED queueVars => QueueTypeOK'
  BY DEF queueVars
<1>2. \A c \in Command : Lapse(c) => QueueTypeOK'
  BY DEF Lapse
<1>3. \A c \in Command, m \in Machine : Create(c, m) => QueueTypeOK'
  BY DEF Create
<1>4. \A a \in Agent, m \in Machine : Claim(a, m) => QueueTypeOK'
  BY DEF Claim
<1>5. \A c \in Command : CancelIfPending(c) => QueueTypeOK'
  BY DEF CancelIfPending
<1> QED
  BY <1>1, <1>2, <1>3, <1>4, <1>5

\* Values of the state that others than the owner of a step leave alone.
LEMMA NothingMovesIsCalm ==
  ASSUME UNCHANGED <<backupTables, threads, posts>>
  PROVE  Calm
BY DEF backupTables, Calm, KeysKept, RunningShrinks, Running, SetsKept, PostsCalm, PassesCalm

LEMMA RunsKnownInCalm ==
  ASSUME BaseInv, UNCHANGED <<backupTables, threads, posts, cancelling, orders>>,
         \A r \in RunId : tasks'[r].pc # "none" => r \in DOMAIN runs
  PROVE  RunsAreKnown'
BY DEF BaseInv, RunsAreKnown, backupTables

\* What the agent does by itself keeps the types.
LEMMA AgentKeepsTypes ==
  ASSUME BaseInv,
         \/ Edit \/ AgentRestarts
         \/ \E a \in Agent, m \in Machine : TakeBackups(a, m)
         \/ \E c \in Command : BackupLapses(c)
         \/ \E r \in RunId : Select(r) \/ Upload(r) \/ BeginRelay(r) \/ GivesUp(r) \/ BackupFails(r) \/ TimesOut(r)
  PROVE  BackupTypeOK' /\ RunsAreKnown' /\ Calm
<1> USE DEF backupTables, backupHub, backupAgent, backupHistory
<1>0. /\ BackupTypeOK /\ tasks \in [RunId -> TaskState] /\ (\A r \in RunId : tasks[r] \in TaskState)
      /\ file \in 1..MaxVersion /\ NoTask \in TaskState /\ NoTask.pc = "none"
      /\ \A r \in RunId : tasks[r].pc # "none" => r \in DOMAIN runs
  BY NoRecordsAreTyped DEF BaseInv, BackupTypeOK, RunsAreKnown
<1>t. ASSUME tasks' \in [RunId -> TaskState], QueueTypeOK', store' \subseteq [key : Key, holds : Holding],
             file' \in 1..MaxVersion,
             UNCHANGED <<backupTables, orders, viaHub, backupHub, cache, second, cancels, backupHistory>>,
             \A r \in RunId : tasks'[r].pc # "none" => r \in DOMAIN runs
      PROVE  BackupTypeOK' /\ RunsAreKnown' /\ Calm
  <2>1. BackupTypeOK'
    BY <1>0, <1>t DEF BackupTypeOK
  <2> QED
    BY <1>t, <2>1, NothingMovesIsCalm, RunsKnownInCalm
<1>q. UNCHANGED queueVars => QueueTypeOK'
  BY <1>0, BackupQueueOperations DEF BackupTypeOK
<1>s. UNCHANGED store => store' \subseteq [key : Key, holds : Holding]
  BY <1>0 DEF BackupTypeOK
<1>1. CASE Edit
  <2>1. file' \in 1..MaxVersion
    BY <1>0, <1>1 DEF Edit
  <2> QED
    BY <1>0, <1>1, <1>t, <1>q, <1>s, <2>1 DEF Edit
<1>2. CASE AgentRestarts
  <2>1. \A r \in RunId : Done(r) \in TaskState
    BY <1>0, DoneIs
  <2>2. tasks' = [r \in RunId |-> IF Does(r, "none") THEN NoTask ELSE Done(r)]
    BY <1>2 DEF AgentRestarts
  <2>3. tasks' \in [RunId -> TaskState] /\ \A r \in RunId : tasks'[r].pc # "none" => tasks[r].pc # "none"
    BY <1>0, <2>1, <2>2 DEF Does
  <2> QED
    BY <1>0, <1>2, <1>t, <1>q, <1>s, <2>3 DEF AgentRestarts
<1>3. ASSUME NEW a \in Agent, NEW m \in Machine, TakeBackups(a, m)  PROVE BackupTypeOK' /\ RunsAreKnown' /\ Calm
  <2>1. QueueTypeOK'
    BY <1>0, <1>3, BackupQueueOperations DEF TakeBackups, BackupTypeOK
  <2>2. tasks' = [r \in RunId |-> IF \E c \in Claimable(m) : orders[c] = r
                                 THEN [NoTask EXCEPT !.pc = "ready"] ELSE tasks[r]]
    BY <1>3 DEF TakeBackups
  <2>3. [NoTask EXCEPT !.pc = "ready"] \in TaskState
    BY <1>0 DEF TaskState
  <2>4. tasks' \in [RunId -> TaskState]
    BY <1>0, <2>2, <2>3
  <2>5. \A r \in RunId : tasks'[r].pc # "none" => r \in DOMAIN runs
    <3> SUFFICES ASSUME NEW r \in RunId, tasks'[r].pc # "none" PROVE r \in DOMAIN runs
      OBVIOUS
    <3>1. CASE \E c \in Claimable(m) : orders[c] = r
      BY <3>1 DEF BaseInv, RunsAreKnown, Claimable, PendingOf, RunId
    <3>2. CASE ~ \E c \in Claimable(m) : orders[c] = r
      BY <1>0, <2>2, <3>2
    <3> QED
      BY <3>1, <3>2
  <2> QED
    BY <1>0, <1>3, <1>t, <1>s, <2>1, <2>4, <2>5 DEF TakeBackups
<1>4. ASSUME NEW c \in Command, BackupLapses(c)  PROVE BackupTypeOK' /\ RunsAreKnown' /\ Calm
  <2>1. QueueTypeOK' /\ UNCHANGED backupOwn
    BY <1>0, <1>4, BackupQueueOperations DEF BackupLapses, BackupTypeOK
  <2> QED
    BY <1>0, <1>t, <1>s, <2>1 DEF backupOwn
<1>5. ASSUME NEW r \in RunId, Select(r)  PROVE BackupTypeOK' /\ RunsAreKnown' /\ Calm
  <2> DEFINE v == IF (runs[r].seq = 0 \/ cache.chain # runs[r].chain) \/ cache.version # file THEN file ELSE Nothing
  <2>1. tasks' = [tasks EXCEPT ![r] = [tasks[r] EXCEPT !.pc = "packed", !.seen = file, !.packs = v]]
    BY <1>5 DEF Select
  <2>2. v \in Holding /\ file \in 0..MaxVersion
    BY <1>0 DEF Holding, Nothing
  <2> HIDE DEF v
  <2>3. [tasks[r] EXCEPT !.pc = "packed", !.seen = file, !.packs = v] \in TaskState
    BY <1>0, <2>2 DEF TaskState
  <2>n. tasks \in [RunId -> TaskState] /\ tasks[r].pc = "ready"
    BY <1>0, <1>5 DEF Select, Does
  <2>4. tasks' \in [RunId -> TaskState] /\ \A q \in RunId : tasks'[q].pc # "none" => tasks[q].pc # "none"
    BY <2>n, <2>1, <2>3
  <2> QED
    BY <1>0, <1>5, <1>t, <1>q, <1>s, <2>4 DEF Select
<1>6. ASSUME NEW r \in RunId, Upload(r)  PROVE BackupTypeOK' /\ RunsAreKnown' /\ Calm
  <2>1. tasks' \in [RunId -> TaskState] /\ \A q \in RunId : tasks'[q].pc # "none" => tasks[q].pc # "none"
    BY <1>0, <1>6, ReportAsMeans DEF Upload, Does
  <2>2. r \in DOMAIN runs
    BY <1>0, <1>6 DEF Upload, Does
  <2>3. runs[r] \in RunRow
    BY <1>0, <2>2 DEF BackupTypeOK
  <2>4. KeyOf(r) \in Key
    BY <2>3 DEF KeyOf, Key, RunRow
  <2>5. tasks[r].packs \in Holding
    BY <1>0 DEF TaskState
  <2>6. store' = {o \in store : o.key # KeyOf(r)} \cup {[key |-> KeyOf(r), holds |-> tasks[r].packs]}
    BY <1>6 DEF Upload, Put
  <2>7. store' \subseteq [key : Key, holds : Holding]
    BY <1>0, <2>4, <2>5, <2>6 DEF BackupTypeOK
  <2> QED
    BY <1>0, <1>6, <1>t, <1>q, <2>1, <2>7 DEF Upload
<1>7. ASSUME NEW r \in RunId, BeginRelay(r)  PROVE BackupTypeOK' /\ RunsAreKnown' /\ Calm
  <2>1. CASE ReportAs(r, FALSE)
    <3>1. tasks' \in [RunId -> TaskState] /\ \A q \in RunId : tasks'[q].pc # "none" => tasks[q].pc # "none"
      BY <1>0, <1>7, <2>1, ReportAsMeans DEF BeginRelay, Does
    <3> QED
      BY <1>0, <1>7, <1>t, <1>q, <1>s, <3>1 DEF BeginRelay
  <2>2. CASE tasks' = [tasks EXCEPT ![r].pc = "relaying"]
    <3>1. [tasks[r] EXCEPT !.pc = "relaying"] \in TaskState
      BY <1>0 DEF TaskState
    <3>2. tasks' \in [RunId -> TaskState] /\ \A q \in RunId : tasks'[q].pc # "none" => tasks[q].pc # "none"
      BY <1>0, <1>7, <2>2, <3>1 DEF BeginRelay, Does
    <3> QED
      BY <1>0, <1>7, <1>t, <1>q, <1>s, <3>2 DEF BeginRelay
  <2> QED
    BY <1>7, <2>1, <2>2 DEF BeginRelay
<1>8. ASSUME NEW r \in RunId, GivesUp(r)  PROVE BackupTypeOK' /\ RunsAreKnown' /\ Calm
  <2>1. tasks' = [tasks EXCEPT ![r] = Done(r)] /\ Done(r) \in TaskState
    BY <1>0, <1>8, DoneIs DEF GivesUp
  <2>2. tasks' \in [RunId -> TaskState] /\ \A q \in RunId : tasks'[q].pc # "none" => tasks[q].pc # "none"
    BY <1>0, <1>8, <2>1 DEF GivesUp, Does
  <2> QED
    BY <1>0, <1>8, <1>t, <1>q, <1>s, <2>2 DEF GivesUp
<1>9. ASSUME NEW r \in RunId, BackupFails(r)  PROVE BackupTypeOK' /\ RunsAreKnown' /\ Calm
  <2>1. tasks' \in [RunId -> TaskState] /\ \A q \in RunId : tasks'[q].pc # "none" => tasks[q].pc # "none"
    BY <1>0, <1>9, ReportAsMeans DEF BackupFails
  <2> QED
    BY <1>0, <1>9, <1>t, <1>q, <1>s, <2>1 DEF BackupFails
<1>10. ASSUME NEW r \in RunId, TimesOut(r)  PROVE BackupTypeOK' /\ RunsAreKnown' /\ Calm
  <2>1. tasks' = [tasks EXCEPT ![r] = [tasks[r] EXCEPT !.pc = "report", !.on = NoBackup]]
    BY <1>10 DEF TimesOut
  <2>2. [tasks[r] EXCEPT !.pc = "report", !.on = NoBackup] \in TaskState
    BY <1>0 DEF TaskState
  <2>3. tasks' \in [RunId -> TaskState] /\ \A q \in RunId : tasks'[q].pc # "none" => tasks[q].pc # "none"
    BY <1>0, <1>10, <2>1, <2>2 DEF TimesOut, Does
  <2> QED
    BY <1>0, <1>10, <1>t, <1>q, <1>s, <2>3 DEF TimesOut
<1> QED
  BY <1>1, <1>2, <1>3, <1>4, <1>5, <1>6, <1>7, <1>8, <1>9, <1>10

\* So does what the agent and the hub do to a run together.
LEMMA SendKeepsTypes ==
  ASSUME BaseInv, NEW r \in RunId, NEW p \in Post, Send(r, p)
  PROVE  /\ BackupTypeOK' /\ RunsAreKnown' /\ Calm
         /\ posts'[p].pc = "get" /\ posts'[p].run = r /\ posts'[p].ok = tasks[r].ok
         /\ \A q \in Post : q # p => posts'[q] = posts[q]
         /\ tasks'[r].pc = "waiting" /\ tasks'[r].packs = tasks[r].packs /\ tasks'[r].seen = tasks[r].seen
         /\ tasks'[r].ok = tasks[r].ok /\ tasks'[r].on = p
         /\ \A q \in RunId : q # r => tasks'[q] = tasks[q]
<1> USE DEF backupTables, backupHub, backupAgent, backupHistory
<1>0. /\ BackupTypeOK /\ tasks \in [RunId -> TaskState] /\ tasks[r] \in TaskState
      /\ posts \in [Post -> PostState] /\ NoPost \in PostState /\ NoPost.doomed = {} /\ r \in 0..MaxRuns
      /\ r \in DOMAIN runs
  <2>1. BackupTypeOK /\ RunsAreKnown /\ tasks[r].pc = "report"
    BY DEF BaseInv, Send, Does
  <2>2. tasks \in [RunId -> TaskState] /\ posts \in [Post -> PostState]
    BY <2>1 DEF BackupTypeOK
  <2>3. r \in DOMAIN runs
    BY <2>1 DEF RunsAreKnown
  <2>4. r \in 0..MaxRuns
    BY DEF RunId
  <2> QED
    BY <2>1, <2>2, <2>3, <2>4, NoRecordsAreTyped
<1>1. tasks' = [tasks EXCEPT ![r] = [tasks[r] EXCEPT !.pc = "waiting", !.on = p, !.tries = @ + 1]]
  BY DEF Send
<1>2. [tasks[r] EXCEPT !.pc = "waiting", !.on = p, !.tries = @ + 1] \in TaskState
  BY <1>0 DEF TaskState, Send
<1>3. /\ tasks' \in [RunId -> TaskState]
      /\ tasks'[r].pc = "waiting" /\ tasks'[r].packs = tasks[r].packs /\ tasks'[r].seen = tasks[r].seen
      /\ tasks'[r].ok = tasks[r].ok /\ tasks'[r].on = p
      /\ \A q \in RunId : q # r => tasks'[q] = tasks[q]
  BY <1>0, <1>1, <1>2 DEF TaskState
<1>4. [NoPost EXCEPT !.pc = "get", !.run = r, !.ok = tasks[r].ok] \in PostState
  BY <1>0 DEF PostState, TaskState
<1>5. posts' = [posts EXCEPT ![p] = [NoPost EXCEPT !.pc = "get", !.run = r, !.ok = tasks[r].ok]]
  BY DEF Send
<1>6. /\ posts' \in [Post -> PostState] /\ posts'[p].doomed = {}
      /\ posts'[p].pc = "get" /\ posts'[p].run = r /\ posts'[p].ok = tasks[r].ok
      /\ \A q \in Post : q # p => posts'[q] = posts[q]
  BY <1>0, <1>4, <1>5 DEF PostState
<1>7. BackupTypeOK'
  <2>1. QueueTypeOK'
    BY <1>0, BackupQueueOperations DEF BackupTypeOK, Send
  <2> QED
    BY <1>0, <1>3, <1>6, <2>1 DEF BackupTypeOK, Send
<1>8. RunsAreKnown'
  BY <1>0, <1>3, <1>6 DEF Send, BaseInv, RunsAreKnown
<1>9. Calm
  BY <1>6 DEF Send, Calm, KeysKept, RunningShrinks, Running, SetsKept, PostsCalm, PassesCalm, Calls
<1> QED
  BY <1>3, <1>6, <1>7, <1>8, <1>9

\* A run that is closed or attached is one that there is.
LEMMA ClosingIsCalm ==
  ASSUME BaseInv, NEW r \in DOMAIN runs, NEW to \in RunStatus \ {"running"}, FinishRun(r, to),
         UNCHANGED <<fileSets, recorded>>, PassesCalm, PostsCalm
  PROVE  Calm
<1>0. BackupTypeOK
  BY DEF BaseInv
<1>1. /\ DOMAIN runs' = DOMAIN runs /\ runs'[r].status = to
      /\ \A q \in DOMAIN runs :
                /\ q # r => runs'[q].status = runs[q].status
                /\ runs'[q].chain = runs[q].chain /\ runs'[q].seq = runs[q].seq /\ runs'[q].at = runs[q].at
  BY <1>0, FinishMeans
<1>2. Running' \subseteq Running
  BY <1>1 DEF Running
<1> QED
  BY <1>1, <1>2 DEF Calm, KeysKept, RunningShrinks, SetsKept

LEMMA RelayFailsKeepsTypes ==
  ASSUME BaseInv, NEW r \in RunId, RelayFails(r)
  PROVE  BackupTypeOK' /\ RunsAreKnown' /\ Calm
<1> USE DEF backupTables, backupHub, backupAgent, backupHistory
<1>0. BackupTypeOK /\ r \in DOMAIN runs
  BY DEF BaseInv, RunsAreKnown, RelayFails, Does
<1>1. /\ tasks' \in [RunId -> TaskState]
      /\ \A q \in RunId : tasks'[q].pc # "none" => tasks[q].pc # "none"
  BY <1>0, ReportAsMeans DEF RelayFails, Does
<1>2. /\ runs' \in Seq(RunRow) /\ Len(runs') = Len(runs) /\ DOMAIN runs' = DOMAIN runs
      /\ \A q \in DOMAIN runs : runs'[q].chain = runs[q].chain /\ runs'[q].seq = runs[q].seq
  BY <1>0, FinishMeans DEF RelayFails, RunStatus
<1>3. BackupTypeOK'
  <2>1. QueueTypeOK'
    BY <1>0, BackupQueueOperations DEF BackupTypeOK, RelayFails
  <2> QED
    BY <1>0, <1>1, <1>2, <2>1 DEF BackupTypeOK, RelayFails
<1>4. RunsAreKnown'
  BY <1>0, <1>1, <1>2 DEF RelayFails, BaseInv, RunsAreKnown
<1>5. Calm
  <2>1. PassesCalm /\ PostsCalm
    BY DEF RelayFails, PassesCalm, PostsCalm
  <2> QED
    BY <1>0, <2>1, ClosingIsCalm DEF RelayFails, RunStatus
<1> QED
  BY <1>3, <1>4, <1>5

\* A step of a pass or a cancel that only moves threads, and does not plan.
LEMMA ThreadsKeepTypes ==
  ASSUME BaseInv, QueueTypeOK', threads' \in [Thread -> PassState],
         second' \in 0..MaxSecond, overlapped' \in BOOLEAN,
         UNCHANGED <<runs, fileSets, recorded, store, orders, viaHub, posts, cancelling, tasks, cache,
                     file, cancels, unlisted>>,
         \A t \in Thread :
             /\ threads'[t].pc = "expire" => threads'[t].stale \subseteq DOMAIN runs
             /\ threads'[t].pc = "start" => threads'[t].seq <= Len(runs) /\ threads'[t].chain <= Len(runs)
             /\ threads'[t].pc \in {"queue", "attach"} => threads'[t].run \in DOMAIN runs
  PROVE  BackupTypeOK' /\ RunsAreKnown' /\ KeysKept /\ RunningShrinks /\ SetsKept /\ PostsCalm
<1>1. BackupTypeOK'
  BY DEF BaseInv, BackupTypeOK
<1>2. RunsAreKnown'
  BY DEF BaseInv, RunsAreKnown
<1> QED
  BY <1>1, <1>2 DEF KeysKept, RunningShrinks, Running, SetsKept, PostsCalm

LEMMA PassesKeepTypes ==
  ASSUME BaseInv, NEW t \in Thread,
         \/ BeginExpiry(t) \/ DispatchFails(t) \/ QueueBackup(t)
         \/ AttachCommand(t) \/ ExpireRun(t)
  PROVE  BackupTypeOK' /\ RunsAreKnown' /\ Calm
<1> USE DEF backupTables, backupHub, backupAgent, backupHistory
<1>0. /\ BackupTypeOK /\ RunsAreKnown /\ threads \in [Thread -> PassState] /\ threads[t] \in PassState
      /\ NoThread \in PassState /\ NoThread.pc = "idle" /\ second \in 0..MaxSecond /\ overlapped \in BOOLEAN
      /\ runs \in Seq(RunRow) /\ DOMAIN runs \subseteq RunId
  BY NoRecordsAreTyped DEF BaseInv, BackupTypeOK, RunId
<1>q. UNCHANGED queueVars => QueueTypeOK'
  BY <1>0, BackupQueueOperations DEF BackupTypeOK
<1>1. CASE BeginExpiry(t)
  <2>0. PICK stale \in SUBSET Running :
            threads' = [threads EXCEPT ![t].pc = "expire", ![t].stale = stale]
    BY <1>1 DEF BeginExpiry
  <2>1. threads' = [threads EXCEPT ![t] = [threads[t] EXCEPT !.pc = "expire", !.stale = stale]]
    BY <1>0, <2>0
  <2>2. stale \subseteq DOMAIN runs
    BY DEF Running
  <2>3. [threads[t] EXCEPT !.pc = "expire", !.stale = stale] \in PassState
    BY <1>0, <2>2 DEF PassState
  <2>4. /\ threads' \in [Thread -> PassState]
        /\ threads'[t].pc = "expire" /\ threads'[t].stale = stale
        /\ \A u \in Thread : u # t => threads'[u] = threads[u]
    BY <1>0, <2>1, <2>3 DEF PassState
  <2>5. PassesCalm
    BY <2>4 DEF PassesCalm, Dispatching
  <2> QED
    BY <1>0, <1>1, <1>q, <2>2, <2>4, <2>5, ThreadsKeepTypes DEF BeginExpiry, RunsAreKnown, Calm
<1>2. CASE DispatchFails(t)
  <2>4. /\ threads' \in [Thread -> PassState]
        /\ threads'[t].pc = "idle"
        /\ \A u \in Thread : u # t => threads'[u] = threads[u]
    BY <1>0, <1>2 DEF DispatchFails, Leave
  <2>5. PassesCalm
    BY <2>4 DEF PassesCalm, Dispatching
  <2> QED
    BY <1>0, <1>2, <1>q, <2>4, <2>5, ThreadsKeepTypes DEF DispatchFails, RunsAreKnown, Calm
<1>3. CASE QueueBackup(t)
  <2> DEFINE c == CHOOSE free \in Command : status[free] = "unissued"
  <2>1. c \in Command
    BY <1>3 DEF QueueBackup
  <2>2. /\ \E m \in Machine : Create(c, m)
        /\ threads' = [threads EXCEPT ![t] = [threads[t] EXCEPT !.pc = "attach", !.command = c]]
        /\ orders' = [orders EXCEPT ![c] = threads[t].run]
    BY <1>3 DEF QueueBackup
  <2> HIDE DEF c
  <2>3. QueueTypeOK'
    BY <1>0, <2>1, <2>2, BackupQueueOperations DEF BackupTypeOK
  <2>4. [threads[t] EXCEPT !.pc = "attach", !.command = c] \in PassState
    BY <1>0, <2>1 DEF PassState
  <2>5. /\ threads' \in [Thread -> PassState]
        /\ threads'[t].pc = "attach" /\ threads'[t].run = threads[t].run
        /\ \A u \in Thread : u # t => threads'[u] = threads[u]
    BY <1>0, <2>2, <2>4 DEF PassState
  <2>6. threads[t].run \in DOMAIN runs /\ threads[t].pc = "queue" /\ threads[t].run \in 0..MaxRuns
    BY <1>0, <1>3 DEF QueueBackup, Stands, RunsAreKnown, PassState
  <2>7. orders' \in [Command -> 0..MaxRuns] /\ \A d \in Command : orders'[d] # 0 => orders'[d] \in DOMAIN runs
    <3>1. orders \in [Command -> 0..MaxRuns] /\ \A d \in Command : orders[d] # 0 => orders[d] \in DOMAIN runs
      BY <1>0 DEF BackupTypeOK, RunsAreKnown
    <3> QED
      BY <2>1, <2>2, <2>6, <3>1
  <2>8. BackupTypeOK'
    BY <1>0, <1>3, <2>3, <2>5, <2>7 DEF QueueBackup, BackupTypeOK
  <2>9. RunsAreKnown'
    BY <1>0, <1>3, <2>5, <2>6, <2>7 DEF QueueBackup, RunsAreKnown
  <2>10. PassesCalm
    BY <2>5, <2>6 DEF PassesCalm, Dispatching
  <2> QED
    BY <1>3, <2>8, <2>9, <2>10
    DEF QueueBackup, Calm, KeysKept, RunningShrinks, Running, SetsKept, PostsCalm
<1>4. CASE AttachCommand(t)
  <2>1. threads[t].pc = "attach" /\ threads[t].run \in DOMAIN runs
    <3>1. threads[t].pc = "attach"
      BY <1>4 DEF AttachCommand, Stands
    <3> QED
      BY <1>0, <3>1 DEF RunsAreKnown
  <2>2. runs[threads[t].run] \in RunRow /\ threads[t].command \in Command \cup {NoBackup}
    BY <1>0, <2>1 DEF PassState
  <2>3. /\ runs' \in Seq(RunRow) /\ Len(runs') = Len(runs) /\ DOMAIN runs' = DOMAIN runs
        /\ \A q \in DOMAIN runs :
                /\ runs'[q].status = runs[q].status
                /\ runs'[q].chain = runs[q].chain /\ runs'[q].seq = runs[q].seq /\ runs'[q].at = runs[q].at
    BY <1>0, <1>4, <2>1, <2>2, AttachMeans DEF AttachCommand
  <2>4. /\ threads' \in [Thread -> PassState]
        /\ threads'[t].pc = "idle"
        /\ \A u \in Thread : u # t => threads'[u] = threads[u]
    BY <1>0, <1>4 DEF AttachCommand, Leave
  <2>5. BackupTypeOK'
    BY <1>0, <1>4, <1>q, <2>3, <2>4 DEF AttachCommand, BackupTypeOK
  <2>6. RunsAreKnown'
    BY <1>0, <1>4, <2>3, <2>4 DEF AttachCommand, RunsAreKnown
  <2>7. PassesCalm
    BY <2>4 DEF PassesCalm, Dispatching
  <2> QED
    BY <1>4, <2>3, <2>5, <2>6, <2>7
    DEF AttachCommand, Calm, KeysKept, RunningShrinks, Running, SetsKept, PostsCalm
<1>5. CASE ExpireRun(t)
  <2>1. PICK r \in threads[t].stale :
           /\ CloseOver(r, "failed")
           /\ threads' = IF threads[t].stale = {r} THEN [threads EXCEPT ![t] = NoThread]
                         ELSE [threads EXCEPT ![t] = [threads[t] EXCEPT !.stale = @ \ {r}]]
    BY <1>5 DEF ExpireRun
  <2>2. r \in DOMAIN runs /\ threads[t].pc = "expire" /\ threads[t].stale \subseteq DOMAIN runs
    BY <1>0, <1>5, <2>1 DEF ExpireRun, Stands, RunsAreKnown
  <2>3. /\ runs' \in Seq(RunRow) /\ Len(runs') = Len(runs) /\ DOMAIN runs' = DOMAIN runs
        /\ \A q \in DOMAIN runs : runs'[q].chain = runs[q].chain /\ runs'[q].seq = runs[q].seq
    BY <1>0, <2>1, <2>2, FinishMeans DEF CloseOver, RunStatus
  <2>4. [threads[t] EXCEPT !.stale = @ \ {r}] \in PassState
    BY <1>0 DEF PassState
  <2>5. /\ threads' \in [Thread -> PassState]
        /\ threads'[t].pc \in {"idle", "expire"}
        /\ threads'[t].pc = "expire" => threads'[t].stale \subseteq DOMAIN runs
        /\ \A u \in Thread : u # t => threads'[u] = threads[u]
    BY <1>0, <2>1, <2>2, <2>4 DEF PassState
  <2>6. overlapped' \in BOOLEAN
    BY <2>1 DEF CloseOver
  <2>7. BackupTypeOK'
    BY <1>0, <1>5, <1>q, <2>3, <2>5, <2>6 DEF ExpireRun, BackupTypeOK
  <2>8. RunsAreKnown'
    BY <1>0, <1>5, <2>3, <2>5 DEF ExpireRun, RunsAreKnown
  <2>9. PassesCalm /\ PostsCalm
    BY <1>5, <2>5 DEF PassesCalm, Dispatching, PostsCalm, ExpireRun
  <2> QED
    BY <1>5, <2>1, <2>2, <2>7, <2>8, <2>9, ClosingIsCalm DEF CloseOver, RunStatus, ExpireRun
<1> QED
  BY <1>1, <1>2, <1>3, <1>4, <1>5

\* So do a cancel, and a hub that stops.
LEMMA CancelsKeepTypes ==
  ASSUME BaseInv, LookToCancel \/ RecallBackup \/ CloseCancelled \/ HubStops
  PROVE  BackupTypeOK' /\ RunsAreKnown' /\ Calm
<1> USE DEF backupTables, backupHub, backupAgent, backupHistory
<1>0. /\ BackupTypeOK /\ RunsAreKnown /\ runs \in Seq(RunRow) /\ DOMAIN runs \subseteq RunId
      /\ cancelling \in [pc : {"idle", "recall", "write"}, run : 0..MaxRuns, command : Command \cup {NoBackup}]
      /\ NoThread \in PassState /\ NoPost \in PostState /\ NoThread.pc = "idle" /\ NoPost.pc = "idle"
      /\ NoPost.doomed = {}
  BY NoRecordsAreTyped DEF BaseInv, BackupTypeOK, RunId
<1>n. /\ NoCancelling \in [pc : {"idle", "recall", "write"}, run : 0..MaxRuns, command : Command \cup {NoBackup}]
      /\ NoCancelling.pc = "idle"
  BY DEF NoCancelling
<1>q. UNCHANGED queueVars => QueueTypeOK'
  BY <1>0, BackupQueueOperations DEF BackupTypeOK
<1>1. CASE LookToCancel
  <2>1. PICK r \in Running : cancelling' = [pc |-> "recall", run |-> r, command |-> runs[r].command]
    BY <1>1 DEF LookToCancel
  <2>2. r \in DOMAIN runs /\ runs[r] \in RunRow /\ r \in 0..MaxRuns
    BY <1>0 DEF Running, RunId
  <2>3. cancelling' \in [pc : {"idle", "recall", "write"}, run : 0..MaxRuns, command : Command \cup {NoBackup}]
        /\ cancelling'.run = r
    BY <2>1, <2>2 DEF RunRow
  <2>4. cancels' \in 0..MaxCancels
    BY <1>0, <1>1 DEF LookToCancel, BackupTypeOK
  <2>5. BackupTypeOK'
    BY <1>0, <1>1, <1>q, <2>3, <2>4 DEF LookToCancel, BackupTypeOK
  <2>6. RunsAreKnown'
    BY <1>0, <1>1, <2>2, <2>3 DEF LookToCancel, RunsAreKnown
  <2> QED
    BY <1>1, <2>5, <2>6, NothingMovesIsCalm DEF LookToCancel
<1>2. CASE RecallBackup
  <2>1. QueueTypeOK'
    BY <1>0, <1>2, <1>q, BackupQueueOperations DEF RecallBackup, BackupTypeOK
  <2>2. /\ cancelling' \in [pc : {"idle", "recall", "write"}, run : 0..MaxRuns, command : Command \cup {NoBackup}]
        /\ cancelling'.run = cancelling.run /\ cancelling.run \in DOMAIN runs
    BY <1>0, <1>2 DEF RecallBackup, RunsAreKnown
  <2>3. BackupTypeOK'
    BY <1>0, <1>2, <2>1, <2>2 DEF RecallBackup, BackupTypeOK
  <2>4. RunsAreKnown'
    BY <1>0, <1>2, <2>2 DEF RecallBackup, RunsAreKnown
  <2> QED
    BY <1>2, <2>3, <2>4, NothingMovesIsCalm DEF RecallBackup
<1>3. CASE CloseCancelled
  <2>1. cancelling.run \in DOMAIN runs
    BY <1>0, <1>3 DEF CloseCancelled, RunsAreKnown
  <2>2. /\ runs' \in Seq(RunRow) /\ Len(runs') = Len(runs) /\ DOMAIN runs' = DOMAIN runs
        /\ \A q \in DOMAIN runs : runs'[q].chain = runs[q].chain /\ runs'[q].seq = runs[q].seq
    BY <1>0, <1>3, <2>1, FinishMeans DEF CloseCancelled, CloseOver, RunStatus
  <2>3. BackupTypeOK'
    BY <1>0, <1>n, <1>3, <1>q, <2>2 DEF CloseCancelled, CloseOver, BackupTypeOK
  <2>4. RunsAreKnown'
    BY <1>0, <1>n, <1>3, <2>2 DEF CloseCancelled, RunsAreKnown
  <2>5. PassesCalm /\ PostsCalm
    BY <1>3 DEF CloseCancelled, PassesCalm, PostsCalm
  <2> QED
    BY <1>3, <2>1, <2>3, <2>4, <2>5, ClosingIsCalm DEF CloseCancelled, CloseOver, RunStatus
<1>4. CASE HubStops
  <2>1. /\ threads' \in [Thread -> PassState] /\ \A t \in Thread : threads'[t].pc = "idle"
        /\ posts' \in [Post -> PostState]
        /\ \A p \in Post : posts'[p].pc = "idle" /\ posts'[p].doomed = {}
    BY <1>0, <1>4 DEF HubStops
  <2>2. BackupTypeOK'
    BY <1>0, <1>n, <1>4, <1>q, <2>1 DEF HubStops, BackupTypeOK
  <2>3. RunsAreKnown'
    BY <1>0, <1>n, <1>4, <2>1 DEF HubStops, RunsAreKnown
  <2>4. PassesCalm /\ PostsCalm
    BY <2>1 DEF PassesCalm, PostsCalm, Dispatching, Calls
  <2> QED
    BY <1>4, <2>2, <2>3, <2>4 DEF HubStops, Calm, KeysKept, RunningShrinks, Running, SetsKept
<1> QED
  BY <1>1, <1>2, <1>3, <1>4

\* A report that moves on, short of the rotation.
LEMMA MovingOnIsCalm ==
  ASSUME BaseInv, NEW p \in Post, NEW pc \in {"get", "discard", "fail", "base", "insert", "finish",
             "chains", "answer"}, Onward(p, pc), posts[p].pc \notin Calls \cup {"idle"},
         UNCHANGED <<queueVars, fileSets, recorded, orders, viaHub, threads, cancelling, backupAgent,
                     second, cancels, backupHistory>>,
         store' \subseteq [key : Key, holds : Holding],
         runs' = runs \/ FinishRun(posts[p].run, "failed") \/ FinishRun(posts[p].run, "succeeded")
  PROVE  BackupTypeOK' /\ RunsAreKnown' /\ Calm
<1> USE DEF backupAgent, backupHistory
<1>0. BackupTypeOK /\ RunsAreKnown /\ posts[p].run \in DOMAIN runs
  BY DEF BaseInv, RunsAreKnown
<1>1. /\ posts' \in [Post -> PostState]
      /\ posts'[p].pc = pc /\ posts'[p].run = posts[p].run
      /\ posts'[p].doomed = posts[p].doomed /\ posts'[p].row = posts[p].row
      /\ \A q \in Post : q # p => posts'[q] = posts[q]
  BY <1>0, OnwardMeans
<1>2. /\ runs' \in Seq(RunRow) /\ Len(runs') = Len(runs) /\ DOMAIN runs' = DOMAIN runs
      /\ \A q \in DOMAIN runs : runs'[q].chain = runs[q].chain /\ runs'[q].seq = runs[q].seq
  <2>1. CASE runs' = runs
    BY <1>0, <2>1 DEF BackupTypeOK
  <2>2. ASSUME NEW to \in {"failed", "succeeded"}, FinishRun(posts[p].run, to)
        PROVE  /\ runs' \in Seq(RunRow) /\ Len(runs') = Len(runs) /\ DOMAIN runs' = DOMAIN runs
               /\ \A q \in DOMAIN runs : runs'[q].chain = runs[q].chain /\ runs'[q].seq = runs[q].seq
    BY <1>0, <2>2, FinishMeans DEF RunStatus
  <2> QED
    BY <2>1, <2>2
<1>3. BackupTypeOK'
  <2>1. QueueTypeOK'
    BY <1>0, BackupQueueOperations DEF BackupTypeOK
  <2> QED
    BY <1>0, <1>1, <1>2, <2>1 DEF BackupTypeOK
<1>4. RunsAreKnown'
  BY <1>0, <1>1, <1>2 DEF RunsAreKnown
<1>5. PostsCalm /\ PassesCalm
  BY <1>1 DEF PostsCalm, PassesCalm, Calls
<1>6. CASE runs' = runs
  BY <1>3, <1>4, <1>5, <1>6 DEF Calm, KeysKept, RunningShrinks, Running, SetsKept
<1>7. ASSUME NEW to \in {"failed", "succeeded"}, FinishRun(posts[p].run, to)  PROVE Calm
  BY <1>0, <1>5, <1>7, ClosingIsCalm DEF RunStatus
<1> QED
  BY <1>3, <1>4, <1>6, <1>7

LEMMA ReportsKeepTypes ==
  ASSUME BaseInv, NEW p \in Post,
         GetRun(p) \/ Discard(p) \/ CompleteFailed(p) \/ CheckBase(p) \/ CompleteSucceeded(p)
  PROVE  BackupTypeOK' /\ RunsAreKnown' /\ Calm
<1> USE DEF backupTables, Serves
<1>0. store \subseteq [key : Key, holds : Holding]
  BY DEF BaseInv, BackupTypeOK
<1>1. CASE GetRun(p)
  BY <1>0, <1>1, MovingOnIsCalm DEF GetRun, Calls
<1>2. CASE Discard(p)
  BY <1>0, <1>2, MovingOnIsCalm DEF Discard, Calls, Delete
<1>3. CASE CompleteFailed(p)
  BY <1>0, <1>3, MovingOnIsCalm DEF CompleteFailed, Calls
<1>4. CASE CheckBase(p)
  BY <1>0, <1>4, MovingOnIsCalm DEF CheckBase, Calls
<1>5. CASE CompleteSucceeded(p)
  BY <1>0, <1>5, MovingOnIsCalm DEF CompleteSucceeded, Calls
<1> QED
  BY <1>1, <1>2, <1>3, <1>4, <1>5

LEMMA AnswersKeepTypes ==
  ASSUME BaseInv, NEW p \in Post, AnswerReport(p)
  PROVE  /\ BackupTypeOK' /\ RunsAreKnown' /\ Calm
         /\ posts'[p].pc = "idle" /\ \A q \in Post : q # p => posts'[q] = posts[q]
<1> USE DEF backupTables, backupHistory
<1> DEFINE r == posts[p].run
<1>0. /\ BackupTypeOK /\ RunsAreKnown /\ posts \in [Post -> PostState] /\ posts[p] \in PostState
      /\ r \in DOMAIN runs /\ r \in RunId /\ runs[r] \in RunRow
      /\ NoPost \in PostState /\ NoPost.pc = "idle" /\ NoPost.doomed = {}
      /\ tasks \in [RunId -> TaskState] /\ tasks[r] \in TaskState
      /\ Done(r) \in TaskState
  <2>1. BackupTypeOK /\ RunsAreKnown /\ posts[p].pc = "answer"
    BY DEF BaseInv, AnswerReport
  <2>2. r \in DOMAIN runs /\ r \in RunId
    BY <2>1 DEF RunsAreKnown, BackupTypeOK, RunId
  <2>3. runs[r] \in RunRow
    BY <2>1, <2>2 DEF BackupTypeOK
  <2>4. /\ posts \in [Post -> PostState] /\ posts[p] \in PostState
        /\ tasks \in [RunId -> TaskState] /\ tasks[r] \in TaskState
    BY <2>1, <2>2 DEF BackupTypeOK
  <2> QED
    BY <2>1, <2>2, <2>3, <2>4, NoRecordsAreTyped, DoneIs
<1>1. /\ posts' \in [Post -> PostState] /\ posts'[p].pc = "idle" /\ posts'[p].doomed = {}
      /\ \A q \in Post : q # p => posts'[q] = posts[q]
  BY <1>0 DEF AnswerReport
<1>2. /\ tasks' \in [RunId -> TaskState]
      /\ \A q \in RunId : tasks'[q].pc # "none" => q \in DOMAIN runs
  <2>1. CASE tasks' = tasks
    BY <1>0, <2>1 DEF RunsAreKnown
  <2>2. CASE tasks' = [tasks EXCEPT ![r] = Done(r)]
    BY <1>0, <2>2 DEF RunsAreKnown
  <2> QED
    BY <2>1, <2>2 DEF AnswerReport
<1>3. cache' \in [chain : 0..MaxRuns, version : 0..MaxVersion]
  <2>1. cache \in [chain : 0..MaxRuns, version : 0..MaxVersion]
    BY <1>0 DEF BackupTypeOK
  <2>2. [chain |-> runs[r].chain, version |-> tasks[r].seen] \in [chain : 0..MaxRuns, version : 0..MaxVersion]
    BY <1>0 DEF RunRow, TaskState, RunId
  <2>3. cache' = cache \/ cache' = [chain |-> runs[r].chain, version |-> tasks[r].seen]
    BY DEF AnswerReport, SaveCache
  <2> QED
    BY <2>1, <2>2, <2>3
<1>4. unlisted' \subseteq RunId
  <2>1. unlisted' \in {unlisted, unlisted \cup {runs[r].chain}}
    BY DEF AnswerReport
  <2>2. unlisted \subseteq RunId /\ runs[r].chain \in RunId
    BY <1>0 DEF BackupTypeOK, RunRow
  <2> QED
    BY <2>1, <2>2
<1>5. BackupTypeOK'
  <2>1. QueueTypeOK'
    BY <1>0, BackupQueueOperations DEF BackupTypeOK, AnswerReport
  <2> QED
    BY <1>0, <1>1, <1>2, <1>3, <1>4, <2>1 DEF BackupTypeOK, AnswerReport
<1>6. RunsAreKnown'
  BY <1>0, <1>1, <1>2 DEF RunsAreKnown, AnswerReport
<1>7. Calm
  BY <1>1 DEF AnswerReport, Calm, KeysKept, RunningShrinks, Running, SetsKept, PostsCalm, PassesCalm, Calls
<1> QED
  BY <1>1, <1>5, <1>6, <1>7

\* Rows and their dying ones stay what they are in a calm step.
LEMMA CalmKeepsRows ==
  ASSUME BaseInv, BackupTypeOK', Calm
  PROVE  ManifestRows' /\ DyingRows' /\ \A p \in Post : Going(p)' \subseteq Going(p)
<1>1. ManifestRows'
  BY DEF BaseInv, ManifestRows, RowOf, Calm, KeysKept, SetsKept
<1>2. \A p \in Post : Going(p)' \subseteq Going(p)
  BY DEF Calm, PostsCalm, Going, Calls
<1>3. DyingRows'
  <2> SUFFICES ASSUME NEW p \in Post
               PROVE  /\ posts'[p].pc \notin {"delete", "drop"} => posts'[p].doomed = {}
                      /\ posts'[p].pc = "drop" => posts'[p].row \in FileSet
                      /\ \A x \in Going(p)' : RowOf(x)' /\ \A s \in fileSets' : s.id = x.id => s = x
    BY DEF DyingRows
  <2>1. /\ posts[p].pc \notin {"delete", "drop"} => posts[p].doomed = {}
        /\ posts[p].pc = "drop" => posts[p].row \in FileSet
        /\ \A x \in Going(p) : RowOf(x) /\ \A s \in fileSets : s.id = x.id => s = x
    BY DEF BaseInv, DyingRows
  <2>2. \A x : RowOf(x) => RowOf(x)'
    BY DEF RowOf, Calm, KeysKept, SetsKept
  <2> QED
    BY <1>2, <2>1, <2>2 DEF Calm, SetsKept, PostsCalm, Calls
<1> QED
  BY <1>1, <1>2, <1>3

-------------------------------------------------------------------------------
(* The steps that plan, start, list and rotate.                            *)

\* A pass begins.
LEMMA BeginMeans ==
  ASSUME BaseInv, NEW t \in Thread, BeginDispatch(t)
  PROVE  /\ BackupTypeOK' /\ RunsAreKnown'
         /\ UNCHANGED <<runs, fileSets, recorded, posts, tasks, store, unlisted>> /\ Running = {}
         /\ threads'[t].pc = "plan" /\ \A u \in Thread : u # t => threads'[u] = threads[u]
         /\ ~overlapped' => ~overlapped /\ \A u \in Thread : threads[u].pc \notin Dispatching
<1> USE DEF backupTables, backupAgent
<1>0. BackupTypeOK /\ RunsAreKnown /\ threads \in [Thread -> PassState] /\ threads[t] \in PassState
  BY DEF BaseInv, BackupTypeOK
<1>1. second' \in 0..MaxSecond
  BY <1>0 DEF BeginDispatch, BackupTypeOK
<1>2. [threads[t] EXCEPT !.pc = "plan", !.now = second'] \in PassState
  BY <1>0, <1>1 DEF PassState
<1>3. threads' = [threads EXCEPT ![t] = [threads[t] EXCEPT !.pc = "plan", !.now = second']]
  BY DEF BeginDispatch
<1>4. /\ threads' \in [Thread -> PassState]
      /\ threads'[t].pc = "plan" /\ \A u \in Thread : u # t => threads'[u] = threads[u]
  BY <1>0, <1>2, <1>3 DEF PassState
<1>5. QueueTypeOK' /\ overlapped' \in BOOLEAN
  BY <1>0, BackupQueueOperations DEF BeginDispatch, BackupTypeOK
<1>6. BackupTypeOK' /\ RunsAreKnown'
  BY <1>0, <1>1, <1>4, <1>5, ThreadsKeepTypes DEF BeginDispatch, RunsAreKnown
<1> QED
  BY <1>4, <1>6 DEF BeginDispatch

\* A pass plans: a new chain, or the next archive of the newest.
LEMMA PlanMeans ==
  ASSUME BaseInv, NEW t \in Thread, PlanNextRun(t)
  PROVE  /\ BackupTypeOK' /\ RunsAreKnown'
         /\ UNCHANGED <<runs, fileSets, recorded, posts, tasks, store, overlapped, unlisted>>
         /\ threads[t].pc = "plan" /\ threads'[t].pc = "start"
         /\ \A u \in Thread : u # t => threads'[u] = threads[u]
         /\ \/ threads'[t].chain = 0 /\ threads'[t].seq = 0
            \/ /\ threads'[t].seq > 0 /\ Leads(threads'[t].chain)
               /\ Tops(threads'[t].chain, threads'[t].seq - 1)
<1> USE DEF backupTables, backupAgent, backupHistory
<1> DEFINE full == Listed = {} \/ ~Complete(Newest) \/ Cardinality(SetsOf(Newest)) >= FullEvery
           c == IF full THEN 0 ELSE Newest
           n == IF full THEN 0 ELSE 1 + Highest({s.seq : s \in SetsOf(Newest)})
<1>0. /\ BackupTypeOK /\ RunsAreKnown /\ threads \in [Thread -> PassState] /\ threads[t] \in PassState
      /\ Len(runs) \in Nat /\ Len(runs) <= MaxRuns /\ DOMAIN runs = 1..Len(runs)
  BY DEF BaseInv, BackupTypeOK
<1>1. threads' = [threads EXCEPT ![t] = [threads[t] EXCEPT !.pc = "start", !.chain = c, !.seq = n]]
  BY DEF PlanNextRun
<1>2. /\ c \in 0..Len(runs) /\ n \in 0..Len(runs)
      /\ \/ c = 0 /\ n = 0
         \/ n > 0 /\ Leads(c) /\ Tops(c, n - 1)
  <2>1. CASE full
    BY <1>0, <2>1
  <2>2. CASE ~full
    <3>1. Listed # {} /\ c = Newest /\ n = 1 + Highest({s.seq : s \in SetsOf(Newest)})
      BY <2>2
    <3>2. Newest \in Listed /\ Leads(Newest)
      BY <1>0, <3>1, NewestLeads DEF BaseInv
    <3>3. \A s \in fileSets : s.run \in 1..Len(runs) /\ s.seq \in Nat /\ s.seq < s.run
                              /\ s.chain <= s.run /\ s.chain \in Nat
      <4> TAKE s \in fileSets
      <4>1. RowOf(s) /\ s \in FileSet
        BY DEF BaseInv, ManifestRows, BackupTypeOK
      <4>2. runs[s.run].seq < s.run /\ runs[s.run].chain <= s.run
        BY <1>0, <4>1 DEF RunsAreKnown, RowOf
      <4> QED
        BY <1>0, <4>1, <4>2 DEF RowOf, FileSet, RunId
    <3>4. PICK s \in fileSets : s.chain = Newest
      BY <3>2 DEF Listed
    <3>5. Len(runs) - 1 \in Nat /\ Newest \in 0..Len(runs)
      BY <1>0, <3>3, <3>4
    <3>6. \A x \in SetsOf(Newest) : x.seq <= Len(runs) - 1
      BY <1>0, <3>3 DEF SetsOf
    <3>7. /\ Highest({x.seq : x \in SetsOf(Newest)}) \in 0..(Len(runs) - 1)
          /\ Tops(Newest, Highest({x.seq : x \in SetsOf(Newest)}))
      BY <1>0, <3>1, <3>5, <3>6, NewestLeads DEF BaseInv
    <3> HIDE DEF c, n
    <3>8. n - 1 = Highest({x.seq : x \in SetsOf(Newest)}) /\ n \in 0..Len(runs) /\ n > 0
      BY <1>0, <3>1, <3>7
    <3> QED
      BY <3>1, <3>2, <3>5, <3>7, <3>8
  <2> QED
    BY <2>1, <2>2
<1> HIDE DEF c, n, full
<1>3. [threads[t] EXCEPT !.pc = "start", !.chain = c, !.seq = n] \in PassState
  <2>1. c \in 0..MaxRuns /\ n \in 0..MaxRuns
    BY <1>0, <1>2
  <2> QED
    BY <1>0, <2>1 DEF PassState
<1>4. /\ threads' \in [Thread -> PassState]
      /\ threads'[t].pc = "start" /\ threads'[t].chain = c /\ threads'[t].seq = n
      /\ \A u \in Thread : u # t => threads'[u] = threads[u]
  BY <1>0, <1>1, <1>3 DEF PassState
<1>5. QueueTypeOK'
  BY <1>0, BackupQueueOperations DEF PlanNextRun, BackupTypeOK
<1>6. second' \in 0..MaxSecond /\ overlapped' \in BOOLEAN
  BY <1>0 DEF PlanNextRun, BackupTypeOK
<1>7. BackupTypeOK' /\ RunsAreKnown'
  <2>1. /\ c <= Len(runs) /\ n <= Len(runs)
    BY <1>0, <1>2
  <2>2. \A u \in Thread :
             /\ threads'[u].pc = "expire" => threads'[u].stale \subseteq DOMAIN runs
             /\ threads'[u].pc = "start" => threads'[u].seq <= Len(runs) /\ threads'[u].chain <= Len(runs)
             /\ threads'[u].pc \in {"queue", "attach"} => threads'[u].run \in DOMAIN runs
    BY <1>0, <1>4, <2>1 DEF RunsAreKnown
  <2> QED
    BY <1>4, <1>5, <1>6, <2>2, ThreadsKeepTypes DEF PlanNextRun
<1> QED
  BY <1>2, <1>4, <1>7 DEF PlanNextRun, Stands

\* A run starts.
LEMMA StartKeepsTypes ==
  ASSUME BaseInv, NEW t \in Thread, StartFileRun(t)
  PROVE  BackupTypeOK' /\ RunsAreKnown' /\ ManifestRows' /\ DyingRows'
<1> USE DEF backupAgent, backupHistory
<1> DEFINE r == Len(runs) + 1
<1>0. /\ BackupTypeOK /\ RunsAreKnown /\ threads[t].pc = "start" /\ Len(runs) \in Nat
      /\ threads[t] \in PassState
  <2>1. BackupTypeOK /\ RunsAreKnown
    BY DEF BaseInv
  <2>2. threads[t].pc = "start"
    BY DEF StartFileRun, Stands
  <2> QED
    BY <2>1, <2>2 DEF BackupTypeOK
<1>1. /\ r \in RunId /\ r \notin DOMAIN runs /\ DOMAIN runs' = DOMAIN runs \cup {r}
      /\ runs' \in Seq(RunRow) /\ Len(runs') = r
      /\ runs'[r].seq = threads[t].seq
      /\ runs'[r].chain = IF threads[t].chain = 0 THEN r ELSE threads[t].chain
      /\ \A q \in DOMAIN runs : runs'[q] = runs[q]
      /\ threads' \in [Thread -> PassState]
      /\ threads'[t].pc = "queue" /\ threads'[t].run = r
      /\ \A u \in Thread : u # t => threads'[u] = threads[u]
  BY <1>0, StartMeans
<1>2. threads[t].seq <= Len(runs) /\ threads[t].chain <= Len(runs)
      /\ threads[t].seq \in Nat /\ threads[t].chain \in Nat
  BY <1>0 DEF RunsAreKnown, PassState
<1>3. runs'[r].seq < r /\ runs'[r].chain <= r
  BY <1>0, <1>1, <1>2
<1> HIDE DEF r
<1>4. BackupTypeOK'
  <2>1. QueueTypeOK'
    BY <1>0, BackupQueueOperations DEF BackupTypeOK, StartFileRun
  <2>2. Len(runs') <= MaxRuns
    BY <1>1 DEF RunId
  <2> QED
    BY <1>0, <1>1, <2>1, <2>2 DEF BackupTypeOK, StartFileRun
<1>5. \A u \in Thread : threads[u].pc = "start" =>
          threads[u].seq <= Len(runs') /\ threads[u].chain <= Len(runs')
  <2> SUFFICES ASSUME NEW u \in Thread, threads[u].pc = "start"
               PROVE  threads[u].seq <= Len(runs') /\ threads[u].chain <= Len(runs')
    OBVIOUS
  <2>1. threads[u].seq <= Len(runs) /\ threads[u].chain <= Len(runs) /\ threads[u] \in PassState
    BY <1>0 DEF RunsAreKnown, BackupTypeOK
  <2>2. threads[u].seq \in Nat /\ threads[u].chain \in Nat
    BY <2>1 DEF PassState
  <2> QED
    BY <1>0, <1>1, <2>1, <2>2 DEF r
<1>6. RunsAreKnown'
  BY <1>0, <1>1, <1>3, <1>5 DEF RunsAreKnown, StartFileRun
<1>7. ManifestRows'
  BY <1>1 DEF BaseInv, ManifestRows, RowOf, StartFileRun
<1>8. DyingRows'
  BY <1>1 DEF BaseInv, DyingRows, RowOf, Going, StartFileRun
<1> QED
  BY <1>4, <1>6, <1>7, <1>8

NewSet(r) == [id |-> recorded + 1, run |-> r, chain |-> runs[r].chain, seq |-> runs[r].seq,
              lists |-> tasks[r].packs]

\* An archive is listed.
LEMMA RecordMeans ==
  ASSUME BaseInv, NEW p \in Post, RecordFileSet(p)
  PROVE  LET r == posts[p].run IN
         /\ BackupTypeOK' /\ RunsAreKnown' /\ ManifestRows' /\ DyingRows'
         /\ r \in DOMAIN runs /\ r \in RunId /\ posts[p].pc = "insert"
         /\ fileSets' = fileSets \cup {NewSet(r)} /\ recorded' = recorded + 1
         /\ NewSet(r) \in FileSet /\ \A s \in fileSets : s.id < recorded + 1
         /\ NewSet(r).id = recorded + 1 /\ NewSet(r).run = r /\ NewSet(r).chain = runs[r].chain
         /\ NewSet(r).seq = runs[r].seq /\ NewSet(r).lists = tasks[r].packs
         /\ UNCHANGED <<runs, threads, store, tasks, cache, file, orders, queueVars, unlisted>>
         /\ posts'[p].pc = "finish" /\ posts'[p].run = r /\ posts'[p].ok = posts[p].ok
         /\ posts'[p].doomed = {} /\ posts[p].doomed = {}
         /\ \A q \in Post : q # p => posts'[q] = posts[q]
         /\ ~overlapped' => ~overlapped /\ r \in Running /\ ~IsListed(r)
         /\ \A q \in Post : Going(q)' = Going(q)
<1> USE DEF backupAgent
<1> DEFINE r == posts[p].run
           x == NewSet(r)
<1>0. /\ BackupTypeOK /\ RunsAreKnown /\ posts[p].pc = "insert" /\ r \in DOMAIN runs
      /\ posts[p].doomed = {}
  <2>1. BackupTypeOK /\ RunsAreKnown /\ DyingRows
    BY DEF BaseInv
  <2>2. posts[p].pc = "insert"
    BY DEF RecordFileSet, Serves
  <2> QED
    BY <2>1, <2>2 DEF RunsAreKnown, DyingRows
<1>1. /\ runs \in Seq(RunRow) /\ Len(runs) <= MaxRuns /\ tasks \in [RunId -> TaskState] /\ recorded \in Nat
      /\ fileSets \subseteq FileSet
  BY <1>0 DEF BackupTypeOK
<1>2. r \in RunId /\ runs[r] \in RunRow /\ tasks[r] \in TaskState
  BY <1>0, <1>1 DEF RunId
<1>3. /\ x \in FileSet /\ x.id = recorded + 1 /\ x.run = r /\ x.chain = runs[r].chain
      /\ x.seq = runs[r].seq /\ x.lists = tasks[r].packs
  <2>1. recorded + 1 \in Nat /\ runs[r].chain \in RunId /\ runs[r].seq \in 0..MaxRuns /\ tasks[r].packs \in Holding
    <3>1. runs[r].chain \in RunId /\ runs[r].seq \in 0..MaxRuns
      BY <1>2 DEF RunRow
    <3>2. tasks[r].packs \in Holding
      BY <1>2 DEF TaskState
    <3> QED
      BY <1>1, <3>1, <3>2
  <2> QED
    BY <1>2, <2>1 DEF NewSet, FileSet
<1>4. /\ fileSets' = fileSets \cup {x} /\ recorded' = recorded + 1
      /\ UNCHANGED <<runs, threads, store, tasks, cache, file, orders, queueVars, unlisted>>
  BY DEF RecordFileSet, NewSet
<1> HIDE DEF x
<1>5. /\ posts' \in [Post -> PostState]
      /\ posts'[p].pc = "finish" /\ posts'[p].run = r /\ posts'[p].ok = posts[p].ok
      /\ posts'[p].doomed = posts[p].doomed /\ posts'[p].row = posts[p].row
      /\ \A q \in Post : q # p => posts'[q] = posts[q]
  BY <1>0, OnwardMeans DEF RecordFileSet
<1>6. ~overlapped' => ~overlapped /\ r \in Running /\ ~IsListed(r)
  BY <1>0 DEF RecordFileSet, Running, IsListed
<1>7. BackupTypeOK'
  <2>1. QueueTypeOK'
    BY <1>0, BackupQueueOperations DEF BackupTypeOK, RecordFileSet
  <2>2. fileSets' \subseteq FileSet /\ recorded' \in Nat /\ overlapped' \in BOOLEAN
    BY <1>1, <1>3, <1>4 DEF RecordFileSet
  <2> QED
    BY <1>0, <1>5, <2>1, <2>2 DEF BackupTypeOK, RecordFileSet
<1>8. RunsAreKnown'
  BY <1>0, <1>5 DEF RunsAreKnown, RecordFileSet
<1>9. \A s \in fileSets : RowOf(s) /\ s.id \in 1..recorded /\ s.id < recorded + 1
  BY <1>1 DEF BaseInv, ManifestRows, RowOf
<1>10. ManifestRows'
  <2>1. IsFiniteSet(fileSets')
    BY <1>4, FS_AddElement DEF BaseInv, ManifestRows
  <2>2. \A s \in fileSets' : RowOf(s)'
    BY <1>0, <1>1, <1>3, <1>4, <1>9 DEF RowOf
  <2>3. \A s, o \in fileSets' : s.id = o.id => s = o
    BY <1>1, <1>3, <1>4, <1>9 DEF BaseInv, ManifestRows
  <2> QED
    BY <2>1, <2>2, <2>3 DEF ManifestRows
<1>11. \A q \in Post : Going(q)' = Going(q)
  BY <1>0, <1>5 DEF Going
<1>12. DyingRows'
  <2> SUFFICES ASSUME NEW q \in Post
               PROVE  /\ posts'[q].pc \notin {"delete", "drop"} => posts'[q].doomed = {}
                      /\ posts'[q].pc = "drop" => posts'[q].row \in FileSet
                      /\ \A y \in Going(q)' : RowOf(y)' /\ \A s \in fileSets' : s.id = y.id => s = y
    BY DEF DyingRows
  <2>1. /\ posts[q].pc \notin {"delete", "drop"} => posts[q].doomed = {}
        /\ posts[q].pc = "drop" => posts[q].row \in FileSet
        /\ \A y \in Going(q) : RowOf(y) /\ \A s \in fileSets : s.id = y.id => s = y
    BY DEF BaseInv, DyingRows
  <2>2. \A y \in Going(q) : RowOf(y)' /\ y.id < recorded + 1 /\ y.id \in Nat
    BY <1>1, <1>4, <2>1 DEF RowOf
  <2> QED
    BY <1>0, <1>1, <1>3, <1>4, <1>5, <1>11, <2>1, <2>2
<1>13. \A s \in fileSets : s.id < recorded + 1
  BY <1>9
<1> QED
  BY <1>0, <1>2, <1>3, <1>4, <1>5, <1>6, <1>7, <1>8, <1>13, <1>10, <1>11, <1>12 DEF x

\* A step of a rotation: which rows it still has to go through.
LEMMA RotationKeepsTypes ==
  ASSUME BaseInv, NEW p \in Post, posts' \in [Post -> PostState], posts[p].pc # "idle",
         posts'[p].run = posts[p].run, \A q \in Post : q # p => posts'[q] = posts[q],
         UNCHANGED <<queueVars, runs, recorded, orders, viaHub, threads, cancelling, backupAgent,
                     second, cancels, backupHistory>>,
         store' \subseteq store, fileSets' \subseteq fileSets,
         posts'[p].pc \notin {"delete", "drop"} => posts'[p].doomed = {},
         posts'[p].pc = "drop" => posts'[p].row \in FileSet,
         Going(p)' \subseteq Going(p) \cup fileSets
  PROVE  BackupTypeOK' /\ RunsAreKnown' /\ ManifestRows' /\ DyingRows' /\ KeysKept
<1> USE DEF backupAgent, backupHistory
<1>0. BackupTypeOK /\ RunsAreKnown
  BY DEF BaseInv
<1>1. BackupTypeOK'
  <2>1. QueueTypeOK'
    BY <1>0, BackupQueueOperations DEF BackupTypeOK
  <2> QED
    BY <1>0, <2>1 DEF BackupTypeOK
<1>2. RunsAreKnown'
  BY <1>0 DEF RunsAreKnown
<1>3. ManifestRows'
  <2>1. IsFiniteSet(fileSets')
    BY FS_Subset DEF BaseInv, ManifestRows
  <2> QED
    BY <2>1 DEF BaseInv, ManifestRows, RowOf
<1>4. DyingRows'
  <2> SUFFICES ASSUME NEW q \in Post
               PROVE  /\ posts'[q].pc \notin {"delete", "drop"} => posts'[q].doomed = {}
                      /\ posts'[q].pc = "drop" => posts'[q].row \in FileSet
                      /\ \A y \in Going(q)' : RowOf(y)' /\ \A s \in fileSets' : s.id = y.id => s = y
    BY DEF DyingRows
  <2>1. /\ posts[q].pc \notin {"delete", "drop"} => posts[q].doomed = {}
        /\ posts[q].pc = "drop" => posts[q].row \in FileSet
        /\ \A y \in Going(q) \cup fileSets : RowOf(y) /\ \A s \in fileSets : s.id = y.id => s = y
    BY DEF BaseInv, DyingRows, ManifestRows
  <2>2. \A y : RowOf(y) => RowOf(y)'
    BY DEF RowOf
  <2>3. Going(q)' \subseteq Going(q) \cup fileSets
    BY DEF Going
  <2> QED
    BY <2>1, <2>2, <2>3
<1> QED
  BY <1>1, <1>2, <1>3, <1>4 DEF KeysKept

\* A rotation looks for what is doomed.
LEMMA RotateMeans ==
  ASSUME BaseInv, NEW p \in Post, RotateChains(p)
  PROVE  /\ BackupTypeOK' /\ RunsAreKnown' /\ ManifestRows' /\ DyingRows' /\ KeysKept
         /\ UNCHANGED <<runs, fileSets, recorded, threads, store, tasks, cache, file, orders, queueVars,
                        overlapped, unlisted>>
         /\ posts[p].pc = "chains" /\ posts'[p].pc \in {"answer", "delete"}
         /\ posts'[p].run = posts[p].run /\ posts'[p].ok = posts[p].ok
         /\ \A e \in posts'[p].doomed : e.row \in fileSets /\ e.row.chain \in Doomed
         /\ \A e \in posts'[p].doomed : \A s \in SetsOf(e.row.chain) :
                [order |-> e.order, row |-> s] \in posts'[p].doomed
         /\ \A q \in Post : q # p => posts'[q] = posts[q]
<1> USE DEF backupTables, backupAgent, backupHistory
<1> DEFINE D == {[order |-> LastOf(s.chain), row |-> s] : s \in {s \in fileSets : s.chain \in Doomed}}
           pc == IF D = {} THEN "answer" ELSE "delete"
<1>0. /\ BackupTypeOK /\ ManifestRows /\ posts \in [Post -> PostState] /\ posts[p] \in PostState
      /\ posts[p].pc = "chains" /\ fileSets \subseteq FileSet
  BY DEF BaseInv, BackupTypeOK, RotateChains, Serves
<1>1. posts' = [posts EXCEPT ![p] = [posts[p] EXCEPT !.doomed = D, !.pc = pc]]
  BY DEF RotateChains
<1>2. \A c \in Listed : LastOf(c) \in Nat
  <2> SUFFICES ASSUME NEW c \in Listed PROVE LastOf(c) \in Nat
    OBVIOUS
  <2>1. Manifest(fileSets, recorded) /\ c \in Chains(fileSets) /\ LastOf(c) = LastIn(fileSets, c)
    BY <1>0, ManifestIs DEF Listed, Chains, LastOf, LastIn, SetsOf, OfChain
  <2> QED
    BY <2>1, LastIsListed
<1>3. D \subseteq Dying
  <2> SUFFICES ASSUME NEW s \in fileSets, s.chain \in Doomed
               PROVE  [order |-> LastOf(s.chain), row |-> s] \in Dying
    OBVIOUS
  <2>1. s.chain \in Listed /\ s \in FileSet
    BY <1>0 DEF Listed
  <2> QED
    BY <1>2, <2>1 DEF Dying
<1>4. \A e \in D : e.row \in fileSets /\ e.row.chain \in Doomed
  OBVIOUS
<1>5. \A e \in D : \A s \in SetsOf(e.row.chain) : [order |-> e.order, row |-> s] \in D
  BY DEF SetsOf
<1>6. pc \in {"answer", "delete"} /\ (D # {} => pc = "delete")
  OBVIOUS
<1> HIDE DEF D, pc
<1>7. [posts[p] EXCEPT !.doomed = D, !.pc = pc] \in PostState
  BY <1>0, <1>3, <1>6 DEF PostState
<1>8. /\ posts' \in [Post -> PostState] /\ posts'[p].doomed = D /\ posts'[p].pc = pc
      /\ posts'[p].run = posts[p].run /\ posts'[p].ok = posts[p].ok /\ posts'[p].row = posts[p].row
      /\ \A q \in Post : q # p => posts'[q] = posts[q]
  BY <1>0, <1>1, <1>7 DEF PostState
<1>9. Going(p)' \subseteq Going(p) \cup fileSets
  BY <1>4, <1>6, <1>8 DEF Going
<1>10. BackupTypeOK' /\ RunsAreKnown' /\ ManifestRows' /\ DyingRows' /\ KeysKept
  BY <1>0, <1>6, <1>8, <1>9, RotationKeepsTypes DEF RotateChains
<1> QED
  BY <1>0, <1>4, <1>5, <1>6, <1>8, <1>10 DEF RotateChains

\* The archive that goes next is deleted.
LEMMA DeleteMeans ==
  ASSUME BaseInv, NEW p \in Post, DeleteArchive(p)
  PROVE  \E e \in posts[p].doomed :
         /\ BackupTypeOK' /\ RunsAreKnown' /\ ManifestRows' /\ DyingRows' /\ KeysKept
         /\ IsNext(e, p) /\ Delete(KeyOf(e.row.run)) /\ e \in Dying
         /\ UNCHANGED <<runs, fileSets, recorded, threads, tasks, cache, file, orders, queueVars,
                        overlapped, unlisted>>
         /\ posts[p].pc = "delete" /\ posts'[p].pc = "drop" /\ posts'[p].row = e.row
         /\ posts'[p].run = posts[p].run /\ posts'[p].ok = posts[p].ok
         /\ posts'[p].doomed = posts[p].doomed \ {e}
         /\ \A q \in Post : q # p => posts'[q] = posts[q]
         /\ \A q \in Post : Going(q)' = Going(q)
<1> USE DEF backupTables, backupAgent, backupHistory
<1>0. /\ posts \in [Post -> PostState] /\ posts[p] \in PostState /\ posts[p].pc = "delete"
  BY DEF BaseInv, BackupTypeOK, DeleteArchive, Serves
<1>1. PICK e \in posts[p].doomed :
         /\ IsNext(e, p) /\ Delete(KeyOf(e.row.run))
         /\ posts' = [posts EXCEPT ![p] = [posts[p] EXCEPT !.pc = "drop", !.row = e.row, !.doomed = @ \ {e}]]
  BY DEF DeleteArchive
<1>2. e \in Dying /\ e.row \in FileSet
  BY <1>0, <1>1 DEF PostState, Dying
<1>3. [posts[p] EXCEPT !.pc = "drop", !.row = e.row, !.doomed = @ \ {e}] \in PostState
  BY <1>0, <1>2 DEF PostState
<1>4. /\ posts' \in [Post -> PostState] /\ posts'[p].doomed = posts[p].doomed \ {e} /\ posts'[p].pc = "drop"
      /\ posts'[p].run = posts[p].run /\ posts'[p].ok = posts[p].ok /\ posts'[p].row = e.row
      /\ \A q \in Post : q # p => posts'[q] = posts[q]
  BY <1>0, <1>1, <1>3 DEF PostState
<1>5. \A q \in Post : Going(q)' = Going(q)
  BY <1>0, <1>1, <1>4 DEF Going
<1>6. BackupTypeOK' /\ RunsAreKnown' /\ ManifestRows' /\ DyingRows' /\ KeysKept
  <2>1. store' \subseteq store
    BY <1>1 DEF Delete
  <2>2. Going(p)' \subseteq Going(p) \cup fileSets
    BY <1>5
  <2> QED
    BY <1>0, <1>2, <1>4, <2>1, <2>2, RotationKeepsTypes DEF DeleteArchive
<1> QED
  BY <1>0, <1>1, <1>2, <1>4, <1>5, <1>6 DEF DeleteArchive

LEMMA RestIs ==
  ASSUME NEW p \in Post, posts \in [Post -> PostState], NEW D \in SUBSET posts[p].doomed,
         posts' = [posts EXCEPT ![p] = Rest(p, D)]
  PROVE  /\ posts' \in [Post -> PostState] /\ posts'[p].doomed = D
         /\ posts'[p].pc = IF D = {} THEN "answer" ELSE "delete"
         /\ posts'[p].run = posts[p].run /\ posts'[p].ok = posts[p].ok
         /\ \A q \in Post : q # p => posts'[q] = posts[q]
<1> DEFINE pc == IF D = {} THEN "answer" ELSE "delete"
<1>1. posts[p] \in PostState /\ pc \in {"answer", "delete"} /\ D \subseteq Dying
  BY DEF PostState
<1>2. posts' = [posts EXCEPT ![p] = [posts[p] EXCEPT !.doomed = D, !.row = NoSet, !.pc = pc]]
  BY DEF Rest
<1> HIDE DEF pc
<1>3. [posts[p] EXCEPT !.doomed = D, !.row = NoSet, !.pc = pc] \in PostState
  BY <1>1 DEF PostState
<1>4. /\ posts' \in [Post -> PostState] /\ posts'[p].doomed = D /\ posts'[p].pc = pc
      /\ posts'[p].run = posts[p].run /\ posts'[p].ok = posts[p].ok
      /\ \A q \in Post : q # p => posts'[q] = posts[q]
  <2>1. posts' \in [Post -> PostState] /\ \A q \in Post : q # p => posts'[q] = posts[q]
    BY <1>2, <1>3
  <2>2. posts'[p] = [posts[p] EXCEPT !.doomed = D, !.row = NoSet, !.pc = pc]
    BY <1>2
  <2> QED
    BY <1>1, <2>1, <2>2 DEF PostState
<1> QED
  BY <1>4 DEF pc

\* The destination refuses, and the chain is left as it is.
LEMMA RefusalMeans ==
  ASSUME BaseInv, NEW p \in Post, DeleteFails(p)
  PROVE  /\ BackupTypeOK' /\ RunsAreKnown' /\ ManifestRows' /\ DyingRows' /\ KeysKept
         /\ UNCHANGED <<runs, fileSets, recorded, threads, store, tasks, cache, file, orders, queueVars,
                        overlapped, unlisted>>
         /\ posts[p].pc = "delete" /\ posts'[p].pc \in {"answer", "delete"}
         /\ posts'[p].run = posts[p].run /\ posts'[p].ok = posts[p].ok
         /\ \E c : posts'[p].doomed = {o \in posts[p].doomed : o.row.chain # c}
         /\ \A q \in Post : q # p => posts'[q] = posts[q]
         /\ \A q \in Post : Going(q)' \subseteq Going(q)
<1> USE DEF backupTables, backupAgent, backupHistory
<1>0. /\ posts \in [Post -> PostState] /\ posts[p] \in PostState /\ posts[p].pc = "delete"
  BY DEF BaseInv, BackupTypeOK, DeleteFails, Serves
<1>1. PICK e \in posts[p].doomed :
         posts' = [posts EXCEPT ![p] = Rest(p, {o \in posts[p].doomed : o.row.chain # e.row.chain})]
  BY DEF DeleteFails
<1> DEFINE D == {o \in posts[p].doomed : o.row.chain # e.row.chain}
<1>2. D \subseteq posts[p].doomed
  OBVIOUS
<1>3. /\ posts' \in [Post -> PostState] /\ posts'[p].doomed = D
      /\ posts'[p].pc = IF D = {} THEN "answer" ELSE "delete"
      /\ posts'[p].run = posts[p].run /\ posts'[p].ok = posts[p].ok
      /\ \A q \in Post : q # p => posts'[q] = posts[q]
  BY <1>0, <1>1, <1>2, RestIs
<1>4. \A q \in Post : Going(q)' \subseteq Going(q)
  BY <1>0, <1>2, <1>3 DEF Going
<1>5. BackupTypeOK' /\ RunsAreKnown' /\ ManifestRows' /\ DyingRows' /\ KeysKept
  BY <1>0, <1>3, <1>4, RotationKeepsTypes DEF DeleteFails
<1> QED
  BY <1>0, <1>3, <1>4, <1>5 DEF DeleteFails

\* The rows of a deleted archive are dropped.
LEMMA DropMeans ==
  ASSUME BaseInv, NEW p \in Post, DropRows(p)
  PROVE  /\ BackupTypeOK' /\ RunsAreKnown' /\ ManifestRows' /\ DyingRows' /\ KeysKept
         /\ UNCHANGED <<runs, recorded, threads, store, tasks, cache, file, orders, queueVars,
                        overlapped, unlisted>>
         /\ posts[p].pc = "drop" /\ posts'[p].pc \in {"answer", "delete"}
         /\ posts'[p].run = posts[p].run /\ posts'[p].ok = posts[p].ok
         /\ posts'[p].doomed = posts[p].doomed /\ posts[p].row \in Going(p)
         /\ fileSets' = fileSets \ {posts[p].row}
         /\ \A q \in Post : q # p => posts'[q] = posts[q]
         /\ \A q \in Post : Going(q)' \subseteq Going(q)
<1> USE DEF backupTables, backupAgent, backupHistory
<1>0. /\ posts \in [Post -> PostState] /\ posts[p] \in PostState /\ posts[p].pc = "drop"
  BY DEF BaseInv, BackupTypeOK, DropRows, Serves
<1>1. posts' = [posts EXCEPT ![p] = Rest(p, posts[p].doomed)]
  BY DEF DropRows
<1>2. /\ posts' \in [Post -> PostState] /\ posts'[p].doomed = posts[p].doomed
      /\ posts'[p].pc = IF posts[p].doomed = {} THEN "answer" ELSE "delete"
      /\ posts'[p].run = posts[p].run /\ posts'[p].ok = posts[p].ok
      /\ \A q \in Post : q # p => posts'[q] = posts[q]
  BY <1>0, <1>1, RestIs
<1>3. \A q \in Post : Going(q)' \subseteq Going(q)
  BY <1>0, <1>2 DEF Going
<1>4. posts[p].row \in Going(p)
  BY <1>0 DEF Going
<1>5. \A s \in fileSets : s.id = posts[p].row.id => s = posts[p].row
  BY <1>4 DEF BaseInv, DyingRows
<1>6. fileSets' = fileSets \ {posts[p].row}
  BY <1>5 DEF DropRows
<1>7. BackupTypeOK' /\ RunsAreKnown' /\ ManifestRows' /\ DyingRows' /\ KeysKept
  BY <1>0, <1>2, <1>3, <1>6, RotationKeepsTypes DEF DropRows
<1> QED
  BY <1>0, <1>2, <1>3, <1>4, <1>6, <1>7 DEF DropRows

-------------------------------------------------------------------------------
(* The unconditional part.                                                 *)

CalmStep ==
    \/ Edit \/ AgentRestarts \/ LookToCancel \/ RecallBackup \/ CloseCancelled \/ HubStops
    \/ \E a \in Agent, m \in Machine : TakeBackups(a, m)
    \/ \E c \in Command : BackupLapses(c)
    \/ \E r \in RunId :
           \/ Select(r) \/ Upload(r) \/ BeginRelay(r) \/ GivesUp(r) \/ BackupFails(r) \/ TimesOut(r)
           \/ RelayFails(r) \/ \E p \in Post : Send(r, p)
    \/ \E t \in Thread :
           BeginExpiry(t) \/ DispatchFails(t) \/ QueueBackup(t) \/ AttachCommand(t) \/ ExpireRun(t)
    \/ \E p \in Post :
           GetRun(p) \/ Discard(p) \/ CompleteFailed(p) \/ CheckBase(p) \/ CompleteSucceeded(p) \/ AnswerReport(p)
    \/ UNCHANGED backupVars

LEMMA StepKinds ==
  ASSUME [BackupNext]_backupVars
  PROVE  \/ CalmStep
         \/ \E t \in Thread : BeginDispatch(t) \/ PlanNextRun(t) \/ StartFileRun(t)
         \/ \E p \in Post : RecordFileSet(p) \/ RotateChains(p) \/ DeleteArchive(p) \/ DeleteFails(p) \/ DropRows(p)
BY DEF BackupNext, DispatchStep, CancelRunStep, AgentStep, ReportStep, BackupFault, CalmStep

LEMMA CalmStepIsCalm ==
  ASSUME BaseInv, CalmStep
  PROVE  BackupTypeOK' /\ RunsAreKnown' /\ Calm
<1>1. CASE UNCHANGED backupVars
  <2>1. /\ UNCHANGED <<queueVars, backupTables, orders, threads, posts, cancelling, tasks>>
        /\ UNCHANGED <<store, viaHub, cache, file, second, cancels, overlapped, unlisted, runs, fileSets, recorded>>
    BY <1>1 DEF backupVars, backupOwn, backupTables, backupHub, backupAgent, backupHistory
  <2>2. QueueTypeOK'
    BY <2>1, BackupQueueOperations DEF BaseInv, BackupTypeOK
  <2>3. BackupTypeOK'
    BY <2>1, <2>2 DEF BaseInv, BackupTypeOK
  <2>4. RunsAreKnown'
    BY <2>1 DEF BaseInv, RunsAreKnown
  <2> QED
    BY <2>1, <2>3, <2>4, NothingMovesIsCalm
<1>2. CASE Edit \/ AgentRestarts
  BY <1>2, AgentKeepsTypes
<1>3. ASSUME NEW a \in Agent, NEW m \in Machine, TakeBackups(a, m)  PROVE BackupTypeOK' /\ RunsAreKnown' /\ Calm
  BY <1>3, AgentKeepsTypes
<1>4. ASSUME NEW c \in Command, BackupLapses(c)  PROVE BackupTypeOK' /\ RunsAreKnown' /\ Calm
  BY <1>4, AgentKeepsTypes
<1>5. ASSUME NEW r \in RunId,
             Select(r) \/ Upload(r) \/ BeginRelay(r) \/ GivesUp(r) \/ BackupFails(r) \/ TimesOut(r)
      PROVE  BackupTypeOK' /\ RunsAreKnown' /\ Calm
  BY <1>5, AgentKeepsTypes
<1>6. ASSUME NEW r \in RunId, RelayFails(r) \/ \E p \in Post : Send(r, p)
      PROVE  BackupTypeOK' /\ RunsAreKnown' /\ Calm
  BY <1>6, RelayFailsKeepsTypes, SendKeepsTypes
<1>7. ASSUME NEW t \in Thread,
             BeginExpiry(t) \/ DispatchFails(t) \/ QueueBackup(t) \/ AttachCommand(t) \/ ExpireRun(t)
      PROVE  BackupTypeOK' /\ RunsAreKnown' /\ Calm
  BY <1>7, PassesKeepTypes
<1>8. ASSUME NEW p \in Post, GetRun(p) \/ Discard(p) \/ CompleteFailed(p) \/ CheckBase(p)
                             \/ CompleteSucceeded(p) \/ AnswerReport(p)
      PROVE  BackupTypeOK' /\ RunsAreKnown' /\ Calm
  BY <1>8, ReportsKeepTypes, AnswersKeepTypes
<1>9. CASE LookToCancel \/ RecallBackup \/ CloseCancelled \/ HubStops
  BY <1>9, CancelsKeepTypes
<1> QED
  BY <1>1, <1>2, <1>3, <1>4, <1>5, <1>6, <1>7, <1>8, <1>9 DEF CalmStep

LEMMA BaseInvInit == BackupInit => BaseInv
<1> SUFFICES ASSUME BackupInit PROVE BaseInv
  OBVIOUS
<1> USE DEF BackupInit
<1>0. /\ fileSets \subseteq FileSet /\ store \subseteq [key : Key, holds : Holding] /\ viaHub \in BOOLEAN
      /\ cache \in [chain : 0..MaxRuns, version : 0..MaxVersion]
      /\ recorded \in Nat /\ overlapped \in BOOLEAN /\ unlisted \subseteq RunId
  <2>1. fileSets \subseteq FileSet /\ store \subseteq [key : Key, holds : Holding] /\ unlisted \subseteq RunId
    OBVIOUS
  <2>2. [chain |-> 0, version |-> 0] \in [chain : 0..MaxRuns, version : 0..MaxVersion]
    OBVIOUS
  <2>3. viaHub \in BOOLEAN /\ overlapped \in BOOLEAN
    OBVIOUS
  <2> QED
    BY <2>1, <2>2, <2>3
<1>1. QueueTypeOK
  BY DEF QueueInit, QueueTypeOK, CommandStatus, NoRow
<1>2. runs \in Seq(RunRow) /\ Len(runs) = 0
  OBVIOUS
<1>3. NoCancelling \in [pc : {"idle", "recall", "write"}, run : 0..MaxRuns, command : Command \cup {NoBackup}]
      /\ NoCancelling.pc = "idle"
  BY DEF NoCancelling
<1>4. 0 <= MaxRuns /\ cancelling = NoCancelling
  OBVIOUS
<1>5. orders \in [Command -> 0..MaxRuns] /\ file \in 1..MaxVersion /\ second \in 0..MaxSecond /\ cancels \in 0..MaxCancels
  OBVIOUS
<1>6. threads \in [Thread -> PassState] /\ posts \in [Post -> PostState] /\ tasks \in [RunId -> TaskState]
  BY NoRecordsAreTyped
<1>7. BackupTypeOK
  <2> HIDE DEF BackupInit
  <2> QED
    BY <1>0, <1>1, <1>2, <1>3, <1>4, <1>5, <1>6 DEF BackupTypeOK
<1>8. ManifestRows
  BY FS_EmptySet DEF ManifestRows
<1>9. \A p \in Post : posts[p].pc = "idle" /\ posts[p].doomed = {}
  BY NoRecordsAreTyped
<1>10. DyingRows
  BY <1>9 DEF DyingRows, Going
<1>11. RunsAreKnown
  BY <1>2, <1>3, <1>9, NoRecordsAreTyped DEF RunsAreKnown
<1> QED
  BY <1>7, <1>8, <1>10, <1>11 DEF BaseInv

LEMMA BaseInvStep == BaseInv /\ [BackupNext]_backupVars => BaseInv'
<1> SUFFICES ASSUME BaseInv, [BackupNext]_backupVars PROVE BaseInv'
  OBVIOUS
<1>1. CASE CalmStep
  BY <1>1, CalmStepIsCalm, CalmKeepsRows DEF BaseInv
<1>2. ASSUME NEW t \in Thread, BeginDispatch(t) \/ PlanNextRun(t)  PROVE BaseInv'
  <2>1. BackupTypeOK' /\ RunsAreKnown' /\ UNCHANGED <<runs, fileSets, recorded, posts>>
    BY <1>2, BeginMeans, PlanMeans
  <2>2. ManifestRows' /\ DyingRows'
    BY <2>1 DEF BaseInv, ManifestRows, DyingRows, RowOf, Going
  <2> QED
    BY <2>1, <2>2 DEF BaseInv
<1>3. ASSUME NEW t \in Thread, StartFileRun(t)  PROVE BaseInv'
  BY <1>3, StartKeepsTypes DEF BaseInv
<1>4. ASSUME NEW p \in Post, RecordFileSet(p)  PROVE BaseInv'
  BY <1>4, RecordMeans DEF BaseInv
<1>5. ASSUME NEW p \in Post, RotateChains(p)  PROVE BaseInv'
  BY <1>5, RotateMeans DEF BaseInv
<1>6. ASSUME NEW p \in Post, DeleteArchive(p)  PROVE BaseInv'
  BY <1>6, DeleteMeans DEF BaseInv
<1>7. ASSUME NEW p \in Post, DeleteFails(p)  PROVE BaseInv'
  BY <1>7, RefusalMeans DEF BaseInv
<1>8. ASSUME NEW p \in Post, DropRows(p)  PROVE BaseInv'
  BY <1>8, DropMeans DEF BaseInv
<1> QED
  BY <1>1, <1>2, <1>3, <1>4, <1>5, <1>6, <1>7, <1>8, StepKinds

LEMMA OverlapStays ==
  ASSUME BaseInv, [BackupNext]_backupVars, ~overlapped'
  PROVE  ~overlapped
BY DEF BackupNext, DispatchStep, CancelRunStep, AgentStep, ReportStep, BackupFault, backupVars, backupOwn, backupHistory,
       Edit, AgentRestarts, LookToCancel, RecallBackup, CloseCancelled, HubStops, TakeBackups, BackupLapses,
       Select, Upload, BeginRelay, GivesUp, BackupFails, TimesOut, RelayFails, Send, BeginExpiry, DispatchFails,
       QueueBackup, AttachCommand, ExpireRun, GetRun, Discard, CompleteFailed, CheckBase, CompleteSucceeded,
       AnswerReport, BeginDispatch, PlanNextRun, StartFileRun, RecordFileSet, RotateChains, DeleteArchive,
       DeleteFails, DropRows, CloseOver

-------------------------------------------------------------------------------
(* The manifest, while passes and reports come one after the other.        *)

\* What is said of the listed archives depends on nothing else.
LEMMA ListingsStay ==
  ASSUME SetsKept
  PROVE  /\ \A c : SetsOf(c)' = SetsOf(c) /\ Leads(c)' = Leads(c) /\ \A n : Tops(c, n)' = Tops(c, n)
         /\ \A r : IsListed(r)' = IsListed(r)
         /\ Listed' = Listed /\ Doomed' = Doomed
BY DEF SetsKept, SetsOf, Leads, Tops, IsListed, Listed, Doomed, LastOf

LEMMA CalmKeepsManifest ==
  ASSUME BaseInv, ManifestInv, BackupTypeOK', Calm
  PROVE  ManifestInv'
<1>0. /\ DOMAIN runs' = DOMAIN runs /\ Running' \subseteq Running /\ fileSets' = fileSets /\ recorded' = recorded
      /\ \A q \in DOMAIN runs : runs'[q].chain = runs[q].chain /\ runs'[q].seq = runs[q].seq
      /\ \A p \in Post : Going(p)' \subseteq Going(p)
  BY CalmKeepsRows DEF Calm, RunningShrinks, SetsKept, KeysKept
<1>1. /\ \A c : SetsOf(c)' = SetsOf(c) /\ Leads(c)' = Leads(c) /\ \A n : Tops(c, n)' = Tops(c, n)
      /\ \A r : IsListed(r)' = IsListed(r)
      /\ Listed' = Listed /\ Doomed' = Doomed
  BY ListingsStay DEF Calm
<1>2. OnePass'
  BY DEF ManifestInv, OnePass, Calm, PassesCalm
<1>3. Clear'
  BY <1>0 DEF ManifestInv, Clear, Calm, PassesCalm, Dispatching
<1>4. OneRun'
  BY <1>0 DEF ManifestInv, OneRun
<1>5. PlansHold'
  <2>1. ASSUME NEW t \in Thread, threads'[t].pc = "start"
        PROVE  \/ threads'[t].chain = 0 /\ threads'[t].seq = 0
               \/ /\ threads'[t].seq > 0 /\ Leads(threads[t].chain)'
                  /\ Tops(threads[t].chain, threads[t].seq - 1)'
    <3>1. threads'[t] = threads[t]
      BY <2>1 DEF Calm, PassesCalm, Dispatching
    <3> QED
      BY <1>1, <2>1, <3>1 DEF ManifestInv, PlansHold
  <2>2. ASSUME NEW r \in Running', ~IsListed(r)'
        PROVE  \/ runs'[r].seq = 0 /\ runs'[r].chain = r /\ FreshChain(r)'
               \/ /\ runs'[r].seq > 0 /\ Leads(runs[r].chain)'
                  /\ Tops(runs[r].chain, runs[r].seq - 1)'
    <3>1. r \in Running /\ ~IsListed(r) /\ runs'[r].chain = runs[r].chain /\ runs'[r].seq = runs[r].seq
      BY <1>0, <1>1, <2>2 DEF Running
    <3>2. FreshChain(r) => FreshChain(r)'
      BY <1>0 DEF FreshChain
    <3> QED
      BY <1>1, <3>1, <3>2 DEF ManifestInv, PlansHold
  <2>3. \A s \in fileSets' : s.run \in Running' => s.id = recorded'
    BY <1>0 DEF ManifestInv, PlansHold
  <2> QED
    BY <2>1, <2>2, <2>3 DEF PlansHold
<1>6. ChainsInOrder'
  BY <1>0, <1>1 DEF ManifestInv, ChainsInOrder, ListedOnce
<1>7. GoesFromTheTop'
  <2> SUFFICES ASSUME NEW p \in Post
      PROVE  /\ \A x \in Going(p)' : x.run \notin Running' /\ (x.chain \in Listed' => x.chain \in Doomed')
             /\ \A e \in posts'[p].doomed : \A s \in SetsOf(e.row.chain)' : s.seq > e.row.seq =>
                    \/ [order |-> e.order, row |-> s] \in posts'[p].doomed
                    \/ posts'[p].pc = "drop" /\ posts'[p].row = s
             /\ posts'[p].pc = "drop" => \A s \in SetsOf(posts[p].row.chain)' : s.seq <= posts'[p].row.seq
    BY DEF GoesFromTheTop
  <2>1. \A x \in Going(p)' : x.run \notin Running' /\ (x.chain \in Listed' => x.chain \in Doomed')
    BY <1>0, <1>1 DEF ManifestInv, GoesFromTheTop
  <2>2. CASE /\ posts'[p].doomed = posts[p].doomed /\ posts'[p].row = posts[p].row
             /\ posts'[p].pc = posts[p].pc \/ {posts'[p].pc, posts[p].pc} \cap Calls = {}
    BY <1>1, <2>1, <2>2 DEF ManifestInv, GoesFromTheTop, Calls
  <2>3. CASE posts'[p].doomed = {} /\ posts'[p].pc \notin Calls
    BY <2>1, <2>3 DEF Calls
  <2> QED
    BY <2>2, <2>3 DEF Calm, PostsCalm
<1> QED
  BY <1>2, <1>3, <1>4, <1>5, <1>6, <1>7 DEF ManifestInv

\* A pass that begins finds no run, and neither does the one that plans.
LEMMA PassesKeepManifest ==
  ASSUME BaseInv, ManifestInv, ~overlapped', NEW t \in Thread, BeginDispatch(t) \/ PlanNextRun(t)
  PROVE  ManifestInv'
<1>0. /\ UNCHANGED <<runs, fileSets, recorded, posts>> /\ SetsKept
      /\ \A u \in Thread : u # t => threads'[u] = threads[u]
      /\ threads'[t].pc \in {"plan", "start"} /\ Running = {} /\ Running' = {}
      /\ \A u \in Thread : threads[u].pc \in Dispatching => u = t
  <2>1. CASE BeginDispatch(t)
    BY <2>1, BeginMeans DEF SetsKept, Running
  <2>2. CASE PlanNextRun(t)
    <3>1. Running = {} /\ \A u \in Thread : threads[u].pc \in Dispatching => u = t
      BY <2>2, PlanMeans DEF ManifestInv, Clear, OnePass, Dispatching
    <3> QED
      BY <2>2, <3>1, PlanMeans DEF SetsKept, Running
  <2> QED
    BY <2>1, <2>2
<1>1. /\ \A c : SetsOf(c)' = SetsOf(c) /\ Leads(c)' = Leads(c) /\ \A n : Tops(c, n)' = Tops(c, n)
      /\ \A r : IsListed(r)' = IsListed(r)
      /\ Listed' = Listed /\ Doomed' = Doomed
  BY <1>0, ListingsStay
<1>2. OnePass' /\ Clear' /\ OneRun'
  BY <1>0 DEF OnePass, Clear, OneRun
<1>3. PlansHold'
  <2>1. ASSUME NEW u \in Thread, threads'[u].pc = "start"
        PROVE  \/ threads'[u].chain = 0 /\ threads'[u].seq = 0
               \/ /\ threads'[u].seq > 0 /\ Leads(threads[u].chain)'
                  /\ Tops(threads[u].chain, threads[u].seq - 1)'
    <3>1. u = t
      BY <1>0, <2>1 DEF Dispatching
    <3>2. PlanNextRun(t)
      BY <2>1, <3>1, BeginMeans
    <3> QED
      BY <1>1, <3>1, <3>2, PlanMeans
  <2> QED
    BY <1>0, <2>1 DEF PlansHold
<1>4. ChainsInOrder'
  BY <1>0, <1>1 DEF ManifestInv, ChainsInOrder, ListedOnce
<1>5. GoesFromTheTop'
  <2>1. \A p \in Post : Going(p)' = Going(p)
    BY <1>0 DEF Going
  <2> QED
    BY <1>0, <1>1, <2>1 DEF ManifestInv, GoesFromTheTop
<1> QED
  BY <1>2, <1>3, <1>4, <1>5 DEF ManifestInv

\* Numbers of chains that are listed, or going, are those of runs.
LEMMA ChainsAreRuns ==
  ASSUME BaseInv
  PROVE  /\ \A s : RowOf(s) => s.run \in DOMAIN runs /\ s.chain \in DOMAIN runs /\ s.chain = runs[s.run].chain
         /\ \A c \in Listed : c \in DOMAIN runs
         /\ \A r \in DOMAIN runs : runs[r] \in RunRow /\ runs[r].chain \in DOMAIN runs /\ r \in RunId
         /\ Len(runs) \in Nat /\ DOMAIN runs = 1..Len(runs)
<1>1. runs \in Seq(RunRow) /\ Len(runs) <= MaxRuns /\ Len(runs) \in Nat /\ DOMAIN runs = 1..Len(runs)
  BY DEF BaseInv, BackupTypeOK
<1>2. ASSUME NEW r \in DOMAIN runs
      PROVE  runs[r] \in RunRow /\ runs[r].chain \in DOMAIN runs /\ r \in RunId
  <2>1. runs[r] \in RunRow
    BY <1>1
  <2>2. runs[r].chain \in 1..MaxRuns /\ runs[r].chain <= r
    BY <2>1 DEF RunRow, RunId, BaseInv, RunsAreKnown
  <2>3. runs[r].chain \in 1..Len(runs) /\ r \in RunId
    BY <1>1, <2>2 DEF RunId
  <2> QED
    BY <1>1, <2>1, <2>3
<1>3. \A s : RowOf(s) => s.run \in DOMAIN runs /\ s.chain \in DOMAIN runs /\ s.chain = runs[s.run].chain
  BY <1>2 DEF RowOf
<1>4. \A c \in Listed : c \in DOMAIN runs
  BY <1>3 DEF BaseInv, ManifestRows, Listed
<1> QED
  BY <1>1, <1>2, <1>3, <1>4

LEMMA StartKeepsManifest ==
  ASSUME BaseInv, ManifestInv, NEW t \in Thread, StartFileRun(t)
  PROVE  ManifestInv'
<1>0. PICK r \in RunId :
      /\ r \notin DOMAIN runs /\ DOMAIN runs' = DOMAIN runs \cup {r}
      /\ runs'[r].status = "running" /\ runs'[r].seq = threads[t].seq
      /\ runs'[r].chain = IF threads[t].chain = 0 THEN r ELSE threads[t].chain
      /\ \A q \in DOMAIN runs : runs'[q] = runs[q]
      /\ threads'[t].pc = "queue"
      /\ \A u \in Thread : u # t => threads'[u] = threads[u]
  BY StartMeans DEF BaseInv
<1>1. /\ UNCHANGED <<fileSets, recorded, posts>> /\ threads[t].pc = "start" /\ SetsKept
  BY DEF StartFileRun, Stands, SetsKept
<1>2. Running = {} /\ Running' = {r} /\ \A u \in Thread : threads[u].pc \in Dispatching => u = t
  <2>1. Running = {} /\ \A u \in Thread : threads[u].pc \in Dispatching => u = t
    BY <1>1 DEF ManifestInv, Clear, OnePass, Dispatching
  <2> QED
    BY <1>0, <2>1 DEF Running
<1>3. /\ \A c : SetsOf(c)' = SetsOf(c) /\ Leads(c)' = Leads(c) /\ \A n : Tops(c, n)' = Tops(c, n)
      /\ \A q : IsListed(q)' = IsListed(q)
      /\ Listed' = Listed /\ Doomed' = Doomed
  BY <1>1, ListingsStay
<1>4. \A p \in Post : Going(p)' = Going(p)
  BY <1>1 DEF Going
<1>5. /\ \A s \in fileSets : s.run # r /\ s.chain # r
      /\ \A p \in Post : \A x \in Going(p) : x.run # r /\ x.chain # r
  BY <1>0, ChainsAreRuns DEF BaseInv, ManifestRows, DyingRows
<1>6. 0 \notin Listed
  BY ChainsAreRuns
<1>7. OnePass' /\ Clear' /\ OneRun'
  BY <1>0, <1>1, <1>2 DEF OnePass, Clear, OneRun, Dispatching
<1>8. PlansHold'
  <2>1. ~ \E u \in Thread : threads'[u].pc = "start"
    BY <1>0, <1>2 DEF Dispatching
  <2>2. \/ runs'[r].seq = 0 /\ runs'[r].chain = r /\ FreshChain(r)'
        \/ /\ runs'[r].seq > 0 /\ Leads(runs'[r].chain)
           /\ Tops(runs'[r].chain, runs'[r].seq - 1)
    <3>1. CASE threads[t].chain = 0 /\ threads[t].seq = 0
      BY <1>0, <1>1, <1>4, <1>5, <3>1 DEF FreshChain
    <3>2. CASE threads[t].seq > 0 /\ Leads(threads[t].chain) /\ Tops(threads[t].chain, threads[t].seq - 1)
      <4>1. threads[t].chain # 0
        BY <1>6, <3>2 DEF Leads, SetsOf, Listed
      <4> QED
        BY <1>0, <3>2, <4>1
    <3> QED
      BY <1>1, <3>1, <3>2 DEF ManifestInv, PlansHold
  <2> QED
    BY <1>1, <1>2, <1>3, <1>5, <2>1, <2>2 DEF PlansHold
<1>9. ChainsInOrder'
  BY <1>1, <1>3 DEF ManifestInv, ChainsInOrder, ListedOnce
<1>10. GoesFromTheTop'
  BY <1>1, <1>2, <1>3, <1>4, <1>5 DEF ManifestInv, GoesFromTheTop
<1> QED
  BY <1>7, <1>8, <1>9, <1>10 DEF ManifestInv

\* The chain of a run under way is not doomed, and no row of it is going.
LEMMA RunningIsKept ==
  ASSUME BaseInv, ManifestInv, NEW r \in Running
  PROVE  /\ runs[r].chain \notin Doomed
         /\ \A p \in Post : \A x \in Going(p) : x.chain # runs[r].chain
<1>0. BackupTypeOK /\ ManifestRows
  BY DEF BaseInv
<1>1. CASE Leads(runs[r].chain)
  <2>1. runs[r].chain \in Listed /\ runs[r].chain \notin Doomed
    BY <1>0, <1>1, LeaderIsKept
  <2> QED
    BY <2>1 DEF ManifestInv, GoesFromTheTop
<1>2. CASE IsListed(r)
  <2>1. PICK s \in fileSets : s.run = r
    BY <1>2 DEF IsListed
  <2>2. s.id = recorded /\ s.chain = runs[r].chain
    BY <1>0, <2>1 DEF ManifestInv, PlansHold, ManifestRows, RowOf
  <2>3. \A o \in fileSets : o.id <= s.id
    BY <1>0, <2>2 DEF ManifestRows, RowOf, BackupTypeOK
  <2>4. Leads(runs[r].chain)
    BY <2>2, <2>3 DEF Leads, SetsOf
  <2> QED
    BY <1>1, <2>4
<1>3. CASE ~IsListed(r) /\ runs[r].chain = r /\ FreshChain(r)
  BY <1>3 DEF FreshChain, Doomed, Listed
<1> QED
  BY <1>1, <1>2, <1>3 DEF ManifestInv, PlansHold

LEMMA RecordKeepsManifest ==
  ASSUME BaseInv, ManifestInv, ~overlapped', NEW p \in Post, RecordFileSet(p)
  PROVE  /\ ManifestInv'
         /\ \A c : c \in Doomed => c \in Doomed' /\ c # runs[posts[p].run].chain
<1>0. PICK r \in Running : r = posts[p].run
  BY RecordMeans
<1> DEFINE y == NewSet(r)
<1>1. /\ r \in DOMAIN runs /\ r \in RunId /\ ~IsListed(r)
      /\ fileSets' = fileSets \cup {y} /\ recorded' = recorded + 1
      /\ \A s \in fileSets : s.id < recorded + 1
      /\ y.id = recorded + 1 /\ y.run = r /\ y.chain = runs[r].chain /\ y.seq = runs[r].seq
      /\ UNCHANGED <<runs, threads>>
      /\ posts'[p].pc = "finish" /\ posts'[p].doomed = {}
      /\ \A q \in Post : q # p => posts'[q] = posts[q]
      /\ \A q \in Post : Going(q)' = Going(q)
      /\ Manifest(fileSets, recorded) /\ Manifest(fileSets', recorded')
      /\ recorded \in Nat /\ y.seq \in Nat
      /\ ManifestRows
  <2>1. BackupTypeOK /\ ManifestRows
    BY DEF BaseInv
  <2>2. Manifest(fileSets, recorded) /\ Manifest(fileSets', recorded')
    BY <2>1, RecordMeans, ManifestIs
  <2>3. runs[r].seq \in Nat
    BY <1>0, RecordMeans, ChainsAreRuns DEF RunRow
  <2> QED
    BY <1>0, <2>1, <2>2, <2>3, RecordMeans DEF BackupTypeOK
<1> HIDE DEF y
<1>2. \A q \in Running : q = r
  BY DEF ManifestInv, OneRun
<1>3. Running' = Running
  BY <1>1 DEF Running
<1>4. /\ y.chain \notin Doomed
      /\ \A q \in Post : \A x \in Going(q) : x.chain # y.chain
  BY <1>1, RunningIsKept
<1>5. \/ y.seq = 0 /\ \A s \in fileSets : s.chain # y.chain
      \/ y.seq > 0 /\ Tops(y.chain, y.seq - 1)
  BY <1>1 DEF ManifestInv, PlansHold, FreshChain
<1>6. \A c : SetsOf(c)' = SetsOf(c) \cup (IF c = y.chain THEN {y} ELSE {})
  BY <1>1 DEF SetsOf
<1>7. OnePass' /\ Clear' /\ OneRun'
  BY <1>1, <1>3 DEF ManifestInv, OnePass, Clear, OneRun
<1>8. PlansHold'
  <2>1. \A t \in Thread : threads'[t].pc # "start"
    BY <1>1 DEF ManifestInv, Clear
  <2>2. \A q \in Running' : IsListed(q)'
    BY <1>1, <1>2, <1>3 DEF IsListed
  <2>3. \A s \in fileSets' : s.run \in Running' => s.id = recorded'
    BY <1>1, <1>2, <1>3 DEF IsListed
  <2> QED
    BY <2>1, <2>2, <2>3 DEF PlansHold
<1>9. ChainsInOrder'
  <2>0. \A s \in fileSets : s.seq \in Nat /\ s.id \in Nat
    BY <1>1 DEF Manifest
  <2>1. ListedOnce'
    BY <1>1 DEF ManifestInv, ChainsInOrder, ListedOnce, IsListed
  <2>2. \A s \in fileSets : s.chain = y.chain => s.seq < y.seq
    <3> TAKE s \in fileSets
    <3> HAVE s.chain = y.chain
    <3>1. Tops(y.chain, y.seq - 1)
      BY <1>5
    <3>2. s.seq <= y.seq - 1
      BY <3>1 DEF Tops, SetsOf
    <3> QED
      BY <1>1, <2>0, <3>2
  <2>3. \A s, o \in fileSets' : s.chain = o.chain /\ s.seq <= o.seq => s.id <= o.id
    <3> SUFFICES ASSUME NEW s \in fileSets', NEW o \in fileSets', s.chain = o.chain, s.seq <= o.seq
                 PROVE  s.id <= o.id
      OBVIOUS
    <3>1. CASE s \in fileSets /\ o \in fileSets
      BY <3>1 DEF ManifestInv, ChainsInOrder
    <3>2. CASE o = y
      BY <1>1, <2>0, <3>2
    <3>3. CASE s = y /\ o \in fileSets
      BY <1>1, <2>0, <2>2, <3>3
    <3> QED
      BY <1>1, <3>1, <3>2, <3>3
  <2>4. \A s \in fileSets' : \A n \in 0..s.seq : \E o \in SetsOf(s.chain)' : o.seq = n
    <3> SUFFICES ASSUME NEW s \in fileSets', NEW n \in 0..s.seq
                 PROVE  \E o \in fileSets' : o.chain = s.chain /\ o.seq = n
      BY DEF SetsOf
    <3>1. CASE s \in fileSets
      BY <1>1, <3>1 DEF ManifestInv, ChainsInOrder, SetsOf
    <3>2. CASE s = y /\ n = y.seq
      BY <1>1, <3>2
    <3>3. CASE s = y /\ n # y.seq
      <4>1. Tops(y.chain, y.seq - 1) /\ n \in 0..(y.seq - 1)
        BY <1>1, <1>5, <3>3
      <4>2. PICK o \in fileSets : o.chain = y.chain /\ o.seq = y.seq - 1
        BY <4>1 DEF Tops, SetsOf
      <4> QED
        BY <1>1, <3>3, <4>1, <4>2 DEF ManifestInv, ChainsInOrder, SetsOf
    <3> QED
      BY <1>1, <3>1, <3>2, <3>3
  <2>5. \E c \in Listed' : Leads(c)'
    <3>1. y \in fileSets' /\ \A o \in fileSets' : o.id <= y.id
      BY <1>1, <2>0
    <3>2. y.chain \in Listed'
      BY <3>1 DEF Listed
    <3> QED
      BY <3>1, <3>2 DEF Leads, SetsOf
  <2> QED
    BY <2>1, <2>3, <2>4, <2>5 DEF ChainsInOrder
<1>10. \A c : c \in Doomed => c \in Doomed' /\ c # y.chain
  <2> SUFFICES ASSUME NEW c, c \in Doomed  PROVE c \in Doomed' /\ c # y.chain
    OBVIOUS
  <2>1. c \in Beyond(fileSets) /\ c # y.chain
    BY <1>1, <1>4, DoomedIsBeyond
  <2>2. \A s \in fileSets : s.id < y.id
    BY <1>1
  <2>3. c \in Beyond(fileSets')
    BY <1>1, <2>1, <2>2, ListingKeepsBeyond
  <2> QED
    BY <1>1, <2>1, <2>3, DoomedIsBeyondNext
<1>11. GoesFromTheTop'
  <2> SUFFICES ASSUME NEW q \in Post
      PROVE  /\ \A x \in Going(q)' : x.run \notin Running' /\ (x.chain \in Listed' => x.chain \in Doomed')
             /\ \A e \in posts'[q].doomed : \A s \in SetsOf(e.row.chain)' : s.seq > e.row.seq =>
                    \/ [order |-> e.order, row |-> s] \in posts'[q].doomed
                    \/ posts'[q].pc = "drop" /\ posts'[q].row = s
             /\ posts'[q].pc = "drop" => \A s \in SetsOf(posts[q].row.chain)' : s.seq <= posts'[q].row.seq
    BY DEF GoesFromTheTop
  <2>1. ASSUME NEW x \in Going(q)'  PROVE x.run \notin Running' /\ (x.chain \in Listed' => x.chain \in Doomed')
    <3>1. x \in Going(q) /\ x.chain # y.chain
      BY <1>1, <1>4
    <3>2. x.run \notin Running /\ (x.chain \in Listed => x.chain \in Doomed)
      BY <3>1 DEF ManifestInv, GoesFromTheTop
    <3>3. x.chain \in Listed' => x.chain \in Listed
      BY <1>1, <3>1 DEF Listed
    <3> QED
      BY <1>3, <1>10, <3>2, <3>3
  <2>2. CASE q = p
    BY <1>1, <2>1, <2>2
  <2>3. CASE q # p
    <3>1. posts'[q] = posts[q]
      BY <1>1, <2>3
    <3>2. \A e \in posts[q].doomed : e.row.chain # y.chain
      BY <1>4 DEF Going
    <3>3. posts[q].pc = "drop" => posts[q].row.chain # y.chain
      BY <1>4 DEF Going
    <3>4. \A e \in posts'[q].doomed : \A s \in SetsOf(e.row.chain)' : s.seq > e.row.seq =>
                    \/ [order |-> e.order, row |-> s] \in posts'[q].doomed
                    \/ posts'[q].pc = "drop" /\ posts'[q].row = s
      BY <1>1, <3>1, <3>2 DEF ManifestInv, GoesFromTheTop, SetsOf
    <3>5. posts'[q].pc = "drop" => \A s \in SetsOf(posts[q].row.chain)' : s.seq <= posts'[q].row.seq
      BY <1>1, <3>1, <3>3 DEF ManifestInv, GoesFromTheTop, SetsOf
    <3> QED
      BY <2>1, <3>4, <3>5
  <2> QED
    BY <2>2, <2>3
<1> QED
  BY <1>0, <1>1, <1>7, <1>8, <1>9, <1>10, <1>11 DEF ManifestInv

\* While the rows stay, a rotation that goes from the top holds the rest up.
LEMMA RotatingKeepsManifest ==
  ASSUME BaseInv, ManifestInv, NEW p \in Post, UNCHANGED <<runs, fileSets, recorded, threads>>,
         GoesFromTheTop', \A q \in Post : Going(q)' \subseteq Going(q) \cup fileSets
  PROVE  ManifestInv'
<1>0. Running' = Running /\ SetsKept
  BY DEF Running, SetsKept
<1>1. /\ \A c : SetsOf(c)' = SetsOf(c) /\ Leads(c)' = Leads(c) /\ \A n : Tops(c, n)' = Tops(c, n)
      /\ \A r : IsListed(r)' = IsListed(r)
      /\ Listed' = Listed /\ Doomed' = Doomed
  BY <1>0, ListingsStay
<1>2. OnePass' /\ Clear' /\ OneRun'
  BY <1>0 DEF ManifestInv, OnePass, Clear, OneRun
<1>3. PlansHold'
  <2>1. \A r \in Running : FreshChain(r) => FreshChain(r)'
    BY DEF FreshChain
  <2>2. \A t \in Thread : threads'[t].pc = "start" =>
           \/ threads'[t].chain = 0 /\ threads'[t].seq = 0
           \/ threads'[t].seq > 0 /\ Leads(threads[t].chain)' /\ Tops(threads[t].chain, threads[t].seq - 1)'
    BY <1>1 DEF ManifestInv, PlansHold
  <2>3. \A r \in Running' : ~IsListed(r)' =>
           \/ runs'[r].seq = 0 /\ runs'[r].chain = r /\ FreshChain(r)'
           \/ runs'[r].seq > 0 /\ Leads(runs[r].chain)' /\ Tops(runs[r].chain, runs[r].seq - 1)'
    BY <1>0, <1>1, <2>1 DEF ManifestInv, PlansHold
  <2>4. \A s \in fileSets' : s.run \in Running' => s.id = recorded'
    BY <1>0 DEF ManifestInv, PlansHold
  <2> QED
    BY <2>2, <2>3, <2>4 DEF PlansHold
<1>4. ChainsInOrder'
  BY <1>1 DEF ManifestInv, ChainsInOrder, ListedOnce
<1> QED
  BY <1>2, <1>3, <1>4 DEF ManifestInv

\* What a rotation has to show of one report's rows.
FromTheTop(p) ==
    /\ \A x \in Going(p) : x.run \notin Running /\ (x.chain \in Listed => x.chain \in Doomed)
    /\ \A e \in posts[p].doomed : \A s \in SetsOf(e.row.chain) : s.seq > e.row.seq =>
           \/ [order |-> e.order, row |-> s] \in posts[p].doomed
           \/ posts[p].pc = "drop" /\ posts[p].row = s
    /\ posts[p].pc = "drop" => \A s \in SetsOf(posts[p].row.chain) : s.seq <= posts[p].row.seq

LEMMA OthersGoOn ==
  ASSUME BaseInv, ManifestInv, NEW p \in Post, UNCHANGED <<runs, fileSets, recorded>>,
         \A q \in Post : q # p => posts'[q] = posts[q], FromTheTop(p)'
  PROVE  GoesFromTheTop'
<1>1. Running' = Running /\ SetsKept
  BY DEF Running, SetsKept
<1>2. /\ \A c : SetsOf(c)' = SetsOf(c)
      /\ Listed' = Listed /\ Doomed' = Doomed
  BY <1>1, ListingsStay
<1>3. ASSUME NEW q \in Post, q # p  PROVE FromTheTop(q)'
  <2>1. posts'[q] = posts[q] /\ Going(q)' = Going(q)
    BY <1>3 DEF Going
  <2> QED
    BY <1>1, <1>2, <2>1 DEF ManifestInv, GoesFromTheTop, FromTheTop
<1> QED
  BY <1>3 DEF GoesFromTheTop, FromTheTop

LEMMA RotationKeepsManifest ==
  ASSUME BaseInv, ManifestInv, NEW p \in Post, RotateChains(p) \/ DeleteArchive(p) \/ DeleteFails(p)
  PROVE  ManifestInv'
<1>t. ASSUME UNCHANGED <<runs, fileSets, recorded, threads>>, \A q \in Post : q # p => posts'[q] = posts[q],
             FromTheTop(p)', Going(p)' \subseteq Going(p) \cup fileSets
      PROVE  ManifestInv'
  <2>1. \A q \in Post : Going(q)' \subseteq Going(q) \cup fileSets
    BY <1>t DEF Going
  <2> QED
    BY <1>t, <2>1, OthersGoOn, RotatingKeepsManifest
<1>k. ASSUME UNCHANGED <<runs, fileSets, recorded>>
      PROVE  /\ Running' = Running /\ Listed' = Listed /\ Doomed' = Doomed
             /\ \A c : SetsOf(c)' = SetsOf(c)
  BY <1>k, ListingsStay DEF Running, SetsKept
<1>1. CASE RotateChains(p)
  <2>0. /\ UNCHANGED <<runs, fileSets, recorded, threads>> /\ posts'[p].pc \in {"answer", "delete"}
        /\ \A e \in posts'[p].doomed : e.row \in fileSets /\ e.row.chain \in Doomed
        /\ \A e \in posts'[p].doomed : \A s \in SetsOf(e.row.chain) :
                [order |-> e.order, row |-> s] \in posts'[p].doomed
        /\ \A q \in Post : q # p => posts'[q] = posts[q]
    BY <1>1, RotateMeans
  <2>1. Going(p)' = {e.row : e \in posts'[p].doomed}
    BY <2>0 DEF Going
  <2>2. \A x \in fileSets : x.chain \in Doomed => x.run \notin Running
    <3> SUFFICES ASSUME NEW x \in fileSets, x.run \in Running  PROVE x.chain \notin Doomed
      OBVIOUS
    <3>1. x.chain = runs[x.run].chain
      BY DEF BaseInv, ManifestRows, RowOf
    <3> QED
      BY <3>1, RunningIsKept
  <2>3. FromTheTop(p)'
    BY <1>k, <2>0, <2>1, <2>2 DEF FromTheTop
  <2> QED
    BY <1>t, <2>0, <2>1, <2>3
<1>2. CASE DeleteArchive(p)
  <2>0. PICK e \in posts[p].doomed :
         /\ IsNext(e, p) /\ e \in Dying
         /\ UNCHANGED <<runs, fileSets, recorded, threads>>
         /\ posts[p].pc = "delete" /\ posts'[p].pc = "drop" /\ posts'[p].row = e.row
         /\ posts'[p].doomed = posts[p].doomed \ {e}
         /\ \A q \in Post : q # p => posts'[q] = posts[q]
         /\ \A q \in Post : Going(q)' = Going(q)
    BY <1>2, DeleteMeans
  <2>1. ASSUME NEW o \in posts[p].doomed, NEW s \in SetsOf(o.row.chain), s.seq > o.row.seq
        PROVE  /\ [order |-> o.order, row |-> s] \in posts'[p].doomed \/ posts'[p].row = s
               /\ o # e
    <3>1. [order |-> o.order, row |-> s] \in posts[p].doomed
      BY <2>0, <2>1 DEF ManifestInv, GoesFromTheTop
    <3>2. [order |-> o.order, row |-> s].row = s
      OBVIOUS
    <3>3. CASE o = e
      <4> DEFINE z == [order |-> e.order, row |-> s]
      <4>1. z \in posts[p].doomed /\ z.order = e.order /\ z.row = s
        BY <3>1, <3>3
      <4> HIDE DEF z
      <4>2. s # e.row /\ e.row \in FileSet /\ s \in FileSet /\ e.order \in Nat
        <5>1. s \in fileSets
          BY DEF SetsOf
        <5>2. e.row \in FileSet /\ e.order \in Nat
          BY <2>0 DEF Dying
        <5>3. e.row.seq \in Nat /\ s.seq \in Nat /\ s \in FileSet
          <6>1. s \in FileSet
            BY <5>1 DEF BaseInv, BackupTypeOK
          <6>2. \A x \in FileSet : x.seq \in Nat
            BY DEF FileSet
          <6> QED
            BY <5>2, <6>1, <6>2
        <5> QED
          BY <2>1, <3>3, <5>2, <5>3
      <4>3. GoesBefore(e, z)
        BY <2>0, <4>1, <4>2 DEF IsNext
      <4>4. e.row.seq \in Nat /\ s.seq \in Nat
        BY <4>2 DEF FileSet
      <4> QED
        BY <2>1, <3>3, <4>1, <4>2, <4>3, <4>4 DEF GoesBefore
    <3>4. CASE o # e
      BY <2>0, <3>1, <3>2, <3>4
    <3> QED
      BY <3>3, <3>4
  <2>2. \A s \in SetsOf(e.row.chain) : s.seq <= e.row.seq
    <3> TAKE s \in SetsOf(e.row.chain)
    <3>1. ~(s.seq > e.row.seq)
      BY <2>1
    <3>2. s.seq \in Nat /\ e.row.seq \in Nat
      BY <2>0 DEF SetsOf, BaseInv, BackupTypeOK, FileSet, Dying
    <3> QED
      BY <3>1, <3>2
  <2>3. FromTheTop(p)'
    <3>1. \A x \in Going(p)' : x.run \notin Running' /\ (x.chain \in Listed' => x.chain \in Doomed')
      BY <1>k, <2>0 DEF ManifestInv, GoesFromTheTop
    <3>2. \A o \in posts'[p].doomed : \A s \in SetsOf(o.row.chain)' : s.seq > o.row.seq =>
           \/ [order |-> o.order, row |-> s] \in posts'[p].doomed
           \/ posts'[p].pc = "drop" /\ posts'[p].row = s
      BY <1>k, <2>0, <2>1
    <3>3. \A s \in SetsOf(posts[p].row.chain)' : s.seq <= posts'[p].row.seq
      BY <1>k, <2>0, <2>2
    <3> QED
      BY <3>1, <3>2, <3>3 DEF FromTheTop
  <2> QED
    BY <1>t, <2>0, <2>3
<1>3. CASE DeleteFails(p)
  <2>0. /\ UNCHANGED <<runs, fileSets, recorded, threads>>
        /\ posts[p].pc = "delete" /\ posts'[p].pc \in {"answer", "delete"}
        /\ \A q \in Post : q # p => posts'[q] = posts[q]
        /\ \A q \in Post : Going(q)' \subseteq Going(q)
    BY <1>3, RefusalMeans
  <2>1. PICK c : posts'[p].doomed = {o \in posts[p].doomed : o.row.chain # c}
    BY <1>3, RefusalMeans
  <2>2. ASSUME NEW o \in posts'[p].doomed, NEW s \in SetsOf(o.row.chain), s.seq > o.row.seq
        PROVE  [order |-> o.order, row |-> s] \in posts'[p].doomed
    <3>1. o \in posts[p].doomed /\ o.row.chain # c /\ s.chain = o.row.chain
      BY <2>1 DEF SetsOf
    <3>2. [order |-> o.order, row |-> s] \in posts[p].doomed
      BY <2>0, <2>2, <3>1 DEF ManifestInv, GoesFromTheTop
    <3>3. [order |-> o.order, row |-> s].row.chain # c
      BY <3>1
    <3> QED
      BY <2>1, <3>2, <3>3
  <2>3. FromTheTop(p)'
    <3>1. \A x \in Going(p)' : x.run \notin Running' /\ (x.chain \in Listed' => x.chain \in Doomed')
      BY <1>k, <2>0 DEF ManifestInv, GoesFromTheTop
    <3> QED
      BY <1>k, <2>0, <2>2, <3>1 DEF FromTheTop
  <2> QED
    BY <1>t, <2>0, <2>3
<1> QED
  BY <1>1, <1>2, <1>3

\* Rows that are dropped are of no chain that goes on.
LEMMA DropKeepsManifest ==
  ASSUME BaseInv, ManifestInv, NEW p \in Post, DropRows(p)
  PROVE  /\ ManifestInv'
         /\ \A c \in Doomed : c \in Listed' => c \in Doomed'
         /\ posts[p].row \in fileSets => posts[p].row.chain \in Doomed
         /\ Running' = Running /\ \A r \in Running : IsListed(r)' = IsListed(r)
<1> DEFINE y == posts[p].row
<1>0. /\ UNCHANGED <<runs, recorded, threads>>
      /\ posts[p].pc = "drop" /\ posts'[p].pc \in {"answer", "delete"}
      /\ posts'[p].doomed = posts[p].doomed /\ y \in Going(p)
      /\ fileSets' = fileSets \ {y}
      /\ \A q \in Post : q # p => posts'[q] = posts[q]
      /\ \A q \in Post : Going(q)' \subseteq Going(q)
      /\ Manifest(fileSets, recorded) /\ Manifest(fileSets', recorded')
      /\ BackupTypeOK /\ ManifestRows
  BY DropMeans, ManifestIs DEF BaseInv
<1>1. y.run \notin Running /\ (y \in fileSets => y.chain \in Doomed)
  BY <1>0 DEF ManifestInv, GoesFromTheTop, Listed
<1>2. \A s \in SetsOf(y.chain) : s.seq <= y.seq
  BY <1>0 DEF ManifestInv, GoesFromTheTop
<1> HIDE DEF y
<1>3. Running' = Running
  BY <1>0 DEF Running
<1>4. \A r \in Running : IsListed(r)' = IsListed(r)
  BY <1>0, <1>1 DEF IsListed
<1>5. \A c \in Doomed : c \in Listed' => c \in Doomed'
  <2>1. CASE y \in fileSets
    <3> SUFFICES ASSUME NEW c \in Doomed, c \in Listed'  PROVE c \in Doomed'
      OBVIOUS
    <3>1. c \in Beyond(fileSets) /\ y.chain \in Beyond(fileSets) /\ c \in Chains(fileSets')
      BY <1>0, <1>1, <2>1, DoomedIsBeyond DEF Listed, Chains
    <3>2. \A s \in fileSets : s \notin fileSets' => s.chain = y.chain
      BY <1>0
    <3>3. c \in Beyond(fileSets')
      BY <1>0, <3>1, <3>2, DroppingKeepsBeyond
    <3> QED
      BY <1>0, <3>3, DoomedIsBeyondNext
  <2>2. CASE y \notin fileSets
    <3>1. fileSets' = fileSets
      BY <1>0, <2>2
    <3> QED
      BY <1>0, <3>1, ListingsStay DEF SetsKept
  <2> QED
    BY <2>1, <2>2
<1>6. \A c : Leads(c) => Leads(c)' /\ \A n : Tops(c, n) => Tops(c, n)'
  <2> SUFFICES ASSUME NEW c, Leads(c)  PROVE Leads(c)' /\ \A n : Tops(c, n) => Tops(c, n)'
    OBVIOUS
  <2>1. c \notin Doomed
    BY <1>0, LeaderIsKept
  <2>2. SetsOf(c)' = SetsOf(c)
    BY <1>0, <1>1, <2>1 DEF SetsOf
  <2> QED
    BY <1>0, <2>2 DEF Leads, Tops
<1>7. OnePass' /\ Clear' /\ OneRun'
  BY <1>0, <1>3 DEF ManifestInv, OnePass, Clear, OneRun
<1>8. PlansHold'
  <2>1. \A r \in Running : FreshChain(r) => FreshChain(r)'
    BY <1>0 DEF FreshChain
  <2>2. \A t \in Thread : threads'[t].pc = "start" =>
           \/ threads'[t].chain = 0 /\ threads'[t].seq = 0
           \/ threads'[t].seq > 0 /\ Leads(threads[t].chain)' /\ Tops(threads[t].chain, threads[t].seq - 1)'
    BY <1>0, <1>6 DEF ManifestInv, PlansHold
  <2>3. \A r \in Running' : ~IsListed(r)' =>
           \/ runs'[r].seq = 0 /\ runs'[r].chain = r /\ FreshChain(r)'
           \/ runs'[r].seq > 0 /\ Leads(runs[r].chain)' /\ Tops(runs[r].chain, runs[r].seq - 1)'
    BY <1>0, <1>3, <1>4, <1>6, <2>1 DEF ManifestInv, PlansHold
  <2>4. \A s \in fileSets' : s.run \in Running' => s.id = recorded'
    BY <1>0, <1>3 DEF ManifestInv, PlansHold
  <2> QED
    BY <2>2, <2>3, <2>4 DEF PlansHold
<1>9. ChainsInOrder'
  <2>1. ListedOnce' /\ \A s, o \in fileSets' : s.chain = o.chain /\ s.seq <= o.seq => s.id <= o.id
    BY <1>0 DEF ManifestInv, ChainsInOrder, ListedOnce
  <2>2. \A s \in fileSets' : \A n \in 0..s.seq : \E o \in SetsOf(s.chain)' : o.seq = n
    <3> SUFFICES ASSUME NEW s \in fileSets', NEW n \in 0..s.seq
                 PROVE  \E o \in fileSets' : o.chain = s.chain /\ o.seq = n
      BY DEF SetsOf
    <3>1. PICK o \in fileSets : o.chain = s.chain /\ o.seq = n
      BY <1>0 DEF ManifestInv, ChainsInOrder, SetsOf
    <3>2. CASE o = y
      <4>1. s.seq <= y.seq /\ s.seq \in Nat /\ y.seq = n
        BY <1>0, <1>2, <3>1, <3>2 DEF SetsOf, Manifest
      <4>2. s.seq = n
        BY <4>1
      <4> QED
        BY <4>2
    <3> QED
      BY <1>0, <3>1, <3>2
  <2>3. recorded' > 0 => \E c \in Listed' : Leads(c)'
    <3> SUFFICES ASSUME recorded > 0  PROVE \E c \in Listed' : Leads(c)'
      BY <1>0
    <3>1. PICK c \in Listed : Leads(c)
      BY DEF ManifestInv, ChainsInOrder
    <3>2. Leads(c)'
      BY <1>6, <3>1
    <3>3. c \in Listed'
      BY <3>2 DEF Leads, SetsOf, Listed
    <3> QED
      BY <3>2, <3>3
  <2> QED
    BY <2>1, <2>2, <2>3 DEF ChainsInOrder
<1>10. GoesFromTheTop'
  <2> SUFFICES ASSUME NEW q \in Post PROVE FromTheTop(q)'
    BY DEF GoesFromTheTop, FromTheTop
  <2>1. \A x \in Going(q)' : x.run \notin Running' /\ (x.chain \in Listed' => x.chain \in Doomed')
    <3>1. Listed' \subseteq Listed
      BY <1>0 DEF Listed
    <3> QED
      BY <1>0, <1>3, <1>5, <3>1 DEF ManifestInv, GoesFromTheTop
  <2>2. \A c : SetsOf(c)' \subseteq SetsOf(c)
    BY <1>0 DEF SetsOf
  <2>3. CASE q = p
    <3>1. \A e \in posts'[q].doomed : \A s \in SetsOf(e.row.chain)' : s.seq > e.row.seq =>
             [order |-> e.order, row |-> s] \in posts'[q].doomed
      <4> SUFFICES ASSUME NEW e \in posts[p].doomed, NEW s \in SetsOf(e.row.chain), s # y, s.seq > e.row.seq
                   PROVE  [order |-> e.order, row |-> s] \in posts[p].doomed
        BY <1>0, <2>2, <2>3 DEF SetsOf
      <4> QED
        BY DEF ManifestInv, GoesFromTheTop, y
    <3> QED
      BY <1>0, <2>1, <2>3, <3>1 DEF FromTheTop
  <2>4. CASE q # p
    <3>1. posts'[q] = posts[q]
      BY <1>0, <2>4
    <3> QED
      BY <2>1, <2>2, <3>1 DEF FromTheTop, ManifestInv, GoesFromTheTop
  <2> QED
    BY <2>3, <2>4
<1> QED
  BY <1>1, <1>3, <1>4, <1>5, <1>7, <1>8, <1>9, <1>10 DEF ManifestInv, y

LEMMA ManifestStep ==
  ASSUME BaseInv, ManifestInv, [BackupNext]_backupVars, ~overlapped'
  PROVE  ManifestInv' /\ \A c \in Doomed : c \in Listed' => c \in Doomed'
<1>k. ASSUME UNCHANGED <<fileSets, recorded>>  PROVE \A c \in Doomed : c \in Listed' => c \in Doomed'
  BY <1>k, ListingsStay DEF SetsKept
<1>1. CASE CalmStep
  BY <1>1, <1>k, CalmStepIsCalm, CalmKeepsManifest DEF Calm, SetsKept
<1>2. ASSUME NEW t \in Thread, BeginDispatch(t) \/ PlanNextRun(t)
      PROVE  ManifestInv' /\ \A c \in Doomed : c \in Listed' => c \in Doomed'
  BY <1>2, <1>k, PassesKeepManifest, BeginMeans, PlanMeans
<1>3. ASSUME NEW t \in Thread, StartFileRun(t)
      PROVE  ManifestInv' /\ \A c \in Doomed : c \in Listed' => c \in Doomed'
  BY <1>3, <1>k, StartKeepsManifest DEF StartFileRun
<1>4. ASSUME NEW p \in Post, RecordFileSet(p)
      PROVE  ManifestInv' /\ \A c \in Doomed : c \in Listed' => c \in Doomed'
  BY <1>4, RecordKeepsManifest
<1>5. ASSUME NEW p \in Post, RotateChains(p) \/ DeleteArchive(p) \/ DeleteFails(p)
      PROVE  ManifestInv' /\ \A c \in Doomed : c \in Listed' => c \in Doomed'
  BY <1>5, <1>k, RotationKeepsManifest, RotateMeans, DeleteMeans, RefusalMeans
<1>6. ASSUME NEW p \in Post, DropRows(p)
      PROVE  ManifestInv' /\ \A c \in Doomed : c \in Listed' => c \in Doomed'
  BY <1>6, DropKeepsManifest
<1> QED
  BY <1>1, <1>2, <1>3, <1>4, <1>5, <1>6, StepKinds

-------------------------------------------------------------------------------
(* Commands, tasks and reports.                                            *)

\* What nearly every step leaves of a task, and of what it says of its run.
TaskKept(r) ==
    /\ tasks'[r].packs = tasks[r].packs
    /\ tasks[r].pc = "none" <=> tasks'[r].pc = "none"
    /\ tasks'[r].pc \in {"none", "ready"} => tasks[r].pc \in {"none", "ready"}
    /\ tasks[r].pc \in Sent => tasks'[r].pc \in Sent
    /\ tasks'[r].pc \in Selected => tasks[r].pc \in Selected /\ tasks'[r].seen = tasks[r].seen
TaskSays(r) == tasks[r].pc \in {"report", "waiting"} /\ tasks[r].ok
PostKept(p) ==
    Asks(p)' => Asks(p) /\ posts'[p].run = posts[p].run /\ posts'[p].ok = posts[p].ok

TasksQuiet == \A r \in RunId : TaskKept(r) /\ (TaskSays(r)' => TaskSays(r))

\* Steps of the agent that are not about a choice or an upload.
LEMMA AgentIsQuiet ==
  ASSUME BaseInv, TasksLead,
         \/ Edit \/ AgentRestarts \/ UNCHANGED tasks
         \/ \E r \in RunId : BeginRelay(r) \/ GivesUp(r) \/ BackupFails(r) \/ TimesOut(r) \/ RelayFails(r)
         \/ \E r \in RunId, p \in Post : Send(r, p)
         \/ \E p \in Post : AnswerReport(p)
  PROVE  TasksQuiet
<1> USE DEF TaskKept, TaskSays, TasksQuiet, Selected, Sent
<1>0. /\ BackupTypeOK /\ tasks \in [RunId -> TaskState] /\ \A r \in RunId : tasks[r] \in TaskState
      /\ \A r \in RunId : /\ Done(r).pc = "done" /\ Done(r).packs = tasks[r].packs
  <2>1. BackupTypeOK
    BY DEF BaseInv
  <2> QED
    BY <2>1, DoneIs DEF BackupTypeOK
<1>1. CASE UNCHANGED tasks
  BY <1>1
<1>2. CASE Edit
  BY <1>1, <1>2 DEF Edit
<1>3. CASE AgentRestarts
  <2> SUFFICES ASSUME NEW r \in RunId  PROVE TaskKept(r) /\ (TaskSays(r)' => TaskSays(r))
    OBVIOUS
  <2>1. tasks'[r] = IF tasks[r].pc = "none" THEN NoTask ELSE Done(r)
    BY <1>0, <1>3 DEF AgentRestarts, Does
  <2>2. tasks[r].pc = "none" => tasks[r].packs = 0
    BY DEF TasksLead, Nothing
  <2> QED
    BY <1>0, <2>1, <2>2, NoRecordsAreTyped
<1>4. ASSUME NEW r \in RunId, ReportAs(r, FALSE), tasks[r].pc \in {"packed", "relaying"}  PROVE TasksQuiet
  BY <1>0, <1>4, ReportAsMeans
<1>5. ASSUME NEW r \in RunId, BackupFails(r) \/ RelayFails(r)  PROVE TasksQuiet
  BY <1>4, <1>5 DEF BackupFails, RelayFails, Does
<1>6. ASSUME NEW r \in RunId, BeginRelay(r)  PROVE TasksQuiet
  <2>1. tasks[r].pc = "packed"
    BY <1>6 DEF BeginRelay, Does
  <2>2. CASE tasks' = [tasks EXCEPT ![r].pc = "relaying"]
    <3>1. /\ tasks'[r].pc = "relaying" /\ tasks'[r].packs = tasks[r].packs /\ tasks'[r].seen = tasks[r].seen
          /\ \A q \in RunId : q # r => tasks'[q] = tasks[q]
      BY <1>0, <2>2 DEF TaskState
    <3> QED
      BY <2>1, <3>1
  <2>3. CASE ReportAs(r, FALSE)
    BY <1>4, <2>1, <2>3
  <2> QED
    BY <1>6, <2>2, <2>3 DEF BeginRelay
<1>7. ASSUME NEW r \in RunId, GivesUp(r)  PROVE TasksQuiet
  <2>1. tasks' = [tasks EXCEPT ![r] = Done(r)] /\ tasks[r].pc = "report"
    BY <1>7 DEF GivesUp, Does
  <2> QED
    BY <1>0, <2>1
<1>8. ASSUME NEW r \in RunId, TimesOut(r)  PROVE TasksQuiet
  <2>1. /\ tasks'[r].pc = "report" /\ tasks'[r].packs = tasks[r].packs /\ tasks'[r].seen = tasks[r].seen
        /\ tasks'[r].ok = tasks[r].ok /\ tasks[r].pc = "waiting"
        /\ \A q \in RunId : q # r => tasks'[q] = tasks[q]
    BY <1>0, <1>8 DEF TimesOut, Does, TaskState
  <2> QED
    BY <2>1
<1>9. ASSUME NEW r \in RunId, NEW p \in Post, Send(r, p)  PROVE TasksQuiet
  <2>1. tasks[r].pc = "report"
    BY <1>9 DEF Send, Does
  <2> QED
    BY <1>9, <2>1, SendKeepsTypes
<1>10. ASSUME NEW p \in Post, AnswerReport(p)  PROVE TasksQuiet
  <2>1. CASE tasks' = tasks
    BY <1>1, <2>1
  <2>2. CASE tasks' = [tasks EXCEPT ![posts[p].run] = Done(posts[p].run)] /\ Does(posts[p].run, "waiting")
    <3>1. posts[p].run \in RunId
      BY <1>10, ChainsAreRuns DEF AnswerReport, BaseInv, RunsAreKnown
    <3>2. PICK r \in RunId : r = posts[p].run
      BY <3>1
    <3>3. tasks'[r] = Done(r) /\ tasks[r].pc = "waiting" /\ \A q \in RunId : q # r => tasks'[q] = tasks[q]
      BY <1>0, <2>2, <3>2 DEF Does
    <3> QED
      BY <1>0, <3>3
  <2> QED
    BY <1>10, <2>1, <2>2 DEF AnswerReport
<1> QED
  BY <1>1, <1>2, <1>3, <1>5, <1>6, <1>7, <1>8, <1>9, <1>10

\* Steps of the hub do not make a report say more.
LEMMA PostsAreKept ==
  ASSUME BaseInv,
         \/ UNCHANGED posts \/ HubStops
         \/ \E p \in Post :
                \/ GetRun(p) \/ Discard(p) \/ CompleteFailed(p) \/ CheckBase(p) \/ CompleteSucceeded(p)
                \/ AnswerReport(p)
                \/ RecordFileSet(p) \/ RotateChains(p) \/ DeleteArchive(p) \/ DeleteFails(p) \/ DropRows(p)
  PROVE  \A q \in Post : PostKept(q)
<1> USE DEF PostKept, Asks
<1>0. BackupTypeOK /\ posts \in [Post -> PostState] /\ NoPost.pc = "idle"
  BY NoRecordsAreTyped DEF BaseInv, BackupTypeOK
<1>1. CASE UNCHANGED posts
  BY <1>1
<1>2. CASE HubStops
  BY <1>0, <1>2 DEF HubStops
<1>3. ASSUME NEW p \in Post, NEW pc \in {"discard", "fail", "base", "insert", "finish", "chains", "answer"},
             Onward(p, pc), posts[p].pc # "idle"
      PROVE  \A q \in Post : PostKept(q)
  BY <1>0, <1>3, OnwardMeans
<1>4. ASSUME NEW p \in Post, GetRun(p) \/ Discard(p) \/ CompleteFailed(p) \/ CheckBase(p) \/ CompleteSucceeded(p)
      PROVE  \A q \in Post : PostKept(q)
  <2>1. CASE GetRun(p)
    BY <1>3, <2>1 DEF GetRun, Serves
  <2>2. CASE Discard(p)
    BY <1>3, <2>2 DEF Discard, Serves
  <2>3. CASE CompleteFailed(p) \/ CompleteSucceeded(p)
    BY <1>3, <2>3 DEF CompleteFailed, CompleteSucceeded, Serves
  <2>4. CASE CheckBase(p)
    BY <1>3, <2>4 DEF CheckBase, Serves
  <2> QED
    BY <1>4, <2>1, <2>2, <2>3, <2>4
<1>5. ASSUME NEW p \in Post, AnswerReport(p)  PROVE \A q \in Post : PostKept(q)
  BY <1>5, AnswersKeepTypes
<1>6. ASSUME NEW p \in Post, RecordFileSet(p)  PROVE \A q \in Post : PostKept(q)
  BY <1>6, RecordMeans
<1>7. ASSUME NEW p \in Post, RotateChains(p) \/ DeleteArchive(p) \/ DeleteFails(p) \/ DropRows(p)
      PROVE  \A q \in Post : PostKept(q)
  BY <1>7, RotateMeans, DeleteMeans, RefusalMeans, DropMeans
<1> QED
  BY <1>1, <1>2, <1>4, <1>5, <1>6, <1>7

\* A report is of a run that the agent has sent one of.
LEMMA AskingIsOfASent ==
  ASSUME BaseInv, TasksLead, NEW p \in Post, Asks(p)
  PROVE  posts[p].run \in RunId /\ posts[p].run \in DOMAIN runs /\ tasks[posts[p].run].pc \in Sent
<1>1. posts[p].run \in RunId /\ posts[p].run \in DOMAIN runs
  BY ChainsAreRuns DEF BaseInv, RunsAreKnown, Asks
<1> QED
  BY <1>1 DEF TasksLead

\* What every step but a claim leaves of a task.
TaskMoves(r) ==
    /\ tasks[r].pc = "none" <=> tasks'[r].pc = "none"
    /\ tasks[r].pc \in Sent => tasks'[r].pc \in Sent
    /\ tasks'[r].pc \in {"none", "ready"} => tasks[r].pc \in {"none", "ready"} /\ tasks'[r].packs = tasks[r].packs

\* What keeps commands and tasks in step.
LEMMA LeadIsKept ==
  ASSUME BaseInv, TasksLead, UNCHANGED orders,
         \A c \in Command : status'[c] \in {"unissued", "pending"} => status'[c] = status[c],
         \A t \in Thread : threads'[t].pc = "queue" => threads'[t] = threads[t],
         \A r \in RunId : TaskMoves(r),
         \A p \in Post : PostKept(p) \/ (posts'[p].run \in RunId /\ tasks[posts'[p].run].pc \in Sent),
         \A s \in fileSets' : s \in fileSets \/ (s.run \in RunId /\ tasks[s.run].pc \in Sent),
         DOMAIN runs' = DOMAIN runs,
         \A r \in DOMAIN runs : runs'[r].status = "succeeded" =>
             runs[r].status = "succeeded" \/ tasks[r].pc \in Sent
  PROVE  TasksLead'
<1>0. /\ \A c \in Command : orders[c] # 0 => orders[c] \in RunId
      /\ \A r \in DOMAIN runs : r \in RunId
      /\ \A t \in Thread : threads[t].pc = "queue" => threads[t].run \in RunId
      /\ \A p \in Post : Asks(p) => posts[p].run \in RunId /\ tasks[posts[p].run].pc \in Sent
  BY ChainsAreRuns, AskingIsOfASent DEF BaseInv, RunsAreKnown
<1>1. \A c, d \in Command : orders'[c] # 0 /\ orders'[c] = orders'[d] => c = d
  BY DEF TasksLead
<1>2. \A c \in Command : status'[c] = "unissued" => orders'[c] = 0
  BY DEF TasksLead
<1>3. \A c \in Command : status'[c] = "pending" /\ orders'[c] # 0 => tasks'[orders'[c]].pc = "none"
  BY <1>0 DEF TasksLead, TaskMoves
<1>4. \A t \in Thread : threads'[t].pc = "queue" =>
           tasks'[threads'[t].run].pc = "none" /\ \A c \in Command : orders'[c] # threads'[t].run
  BY <1>0 DEF TasksLead, TaskMoves
<1>5. \A r \in RunId : tasks'[r].pc \notin Sent =>
           ~IsListed(r)' /\ \A p \in Post : Asks(p)' => posts'[p].run # r
  <2> SUFFICES ASSUME NEW r \in RunId, tasks'[r].pc \notin Sent
               PROVE  ~IsListed(r)' /\ \A p \in Post : Asks(p)' => posts'[p].run # r
    OBVIOUS
  <2>1. tasks[r].pc \notin Sent
    BY DEF TaskMoves
  <2>2. ~IsListed(r)'
    BY <2>1 DEF TasksLead, IsListed
  <2>3. \A p \in Post : Asks(p)' => posts'[p].run # r
    BY <1>0, <2>1 DEF PostKept
  <2> QED
    BY <2>2, <2>3
<1>6. \A r \in DOMAIN runs' : runs'[r].status = "succeeded" => tasks'[r].pc \in Sent
  BY <1>0 DEF TasksLead, TaskMoves
<1>7. \A r \in RunId : tasks'[r].pc \in {"none", "ready"} => tasks'[r].packs = Nothing
  BY DEF TasksLead, TaskMoves
<1> QED
  BY <1>1, <1>2, <1>3, <1>4, <1>5, <1>6, <1>7 DEF TasksLead

\* A choice of the agent, and an upload.
LEMMA SelectMeans ==
  ASSUME BaseInv, NEW r \in RunId, Select(r)
  PROVE  /\ tasks[r].pc = "ready" /\ tasks'[r].pc = "packed" /\ tasks'[r].seen = file
         /\ \/ tasks'[r].packs = file
            \/ /\ tasks'[r].packs = Nothing
               /\ cache.chain = runs[r].chain /\ cache.version = file
         /\ \A q \in RunId : q # r => tasks'[q] = tasks[q]
         /\ UNCHANGED <<queueVars, runs, fileSets, recorded, store, orders, threads, posts, cache, file,
                        overlapped, unlisted>>
<1> DEFINE full == runs[r].seq = 0 \/ cache.chain # runs[r].chain
           v == IF full \/ cache.version # file THEN file ELSE Nothing
<1>1. tasks \in [RunId -> TaskState] /\ tasks[r] \in TaskState /\ tasks[r].pc = "ready"
  BY DEF BaseInv, BackupTypeOK, Select, Does
<1>2. tasks' = [tasks EXCEPT ![r] = [tasks[r] EXCEPT !.pc = "packed", !.seen = file, !.packs = v]]
  BY DEF Select
<1>3. v = file \/ (v = Nothing /\ cache.chain = runs[r].chain /\ cache.version = file)
  OBVIOUS
<1> HIDE DEF v
<1>4. /\ tasks'[r].pc = "packed" /\ tasks'[r].seen = file /\ tasks'[r].packs = v
      /\ \A q \in RunId : q # r => tasks'[q] = tasks[q]
  BY <1>1, <1>2 DEF TaskState
<1> QED
  BY <1>1, <1>3, <1>4 DEF Select, backupTables, backupHub, backupHistory

LEMMA UploadMeans ==
  ASSUME BaseInv, NEW r \in RunId, Upload(r)
  PROVE  /\ tasks[r].pc \in {"packed", "relaying"} /\ tasks'[r].pc = "report" /\ tasks'[r].ok = TRUE
         /\ tasks'[r].packs = tasks[r].packs /\ tasks'[r].seen = tasks[r].seen
         /\ \A q \in RunId : q # r => tasks'[q] = tasks[q]
         /\ Put(KeyOf(r), tasks[r].packs)
         /\ UNCHANGED <<queueVars, runs, fileSets, recorded, orders, threads, posts, cache, file,
                        overlapped, unlisted>>
<1>1. BackupTypeOK
  BY DEF BaseInv
<1>2. /\ tasks'[r].pc = "report" /\ tasks'[r].ok = TRUE
      /\ tasks'[r].packs = tasks[r].packs /\ tasks'[r].seen = tasks[r].seen
      /\ \A q \in RunId : q # r => tasks'[q] = tasks[q]
  BY <1>1, ReportAsMeans DEF Upload
<1> QED
  BY <1>2 DEF Upload, Does, backupTables, backupHub, backupHistory

\* A claim starts the tasks of the runs that the commands name.
LEMMA TakeMeans ==
  ASSUME BaseInv, NEW a \in Agent, NEW m \in Machine, TakeBackups(a, m)
  PROVE  /\ \A r \in RunId :
                \/ tasks'[r] = tasks[r] /\ \A c \in Claimable(m) : orders[c] # r
                \/ /\ tasks'[r].pc = "ready" /\ tasks'[r].packs = Nothing
                   /\ \E c \in Claimable(m) : orders[c] = r
         /\ \A c \in Claimable(m) : c \in Command /\ status[c] = "pending" /\ status'[c] = "claimed"
         /\ \A c \in Command : c \notin Claimable(m) => status'[c] \in {status[c], "expired"}
         /\ UNCHANGED <<runs, fileSets, recorded, store, orders, threads, posts, cache, file,
                        overlapped, unlisted>>
<1>1. /\ [NoTask EXCEPT !.pc = "ready"].pc = "ready"
      /\ [NoTask EXCEPT !.pc = "ready"].packs = Nothing
  BY DEF NoTask
<1>2. tasks' = [r \in RunId |-> IF \E c \in Claimable(m) : orders[c] = r
                                 THEN [NoTask EXCEPT !.pc = "ready"] ELSE tasks[r]]
  BY DEF TakeBackups
<1>3. /\ \A c \in Claimable(m) : c \in Command /\ status[c] = "pending" /\ status'[c] = "claimed"
      /\ \A c \in Command : c \notin Claimable(m) => status'[c] \in {status[c], "expired"}
  <2>1. status' = [c \in Command |->
                    IF c \in Claimable(m) THEN "claimed"
                    ELSE IF c \in PendingOf(m) THEN "expired" ELSE status[c]]
    BY DEF TakeBackups, Claim
  <2> QED
    BY <2>1 DEF Claimable, PendingOf
<1> QED
  BY <1>1, <1>2, <1>3 DEF TakeBackups, backupTables, backupHub, backupHistory

\* A backup is queued for a run that no command names.
LEMMA QueueMeans ==
  ASSUME BaseInv, NEW t \in Thread, QueueBackup(t)
  PROVE  \E c \in Command :
         /\ status[c] = "unissued" /\ status'[c] = "pending" /\ orders'[c] = threads[t].run
         /\ threads[t].run \in RunId
         /\ \A d \in Command : d # c => status'[d] = status[d] /\ orders'[d] = orders[d]
         /\ threads[t].pc = "queue" /\ threads'[t].pc = "attach"
         /\ \A u \in Thread : u # t => threads'[u] = threads[u]
         /\ UNCHANGED <<runs, fileSets, recorded, store, tasks, posts, cache, file, overlapped, unlisted>>
<1> DEFINE free == CHOOSE f \in Command : status[f] = "unissued"
<1>1. PICK c \in Command : c = free
  BY DEF QueueBackup
<1>2. /\ \E m \in Machine : Create(c, m)
      /\ threads' = [threads EXCEPT ![t] = [threads[t] EXCEPT !.pc = "attach", !.command = c]]
      /\ orders' = [orders EXCEPT ![c] = threads[t].run]
  BY <1>1 DEF QueueBackup
<1> HIDE DEF free
<1>3. /\ status \in [Command -> CommandStatus \cup NoRow] /\ orders \in [Command -> 0..MaxRuns]
      /\ threads \in [Thread -> PassState] /\ threads[t] \in PassState
  BY DEF BaseInv, BackupTypeOK, QueueTypeOK
<1>4. status[c] = "unissued" /\ status' = [status EXCEPT ![c] = "pending"]
  BY <1>2 DEF Create
<1>5. threads[t].pc = "queue" /\ threads[t].run \in RunId
  BY ChainsAreRuns DEF QueueBackup, Stands, BaseInv, RunsAreKnown
<1>6. /\ threads'[t].pc = "attach"
      /\ \A u \in Thread : u # t => threads'[u] = threads[u]
  BY <1>2, <1>3 DEF PassState
<1>7. /\ status'[c] = "pending" /\ orders'[c] = threads[t].run
      /\ \A d \in Command : d # c => status'[d] = status[d] /\ orders'[d] = orders[d]
  BY <1>2, <1>3, <1>4
<1>8. UNCHANGED <<runs, fileSets, recorded, store, tasks, posts, cache, file, overlapped, unlisted>>
  BY DEF QueueBackup, backupTables, backupAgent, backupHistory
<1> QED
  BY <1>4, <1>5, <1>6, <1>7, <1>8

\* A run's status becomes what a step says, if it changes at all.
LEMMA ClosingIsNoSuccess ==
  ASSUME BaseInv, NEW r \in DOMAIN runs, NEW to \in RunStatus, FinishRun(r, to)
  PROVE  /\ DOMAIN runs' = DOMAIN runs
         /\ \A q \in DOMAIN runs : runs'[q].status = IF q = r THEN to ELSE runs[q].status
  BY FinishMeans DEF BaseInv

\* Steps of the hub that leave commands and tasks alone.
LEMMA HubKeepsLead ==
  ASSUME BaseInv, TasksLead, UNCHANGED <<orders, tasks>>,
         \A c \in Command : status'[c] \in {"unissued", "pending"} => status'[c] = status[c],
         \A t \in Thread : threads'[t].pc = "queue" => threads'[t] = threads[t],
         \A p \in Post : PostKept(p),
         \A s \in fileSets' : s \in fileSets \/ (s.run \in RunId /\ tasks[s.run].pc \in Sent),
         DOMAIN runs' = DOMAIN runs,
         \A r \in DOMAIN runs : runs'[r].status = "succeeded" =>
             runs[r].status = "succeeded" \/ tasks[r].pc \in Sent
  PROVE  TasksLead'
BY LeadIsKept DEF TaskMoves

LEMMA AgentKeepsLead ==
  ASSUME BaseInv, TasksLead,
         \/ Edit \/ AgentRestarts
         \/ \E r \in RunId : \/ Select(r) \/ Upload(r) \/ BeginRelay(r) \/ GivesUp(r) \/ BackupFails(r)
                             \/ TimesOut(r) \/ RelayFails(r)
         \/ \E r \in RunId, p \in Post : Send(r, p)
         \/ \E p \in Post : AnswerReport(p)
  PROVE  TasksLead'
<1>q. TasksQuiet => \A r \in RunId : TaskMoves(r)
  BY DEF TasksQuiet, TaskKept, TaskMoves
<1>t. ASSUME UNCHANGED <<queueVars, orders, fileSets, threads, runs>>, \A r \in RunId : TaskMoves(r),
             \A p \in Post : PostKept(p) \/ (posts'[p].run \in RunId /\ tasks[posts'[p].run].pc \in Sent)
      PROVE  TasksLead'
  BY <1>t, LeadIsKept DEF queueVars
<1>p. UNCHANGED posts => \A p \in Post : PostKept(p)
  BY PostsAreKept
<1> USE DEF backupTables, backupHub, backupHistory
<1>1. CASE Edit \/ AgentRestarts
  BY <1>1, <1>q, <1>t, <1>p, AgentIsQuiet DEF Edit, AgentRestarts
<1>2. ASSUME NEW r \in RunId, BeginRelay(r) \/ GivesUp(r) \/ BackupFails(r) \/ TimesOut(r)  PROVE TasksLead'
  BY <1>2, <1>q, <1>t, <1>p, AgentIsQuiet DEF BeginRelay, GivesUp, BackupFails, TimesOut
<1>3. ASSUME NEW r \in RunId, RelayFails(r)  PROVE TasksLead'
  <2>1. r \in DOMAIN runs
    BY <1>3 DEF BaseInv, RunsAreKnown, RelayFails, Does
  <2>2. /\ DOMAIN runs' = DOMAIN runs
        /\ \A q \in DOMAIN runs : runs'[q].status = "succeeded" => runs[q].status = "succeeded"
    BY <1>3, <2>1, ClosingIsNoSuccess DEF RelayFails, RunStatus
  <2> QED
    BY <1>3, <1>q, <1>p, <2>2, AgentIsQuiet, LeadIsKept DEF RelayFails, queueVars
<1>4. ASSUME NEW r \in RunId, Select(r) \/ Upload(r)  PROVE TasksLead'
  <2>1. \A q \in RunId : TaskMoves(q)
    BY <1>4, SelectMeans, UploadMeans DEF TaskMoves, Sent
  <2> QED
    BY <1>4, <1>t, <1>p, <2>1, SelectMeans, UploadMeans
<1>5. ASSUME NEW r \in RunId, NEW p \in Post, Send(r, p)  PROVE TasksLead'
  <2>1. tasks[r].pc \in Sent
    BY <1>5 DEF Send, Does, Sent
  <2>2. \A q \in Post : PostKept(q) \/ (posts'[q].run \in RunId /\ tasks[posts'[q].run].pc \in Sent)
    BY <1>5, <2>1, SendKeepsTypes DEF PostKept, Asks
  <2> QED
    BY <1>5, <1>q, <1>t, <2>2, AgentIsQuiet DEF Send
<1>6. ASSUME NEW p \in Post, AnswerReport(p)  PROVE TasksLead'
  <2>1. \A q \in Post : PostKept(q)
    BY <1>6, PostsAreKept
  <2> QED
    BY <1>6, <1>q, <1>t, <2>1, AgentIsQuiet DEF AnswerReport
<1> QED
  BY <1>1, <1>2, <1>3, <1>4, <1>5, <1>6

LEMMA QueueKeepsLead ==
  ASSUME BaseInv, ManifestInv, TasksLead,
         \/ \E a \in Agent, m \in Machine : TakeBackups(a, m)
         \/ \E t \in Thread : QueueBackup(t) \/ StartFileRun(t)
  PROVE  TasksLead'
<1>0. /\ \A c \in Command : orders[c] # 0 => orders[c] \in DOMAIN runs /\ orders[c] \in RunId
      /\ \A r \in DOMAIN runs : r \in RunId
      /\ \A t \in Thread : threads[t].pc = "queue" => threads[t].run \in RunId /\ threads[t].run \in DOMAIN runs
  BY ChainsAreRuns DEF BaseInv, RunsAreKnown
<1>1. ASSUME NEW a \in Agent, NEW m \in Machine, TakeBackups(a, m)  PROVE TasksLead'
  <2>0. /\ \A r \in RunId :
                \/ tasks'[r] = tasks[r] /\ \A c \in Claimable(m) : orders[c] # r
                \/ /\ tasks'[r].pc = "ready" /\ tasks'[r].packs = Nothing
                   /\ \E c \in Claimable(m) : orders[c] = r
        /\ \A c \in Claimable(m) : c \in Command /\ status[c] = "pending" /\ status'[c] = "claimed"
        /\ \A c \in Command : c \notin Claimable(m) => status'[c] \in {status[c], "expired"}
        /\ UNCHANGED <<runs, fileSets, orders, threads, posts>>
    BY <1>1, TakeMeans
  <2>1. \A r \in RunId : tasks'[r] = tasks[r] \/ (tasks[r].pc = "none" /\ tasks'[r].pc = "ready" /\ tasks'[r].packs = Nothing)
    <3> SUFFICES ASSUME NEW r \in RunId, tasks'[r] # tasks[r]
                 PROVE  tasks[r].pc = "none" /\ tasks'[r].pc = "ready" /\ tasks'[r].packs = Nothing
      OBVIOUS
    <3>1. PICK c \in Claimable(m) : orders[c] = r
      BY <2>0
    <3>2. c \in Command /\ status[c] = "pending" /\ orders[c] # 0
      BY <2>0, <3>1 DEF RunId
    <3> QED
      BY <2>0, <3>1, <3>2 DEF TasksLead
  <2>2. \A c \in Command : status'[c] = "unissued" => orders'[c] = 0
    BY <2>0 DEF TasksLead
  <2>3. \A c \in Command : status'[c] = "pending" /\ orders'[c] # 0 => tasks'[orders'[c]].pc = "none"
    <3> SUFFICES ASSUME NEW c \in Command, status'[c] = "pending", orders[c] # 0
                 PROVE  tasks'[orders[c]].pc = "none"
      BY <2>0
    <3>1. c \notin Claimable(m) /\ status[c] = "pending"
      BY <2>0
    <3>2. \A d \in Claimable(m) : orders[d] # orders[c]
      BY <2>0, <3>1 DEF TasksLead
    <3>3. tasks'[orders[c]] = tasks[orders[c]]
      BY <1>0, <2>0, <3>2
    <3> QED
      BY <3>1, <3>3 DEF TasksLead
  <2>4. \A t \in Thread : threads'[t].pc = "queue" =>
           tasks'[threads'[t].run].pc = "none" /\ \A c \in Command : orders'[c] # threads'[t].run
    BY <1>0, <2>0 DEF TasksLead
  <2>5. \A r \in RunId : tasks'[r].pc \notin Sent => tasks[r].pc \notin Sent
    BY <2>1 DEF Sent
  <2>6. \A r \in RunId : tasks'[r].pc \notin Sent =>
           ~IsListed(r)' /\ \A p \in Post : Asks(p)' => posts'[p].run # r
    BY <2>0, <2>5 DEF TasksLead, IsListed, Asks
  <2>7. \A r \in DOMAIN runs' : runs'[r].status = "succeeded" => tasks'[r].pc \in Sent
    BY <1>0, <2>0, <2>1 DEF TasksLead, Sent
  <2>8. \A r \in RunId : tasks'[r].pc \in {"none", "ready"} => tasks'[r].packs = Nothing
    BY <2>1 DEF TasksLead
  <2>9. \A c, d \in Command : orders'[c] # 0 /\ orders'[c] = orders'[d] => c = d
    BY <2>0 DEF TasksLead
  <2> QED
    BY <2>2, <2>3, <2>4, <2>6, <2>7, <2>8, <2>9 DEF TasksLead
<1>2. ASSUME NEW t \in Thread, QueueBackup(t)  PROVE TasksLead'
  <2>0. PICK c \in Command :
         /\ status[c] = "unissued" /\ status'[c] = "pending" /\ orders'[c] = threads[t].run
         /\ threads[t].run \in RunId
         /\ \A d \in Command : d # c => status'[d] = status[d] /\ orders'[d] = orders[d]
         /\ threads[t].pc = "queue" /\ threads'[t].pc = "attach"
         /\ \A u \in Thread : u # t => threads'[u] = threads[u]
         /\ UNCHANGED <<runs, fileSets, tasks, posts>>
    BY <1>2, QueueMeans
  <2>1. \A u \in Thread : threads'[u].pc # "queue"
    BY <2>0 DEF ManifestInv, OnePass, Dispatching
  <2>2. \A d, e \in Command : orders'[d] # 0 /\ orders'[d] = orders'[e] => d = e
    <3>1. \A d \in Command : orders[d] # threads[t].run
      BY <2>0 DEF TasksLead
    <3> QED
      BY <2>0, <3>1 DEF TasksLead
  <2>3. \A d \in Command : status'[d] = "unissued" => orders'[d] = 0
    BY <2>0 DEF TasksLead
  <2>4. tasks[threads[t].run].pc = "none"
    BY <2>0 DEF TasksLead
  <2>5. \A d \in Command : status'[d] = "pending" /\ orders'[d] # 0 => tasks'[orders'[d]].pc = "none"
    BY <2>0, <2>4 DEF TasksLead
  <2>6. /\ \A r \in RunId : tasks'[r].pc \notin Sent =>
               ~IsListed(r)' /\ \A p \in Post : Asks(p)' => posts'[p].run # r
        /\ \A r \in DOMAIN runs' : runs'[r].status = "succeeded" => tasks'[r].pc \in Sent
        /\ \A r \in RunId : tasks'[r].pc \in {"none", "ready"} => tasks'[r].packs = Nothing
    BY <2>0 DEF TasksLead, IsListed, Asks
  <2> QED
    BY <2>1, <2>2, <2>3, <2>5, <2>6 DEF TasksLead
<1>3. ASSUME NEW t \in Thread, StartFileRun(t)  PROVE TasksLead'
  <2>0. PICK r \in RunId :
         /\ r \notin DOMAIN runs /\ DOMAIN runs' = DOMAIN runs \cup {r}
         /\ runs'[r].status = "running" /\ \A q \in DOMAIN runs : runs'[q] = runs[q]
         /\ threads'[t].run = r
         /\ \A u \in Thread : u # t => threads'[u] = threads[u]
    BY <1>3, StartMeans DEF BaseInv
  <2>1. UNCHANGED <<queueVars, fileSets, orders, tasks, posts>>
    BY <1>3 DEF StartFileRun, backupAgent
  <2>2. tasks[r].pc = "none" /\ \A c \in Command : orders[c] # r
    BY <1>0, <2>0 DEF BaseInv, RunsAreKnown, RunId
  <2>3. \A u \in Thread : threads'[u].pc = "queue" =>
           tasks'[threads'[u].run].pc = "none" /\ \A c \in Command : orders'[c] # threads'[u].run
    BY <2>0, <2>1, <2>2 DEF TasksLead
  <2>4. \A q \in DOMAIN runs' : runs'[q].status = "succeeded" => tasks'[q].pc \in Sent
    BY <2>0, <2>1 DEF TasksLead
  <2>5. /\ \A c, d \in Command : orders'[c] # 0 /\ orders'[c] = orders'[d] => c = d
        /\ \A c \in Command : status'[c] = "unissued" => orders'[c] = 0
        /\ \A c \in Command : status'[c] = "pending" /\ orders'[c] # 0 => tasks'[orders'[c]].pc = "none"
        /\ \A q \in RunId : tasks'[q].pc \notin Sent =>
               ~IsListed(q)' /\ \A p \in Post : Asks(p)' => posts'[p].run # q
        /\ \A q \in RunId : tasks'[q].pc \in {"none", "ready"} => tasks'[q].packs = Nothing
    BY <2>1 DEF TasksLead, IsListed, Asks, queueVars
  <2> QED
    BY <2>3, <2>4, <2>5 DEF TasksLead
<1> QED
  BY <1>1, <1>2, <1>3

LEMMA HubStepsKeepLead ==
  ASSUME BaseInv, TasksLead,
         \/ UNCHANGED backupVars
         \/ LookToCancel \/ RecallBackup \/ CloseCancelled \/ HubStops
         \/ \E c \in Command : BackupLapses(c)
         \/ \E t \in Thread : \/ BeginExpiry(t) \/ DispatchFails(t) \/ AttachCommand(t) \/ ExpireRun(t)
                              \/ BeginDispatch(t) \/ PlanNextRun(t)
         \/ \E p \in Post :
                \/ GetRun(p) \/ Discard(p) \/ CompleteFailed(p) \/ CheckBase(p) \/ CompleteSucceeded(p)
                \/ RecordFileSet(p) \/ RotateChains(p) \/ DeleteArchive(p) \/ DeleteFails(p) \/ DropRows(p)
  PROVE  TasksLead'
<1> USE DEF backupTables, backupHub, backupAgent, backupHistory
<1>0. BackupTypeOK /\ threads \in [Thread -> PassState] /\ NoThread.pc = "idle"
  BY NoRecordsAreTyped DEF BaseInv, BackupTypeOK
<1>p. UNCHANGED posts => \A p \in Post : PostKept(p)
  BY PostsAreKept
<1>q. UNCHANGED queueVars => \A c \in Command : status'[c] \in {"unissued", "pending"} => status'[c] = status[c]
  BY DEF queueVars
<1>t. UNCHANGED threads => \A t \in Thread : threads'[t].pc = "queue" => threads'[t] = threads[t]
  OBVIOUS
<1>r. UNCHANGED runs => /\ DOMAIN runs' = DOMAIN runs
                        /\ \A r \in DOMAIN runs : runs'[r].status = "succeeded" =>
                               runs[r].status = "succeeded" \/ tasks[r].pc \in Sent
  OBVIOUS
<1>f. UNCHANGED fileSets => \A s \in fileSets' : s \in fileSets \/ (s.run \in RunId /\ tasks[s.run].pc \in Sent)
  OBVIOUS
<1>c. ASSUME NEW r \in DOMAIN runs, NEW to \in {"failed", "cancelled"}, FinishRun(r, to)
      PROVE  /\ DOMAIN runs' = DOMAIN runs
             /\ \A q \in DOMAIN runs : runs'[q].status = "succeeded" =>
                    runs[q].status = "succeeded" \/ tasks[q].pc \in Sent
  BY <1>c, ClosingIsNoSuccess DEF RunStatus
<1>1. CASE UNCHANGED backupVars
  BY <1>1, <1>p, <1>q, <1>t, <1>r, <1>f, HubKeepsLead DEF backupVars, backupOwn
<1>2. CASE LookToCancel
  BY <1>2, <1>p, <1>q, <1>t, <1>r, <1>f, HubKeepsLead DEF LookToCancel
<1>3. CASE RecallBackup
  <2>1. \A c \in Command : status'[c] \in {"unissued", "pending"} => status'[c] = status[c]
    <3>1. CASE UNCHANGED queueVars
      BY <1>q, <3>1
    <3>2. CASE CancelIfPending(cancelling.command)
      <4>1. status' = [status EXCEPT ![cancelling.command] = "expired"]
        BY <3>2 DEF CancelIfPending
      <4> QED
        BY <1>0, <4>1 DEF BackupTypeOK, QueueTypeOK
    <3> QED
      BY <1>3, <3>1, <3>2 DEF RecallBackup
  <2> QED
    BY <1>3, <1>p, <1>t, <1>r, <1>f, <2>1, HubKeepsLead DEF RecallBackup
<1>4. CASE CloseCancelled
  <2>1. cancelling.run \in DOMAIN runs
    BY <1>4 DEF CloseCancelled, BaseInv, RunsAreKnown
  <2> QED
    BY <1>4, <1>p, <1>q, <1>t, <1>c, <1>f, <2>1, HubKeepsLead DEF CloseCancelled, CloseOver
<1>5. CASE HubStops
  <2>1. \A t \in Thread : threads'[t].pc = "idle"
    BY <1>0, <1>5 DEF HubStops
  <2> QED
    BY <1>5, <1>q, <1>r, <1>f, <2>1, HubKeepsLead, PostsAreKept DEF HubStops
<1>6. ASSUME NEW c \in Command, BackupLapses(c)  PROVE TasksLead'
  BY <1>6, <1>p, <1>t, <1>r, <1>f, HubKeepsLead DEF BackupLapses, backupOwn, Lapse
<1>7. ASSUME NEW t \in Thread, BeginExpiry(t)  PROVE TasksLead'
  <2>1. \A u \in Thread : threads'[u].pc = "queue" => threads'[u] = threads[u]
    <3>1. PICK stale \in SUBSET Running :
             threads' = [threads EXCEPT ![t].pc = "expire", ![t].stale = stale]
      BY <1>7 DEF BeginExpiry
    <3>2. threads' = [threads EXCEPT ![t] = [threads[t] EXCEPT !.pc = "expire", !.stale = stale]]
      BY <1>0, <3>1
    <3>3. threads[t] \in PassState
      BY <1>0
    <3> QED
      BY <1>0, <3>2, <3>3 DEF PassState
  <2> QED
    BY <1>7, <1>p, <1>q, <1>r, <1>f, <2>1, HubKeepsLead DEF BeginExpiry
<1>8. ASSUME NEW t \in Thread, DispatchFails(t)  PROVE TasksLead'
  <2>1. \A u \in Thread : threads'[u].pc = "queue" => threads'[u] = threads[u]
    BY <1>0, <1>8 DEF DispatchFails, Leave
  <2> QED
    BY <1>8, <1>p, <1>q, <1>r, <1>f, <2>1, HubKeepsLead DEF DispatchFails
<1>9. ASSUME NEW t \in Thread, AttachCommand(t)  PROVE TasksLead'
  <2>1. \A u \in Thread : threads'[u].pc = "queue" => threads'[u] = threads[u]
    BY <1>0, <1>9 DEF AttachCommand, Leave
  <2>2. /\ DOMAIN runs' = DOMAIN runs
        /\ \A q \in DOMAIN runs : runs'[q].status = runs[q].status
    <3>1. threads[t].run \in DOMAIN runs /\ threads[t].command \in Command \cup {NoBackup}
      BY <1>0, <1>9 DEF AttachCommand, Stands, BaseInv, RunsAreKnown, PassState
    <3> QED
      BY <1>0, <1>9, <3>1, AttachMeans DEF AttachCommand
  <2> QED
    BY <1>9, <1>p, <1>q, <1>f, <2>1, <2>2, HubKeepsLead DEF AttachCommand
<1>10. ASSUME NEW t \in Thread, ExpireRun(t)  PROVE TasksLead'
  <2>1. PICK r \in threads[t].stale :
           /\ CloseOver(r, "failed")
           /\ threads' = IF threads[t].stale = {r} THEN [threads EXCEPT ![t] = NoThread]
                         ELSE [threads EXCEPT ![t] = [threads[t] EXCEPT !.stale = @ \ {r}]]
    BY <1>10 DEF ExpireRun
  <2>2. r \in DOMAIN runs /\ threads[t].pc = "expire"
    BY <1>10 DEF ExpireRun, Stands, BaseInv, RunsAreKnown
  <2>3. threads[t] \in PassState
    BY <1>0
  <2>4. \A u \in Thread : threads'[u].pc = "queue" => threads'[u] = threads[u]
    BY <1>0, <2>1, <2>2, <2>3 DEF PassState
  <2> QED
    BY <1>10, <1>p, <1>q, <1>c, <1>f, <2>1, <2>2, <2>4, HubKeepsLead DEF ExpireRun, CloseOver
<1>11. ASSUME NEW t \in Thread, BeginDispatch(t) \/ PlanNextRun(t)  PROVE TasksLead'
  <2>1. /\ \A u \in Thread : threads'[u].pc = "queue" => threads'[u] = threads[u]
        /\ UNCHANGED <<runs, fileSets, posts, tasks>>
    BY <1>11, BeginMeans, PlanMeans
  <2>2. UNCHANGED <<queueVars, orders>>
    BY <1>11 DEF BeginDispatch, PlanNextRun
  <2> QED
    BY <1>p, <1>q, <1>r, <1>f, <2>1, <2>2, HubKeepsLead
<1>12. ASSUME NEW p \in Post, GetRun(p) \/ Discard(p) \/ CheckBase(p)  PROVE TasksLead'
  BY <1>12, <1>q, <1>t, <1>r, <1>f, HubKeepsLead, PostsAreKept DEF GetRun, Discard, CheckBase
<1>13. ASSUME NEW p \in Post, CompleteFailed(p) \/ CompleteSucceeded(p)  PROVE TasksLead'
  <2>1. posts[p].run \in DOMAIN runs /\ tasks[posts[p].run].pc \in Sent
    BY <1>13, AskingIsOfASent DEF CompleteFailed, CompleteSucceeded, Serves, Asks
  <2>2. PICK to \in {"failed", "succeeded"} : FinishRun(posts[p].run, to)
    BY <1>13 DEF CompleteFailed, CompleteSucceeded
  <2>3. /\ DOMAIN runs' = DOMAIN runs
        /\ \A q \in DOMAIN runs : runs'[q].status = "succeeded" =>
               runs[q].status = "succeeded" \/ tasks[q].pc \in Sent
    BY <2>1, <2>2, ClosingIsNoSuccess DEF RunStatus
  <2> QED
    BY <1>13, <1>q, <1>t, <1>f, <2>3, HubKeepsLead, PostsAreKept DEF CompleteFailed, CompleteSucceeded
<1>14. ASSUME NEW p \in Post, RecordFileSet(p)  PROVE TasksLead'
  <2>1. \A s \in fileSets' : s \in fileSets \/ (s.run \in RunId /\ tasks[s.run].pc \in Sent)
    <3>1. posts[p].run \in RunId /\ tasks[posts[p].run].pc \in Sent
      BY <1>14, AskingIsOfASent, RecordMeans DEF Asks
    <3> QED
      BY <1>14, <3>1, RecordMeans
  <2> QED
    BY <1>14, <1>q, <1>t, <1>r, <2>1, HubKeepsLead, PostsAreKept, RecordMeans
<1>15. ASSUME NEW p \in Post, RotateChains(p) \/ DeleteArchive(p) \/ DeleteFails(p) \/ DropRows(p)
       PROVE  TasksLead'
  <2>1. UNCHANGED <<runs, threads, tasks, orders, queueVars>> /\ fileSets' \subseteq fileSets
    BY <1>15, RotateMeans, DeleteMeans, RefusalMeans, DropMeans
  <2> QED
    BY <1>15, <1>q, <1>t, <1>r, <2>1, HubKeepsLead, PostsAreKept
<1> QED
  BY <1>1, <1>2, <1>3, <1>4, <1>5, <1>6, <1>7, <1>8, <1>9, <1>10, <1>11, <1>12, <1>13, <1>14, <1>15

LEMMA LeadStep ==
  ASSUME BaseInv, ManifestInv, TasksLead, [BackupNext]_backupVars
  PROVE  TasksLead'
BY HubStepsKeepLead, QueueKeepsLead, AgentKeepsLead
DEF BackupNext, DispatchStep, CancelRunStep, AgentStep, ReportStep, BackupFault

-------------------------------------------------------------------------------
(* What is stored.                                                         *)

LEMMA KeysStay ==
  ASSUME BaseInv, [BackupNext]_backupVars
  PROVE  KeysKept
<1>1. CASE CalmStep
  BY <1>1, CalmStepIsCalm DEF Calm
<1>2. ASSUME NEW t \in Thread, BeginDispatch(t) \/ PlanNextRun(t)  PROVE KeysKept
  BY <1>2, BeginMeans, PlanMeans DEF KeysKept
<1>3. ASSUME NEW t \in Thread, StartFileRun(t)  PROVE KeysKept
  BY <1>3, StartMeans DEF KeysKept, BaseInv
<1>4. ASSUME NEW p \in Post, RecordFileSet(p)  PROVE KeysKept
  BY <1>4, RecordMeans DEF KeysKept
<1>5. ASSUME NEW p \in Post, RotateChains(p) \/ DeleteArchive(p) \/ DeleteFails(p) \/ DropRows(p)  PROVE KeysKept
  BY <1>5, RotateMeans, DeleteMeans, RefusalMeans, DropMeans
<1> QED
  BY <1>1, <1>2, <1>3, <1>4, <1>5, StepKinds

\* A run's object is written or deleted under its key only by itself, or by
\* one that shares its key.
LEMMA StoredStays ==
  ASSUME BaseInv, KeysKept, NEW r \in DOMAIN runs, NEW q \in DOMAIN runs, NEW v, Stored(q, v),
         store' = store \/ (q # r /\ ((\E w : Put(KeyOf(r), w)) \/ Delete(KeyOf(r))))
  PROVE  Stored(q, v)'
<1>1. \A u \in DOMAIN runs : u \in DOMAIN runs' /\ KeyOf(u)' = KeyOf(u)
  BY DEF KeysKept, KeyOf
<1>2. CASE SharesItsKey(q)
  BY <1>1, <1>2 DEF Stored, SharesItsKey
<1>3. CASE ~SharesItsKey(q)
  <2>1. [key |-> KeyOf(q), holds |-> v] \in store
    BY <1>3 DEF Stored
  <2>2. KeyOf(r) # KeyOf(q) \/ store' = store
    BY <1>3 DEF SharesItsKey
  <2>3. [key |-> KeyOf(q), holds |-> v].key = KeyOf(q)
    OBVIOUS
  <2>4. [key |-> KeyOf(q), holds |-> v] \in store'
    BY <2>1, <2>2, <2>3 DEF Put, Delete
  <2> QED
    BY <1>1, <2>4 DEF Stored
<1> QED
  BY <1>2, <1>3

LEMMA StoreSteps ==
  ASSUME BaseInv, [BackupNext]_backupVars
  PROVE  store' = store \/ (\E r \in RunId : Upload(r)) \/ \E p \in Post : Discard(p) \/ DeleteArchive(p)
BY DEF BackupNext, DispatchStep, CancelRunStep, AgentStep, ReportStep, BackupFault, backupVars, backupOwn,
       Edit, AgentRestarts, LookToCancel, RecallBackup, CloseCancelled, HubStops, TakeBackups, BackupLapses,
       Select, BeginRelay, GivesUp, BackupFails, TimesOut, RelayFails, Send, BeginExpiry, DispatchFails,
       QueueBackup, AttachCommand, ExpireRun, GetRun, CompleteFailed, CheckBase, CompleteSucceeded,
       AnswerReport, BeginDispatch, PlanNextRun, StartFileRun, RecordFileSet, RotateChains,
       DeleteFails, DropRows

\* What is said to be done has been, unless it is done now.
LEMMA SaysStep ==
  ASSUME BaseInv, TasksLead, [BackupNext]_backupVars, NEW r \in RunId, SaysDone(r)'
  PROVE  Upload(r) \/ (SaysDone(r) /\ tasks'[r].packs = tasks[r].packs)
<1> USE DEF SaysDone, TaskSays
<1>t. ASSUME TasksQuiet, \A p \in Post : PostKept(p)  PROVE SaysDone(r) /\ tasks'[r].packs = tasks[r].packs
  BY <1>t DEF TasksQuiet, TaskKept, PostKept
<1>1. ASSUME UNCHANGED tasks, UNCHANGED posts  PROVE SaysDone(r) /\ tasks'[r].packs = tasks[r].packs
  BY <1>1 DEF Asks
<1>2. CASE \/ Edit \/ AgentRestarts
           \/ \E q \in RunId : BeginRelay(q) \/ GivesUp(q) \/ BackupFails(q) \/ TimesOut(q) \/ RelayFails(q)
  BY <1>2, <1>t, AgentIsQuiet, PostsAreKept
     DEF backupHub, Edit, AgentRestarts, BeginRelay, GivesUp, BackupFails, TimesOut, RelayFails
<1>3. ASSUME NEW p \in Post, AnswerReport(p)  PROVE SaysDone(r) /\ tasks'[r].packs = tasks[r].packs
  BY <1>3, <1>t, AgentIsQuiet, PostsAreKept
<1>4. ASSUME NEW q \in RunId, NEW p \in Post, Send(q, p)  PROVE SaysDone(r) /\ tasks'[r].packs = tasks[r].packs
  <2>1. TasksQuiet
    BY <1>4, AgentIsQuiet
  <2>2. tasks[q].pc = "report"
    BY <1>4 DEF Send, Does
  <2>3. posts'[p].run = q /\ posts'[p].ok = tasks[q].ok /\ \A o \in Post : o # p => posts'[o] = posts[o]
    BY <1>4, SendKeepsTypes
  <2> QED
    BY <2>1, <2>2, <2>3 DEF TasksQuiet, TaskKept, Asks
<1>5. ASSUME NEW q \in RunId, Select(q) \/ Upload(q), ~Upload(r)  PROVE SaysDone(r) /\ tasks'[r].packs = tasks[r].packs
  <2>1. UNCHANGED posts /\ \A u \in RunId : u # q => tasks'[u] = tasks[u]
    BY <1>5, SelectMeans, UploadMeans
  <2>2. CASE q = r
    <3>1. Select(r) /\ tasks[r].pc = "ready" /\ tasks'[r].pc = "packed"
      BY <1>5, <2>2, SelectMeans
    <3>2. \A p \in Post : Asks(p) => posts[p].run # r
      BY <3>1 DEF TasksLead, Sent
    <3> QED
      BY <2>1, <3>1, <3>2 DEF Asks
  <2>3. CASE q # r
    BY <1>1, <2>1, <2>3 DEF Asks
  <2> QED
    BY <2>2, <2>3
<1>6. ASSUME NEW a \in Agent, NEW m \in Machine, TakeBackups(a, m)  PROVE SaysDone(r) /\ tasks'[r].packs = tasks[r].packs
  <2>1. UNCHANGED posts
    BY <1>6, TakeMeans
  <2>2. CASE tasks'[r] = tasks[r]
    BY <2>1, <2>2 DEF Asks
  <2>3. CASE tasks'[r].pc = "ready" /\ \E c \in Claimable(m) : orders[c] = r
    <3>1. PICK c \in Claimable(m) : orders[c] = r
      BY <2>3
    <3>2. c \in Command /\ status[c] = "pending" /\ orders[c] # 0
      BY <1>6, <3>1, TakeMeans DEF RunId
    <3>3. tasks[r].pc = "none"
      BY <3>1, <3>2 DEF TasksLead
    <3>4. \A p \in Post : Asks(p) => posts[p].run # r
      BY <3>3 DEF TasksLead, Sent
    <3> QED
      BY <2>1, <2>3, <3>4 DEF Asks
  <2> QED
    BY <1>6, <2>2, <2>3, TakeMeans
<1>7. ASSUME UNCHANGED tasks, \A p \in Post : PostKept(p)  PROVE SaysDone(r) /\ tasks'[r].packs = tasks[r].packs
  BY <1>7 DEF PostKept
<1>8. ASSUME NEW p \in Post, \/ GetRun(p) \/ Discard(p) \/ CompleteFailed(p) \/ CheckBase(p) \/ CompleteSucceeded(p)
                             \/ RecordFileSet(p) \/ RotateChains(p) \/ DeleteArchive(p) \/ DeleteFails(p) \/ DropRows(p)
      PROVE  SaysDone(r) /\ tasks'[r].packs = tasks[r].packs
  <2>1. UNCHANGED tasks
    BY <1>8 DEF GetRun, Discard, CompleteFailed, CheckBase, CompleteSucceeded, RecordFileSet, RotateChains,
                DeleteArchive, DeleteFails, DropRows, backupAgent
  <2> QED
    BY <1>7, <1>8, <2>1, PostsAreKept
<1>9. CASE HubStops
  <2>1. UNCHANGED tasks
    BY <1>9 DEF HubStops, backupAgent
  <2> QED
    BY <1>7, <1>9, <2>1, PostsAreKept
<1>10. CASE \/ UNCHANGED backupVars \/ LookToCancel \/ RecallBackup \/ CloseCancelled
            \/ \E c \in Command : BackupLapses(c)
            \/ \E t \in Thread : \/ BeginExpiry(t) \/ DispatchFails(t) \/ AttachCommand(t) \/ ExpireRun(t)
                              \/ BeginDispatch(t) \/ PlanNextRun(t) \/ StartFileRun(t) \/ QueueBackup(t)
  <2>1. UNCHANGED tasks /\ UNCHANGED posts
    BY <1>10 DEF backupVars, backupOwn, backupHub, backupAgent, LookToCancel, RecallBackup, CloseCancelled,
                 BackupLapses, BeginExpiry, DispatchFails, AttachCommand, ExpireRun, BeginDispatch, PlanNextRun,
                 StartFileRun, QueueBackup
  <2> QED
    BY <1>1, <2>1
<1> QED
  BY <1>2, <1>3, <1>4, <1>5, <1>6, <1>8, <1>9, <1>10
  DEF BackupNext, DispatchStep, CancelRunStep, AgentStep, ReportStep, BackupFault

\* A cancelled run that was sent a report of stays so, and a run whose report
\* is past its first look is not cancelled under it.
StatusHolds(r) ==
    /\ runs[r].status = "cancelled" /\ tasks[r].pc \in Sent => runs'[r].status = "cancelled"
    /\ runs[r].status # "cancelled" /\ (\E p \in Post : posts[p].run = r /\ posts[p].pc # "get" /\ Asks(p))
       => runs'[r].status # "cancelled"

\* The steps that change a run.
LEMMA RunSteps ==
  ASSUME [BackupNext]_backupVars
  PROVE  \/ CloseCancelled
         \/ \E t \in Thread : ExpireRun(t) \/ AttachCommand(t) \/ StartFileRun(t)
         \/ \E q \in RunId : RelayFails(q)
         \/ \E p \in Post : CompleteFailed(p) \/ CompleteSucceeded(p)
         \/ UNCHANGED runs
BY DEF BackupNext, DispatchStep, CancelRunStep, AgentStep, ReportStep, BackupFault, backupVars, backupOwn, backupTables,
       Edit, AgentRestarts, LookToCancel, RecallBackup, HubStops, TakeBackups, BackupLapses,
       Select, Upload, BeginRelay, GivesUp, BackupFails, TimesOut, Send, BeginExpiry, DispatchFails,
       QueueBackup, GetRun, Discard, CheckBase,
       AnswerReport, BeginDispatch, PlanNextRun, RecordFileSet, RotateChains, DeleteArchive,
       DeleteFails, DropRows

LEMMA StatusStep ==
  ASSUME BaseInv, TasksLead, ReportsAreTrue, [BackupNext]_backupVars, ~overlapped'
  PROVE  \A r \in DOMAIN runs : StatusHolds(r)
<1> USE DEF StatusHolds
<1>1. ASSUME \A r \in DOMAIN runs : runs'[r].status = runs[r].status  PROVE \A r \in DOMAIN runs : StatusHolds(r)
  BY <1>1
<1>2. ASSUME NEW q \in DOMAIN runs, NEW to \in {"failed", "cancelled"}, CloseOver(q, to)
      PROVE  \A r \in DOMAIN runs : StatusHolds(r)
  <2>1. runs[q].status = "running" /\ ~ \E p \in Post : posts[p].run = q /\ posts[p].pc # "get"
    BY <1>2 DEF CloseOver
  <2>2. \A r \in DOMAIN runs : runs'[r].status = IF r = q THEN to ELSE runs[r].status
    BY <1>2, ClosingIsNoSuccess DEF CloseOver, RunStatus
  <2> QED
    BY <2>1, <2>2
<1>3. CASE CloseCancelled
  <2>1. cancelling.run \in DOMAIN runs
    BY <1>3 DEF CloseCancelled, BaseInv, RunsAreKnown
  <2> QED
    BY <1>2, <1>3, <2>1 DEF CloseCancelled
<1>4. ASSUME NEW t \in Thread, ExpireRun(t)  PROVE \A r \in DOMAIN runs : StatusHolds(r)
  <2>1. PICK r \in threads[t].stale : CloseOver(r, "failed")
    BY <1>4 DEF ExpireRun
  <2>2. r \in DOMAIN runs
    BY <1>4, <2>1 DEF ExpireRun, Stands, BaseInv, RunsAreKnown
  <2> QED
    BY <1>2, <2>1, <2>2
<1>5. ASSUME NEW q \in RunId, RelayFails(q)  PROVE \A r \in DOMAIN runs : StatusHolds(r)
  <2>1. q \in DOMAIN runs /\ tasks[q].pc \notin Sent
    BY <1>5 DEF BaseInv, RunsAreKnown, RelayFails, Does, Sent
  <2>2. \A r \in DOMAIN runs : runs'[r].status = IF r = q THEN "failed" ELSE runs[r].status
    BY <1>5, <2>1, ClosingIsNoSuccess DEF RelayFails, RunStatus
  <2> QED
    BY <2>1, <2>2
<1>6. ASSUME NEW p \in Post, CompleteFailed(p) \/ CompleteSucceeded(p)
      PROVE  \A r \in DOMAIN runs : StatusHolds(r)
  <2>1. posts[p].pc \in {"fail", "finish"}
    BY <1>6 DEF CompleteFailed, CompleteSucceeded, Serves
  <2>2. posts[p].run \in DOMAIN runs /\ runs[posts[p].run].status # "cancelled"
    BY <2>1, AskingIsOfASent DEF ReportsAreTrue, Asks
  <2>3. PICK to \in {"failed", "succeeded"} : FinishRun(posts[p].run, to)
    BY <1>6 DEF CompleteFailed, CompleteSucceeded
  <2>4. \A r \in DOMAIN runs : runs'[r].status = IF r = posts[p].run THEN to ELSE runs[r].status
    BY <2>2, <2>3, ClosingIsNoSuccess DEF RunStatus
  <2> QED
    BY <2>2, <2>4
<1>7. ASSUME NEW t \in Thread, AttachCommand(t)  PROVE \A r \in DOMAIN runs : StatusHolds(r)
  <2>1. BackupTypeOK /\ threads[t].run \in DOMAIN runs /\ threads[t].command \in Command \cup {NoBackup}
    BY <1>7 DEF AttachCommand, Stands, BaseInv, RunsAreKnown, BackupTypeOK, PassState
  <2> QED
    BY <1>1, <1>7, <2>1, AttachMeans DEF AttachCommand
<1>8. ASSUME NEW t \in Thread, StartFileRun(t)  PROVE \A r \in DOMAIN runs : StatusHolds(r)
  BY <1>1, <1>8, StartMeans DEF BaseInv
<1>9. CASE UNCHANGED runs
  BY <1>1, <1>9
<1> QED
  BY <1>3, <1>4, <1>5, <1>6, <1>7, <1>8, <1>9, RunSteps

\* Where a report is in the part that closes or lists.
Closing == {"base", "insert", "fail", "finish", "discard"}

LEMMA WhereReportsAre ==
  ASSUME BaseInv, [BackupNext]_backupVars, NEW q \in Post, posts'[q].pc \in Closing
  PROVE  \/ posts'[q] = posts[q]
         \/ posts'[q].run = posts[q].run /\ posts'[q].ok = posts[q].ok /\ (GetRun(q) \/ CheckBase(q))
         \/ /\ posts'[q].run = posts[q].run /\ posts'[q].ok = posts[q].ok
            /\ posts'[q].pc = "finish" /\ RecordFileSet(q)
<1> USE DEF Closing
<1>0. BackupTypeOK /\ posts \in [Post -> PostState] /\ NoPost.pc = "idle"
  BY NoRecordsAreTyped DEF BaseInv, BackupTypeOK
<1>1. CASE UNCHANGED posts
  BY <1>1
<1>2. ASSUME NEW p \in Post, NEW pc \in {"discard", "fail", "base", "insert", "finish", "chains", "answer"},
             Onward(p, pc)
      PROVE  /\ posts'[p].run = posts[p].run /\ posts'[p].ok = posts[p].ok /\ posts'[p].pc = pc
             /\ \A o \in Post : o # p => posts'[o] = posts[o]
  BY <1>0, <1>2, OnwardMeans
<1>3. ASSUME NEW p \in Post, GetRun(p) \/ CheckBase(p)
      PROVE  posts'[q] = posts[q] \/ (q = p /\ posts'[q].run = posts[q].run /\ posts'[q].ok = posts[q].ok)
  BY <1>2, <1>3 DEF GetRun, CheckBase
<1>4. ASSUME NEW p \in Post, Discard(p) \/ CompleteFailed(p) \/ CompleteSucceeded(p)  PROVE posts'[q] = posts[q]
  BY <1>2, <1>4 DEF Discard, CompleteFailed, CompleteSucceeded
<1>5. ASSUME NEW p \in Post, RecordFileSet(p)
      PROVE  \/ posts'[q] = posts[q]
             \/ q = p /\ posts'[q].run = posts[q].run /\ posts'[q].ok = posts[q].ok /\ posts'[q].pc = "finish"
  BY <1>5, RecordMeans
<1>6. ASSUME NEW p \in Post, RotateChains(p) \/ DeleteArchive(p) \/ DeleteFails(p) \/ DropRows(p)
      PROVE  posts'[q] = posts[q]
  BY <1>6, RotateMeans, DeleteMeans, RefusalMeans, DropMeans
<1>7. ASSUME NEW p \in Post, AnswerReport(p)  PROVE posts'[q] = posts[q]
  BY <1>7, AnswersKeepTypes
<1>8. ASSUME NEW r \in RunId, NEW p \in Post, Send(r, p)  PROVE posts'[q] = posts[q]
  BY <1>8, SendKeepsTypes
<1>9. ~HubStops
  BY <1>0 DEF HubStops
<1>10. \/ \E p \in Post :
              \/ GetRun(p) \/ Discard(p) \/ CompleteFailed(p) \/ CheckBase(p) \/ CompleteSucceeded(p)
              \/ AnswerReport(p)
              \/ RecordFileSet(p) \/ RotateChains(p) \/ DeleteArchive(p) \/ DeleteFails(p) \/ DropRows(p)
       \/ \E r \in RunId, p \in Post : Send(r, p)
       \/ UNCHANGED posts
  BY <1>9 DEF BackupNext, DispatchStep, CancelRunStep, AgentStep, ReportStep, BackupFault, backupVars, backupOwn, backupHub,
       Edit, AgentRestarts, LookToCancel, RecallBackup, CloseCancelled, TakeBackups, BackupLapses,
       Select, Upload, BeginRelay, GivesUp, BackupFails, TimesOut, RelayFails, BeginExpiry, DispatchFails,
       QueueBackup, AttachCommand, ExpireRun, BeginDispatch, PlanNextRun, StartFileRun
<1> QED
  BY <1>1, <1>3, <1>4, <1>5, <1>6, <1>7, <1>8, <1>10

LEMMA TruthStep ==
  ASSUME BaseInv, TasksLead, ReportsAreTrue, [BackupNext]_backupVars, ~overlapped', NEW q \in Post
  PROVE  /\ posts'[q].pc \in {"base", "insert"} => posts'[q].ok
         /\ posts'[q].pc \in {"base", "insert", "fail", "finish"} => runs'[posts'[q].run].status # "cancelled"
         /\ posts'[q].pc = "discard" => runs'[posts'[q].run].status = "cancelled"
<1> SUFFICES ASSUME posts'[q].pc \in Closing
             PROVE  /\ posts'[q].pc \in {"base", "insert"} => posts'[q].ok
                    /\ posts'[q].pc \in {"base", "insert", "fail", "finish"} =>
                           runs'[posts'[q].run].status # "cancelled"
                    /\ posts'[q].pc = "discard" => runs'[posts'[q].run].status = "cancelled"
  BY DEF Closing
<1>0. /\ posts[q].pc \in {"base", "insert"} => posts[q].ok
      /\ posts[q].pc \in {"base", "insert", "fail", "finish"} => runs[posts[q].run].status # "cancelled"
      /\ posts[q].pc = "discard" => runs[posts[q].run].status = "cancelled"
  BY DEF ReportsAreTrue
<1>1. CASE posts'[q] = posts[q]
  <2>1. /\ posts[q].run \in DOMAIN runs /\ posts[q].run \in RunId /\ tasks[posts[q].run].pc \in Sent
        /\ Asks(q) /\ posts[q].pc # "get"
    BY <1>1, AskingIsOfASent DEF Asks, Closing
  <2>2. StatusHolds(posts[q].run)
    BY <2>1, StatusStep
  <2> QED
    BY <1>0, <1>1, <2>1, <2>2 DEF StatusHolds, Closing
<1>3. CASE posts'[q].run = posts[q].run /\ posts'[q].ok = posts[q].ok /\ GetRun(q)
  <2> DEFINE r == posts[q].run
             pc == IF runs[r].status # "running"
                   THEN IF runs[r].status = "cancelled" /\ posts[q].ok THEN "discard" ELSE "answer"
                   ELSE IF ~posts[q].ok THEN "fail"
                   ELSE IF runs[r].seq > 0 THEN "base" ELSE "insert"
  <2>1. Onward(q, pc) /\ UNCHANGED runs /\ pc \in {"discard", "answer", "fail", "base", "insert"}
    BY <1>3 DEF GetRun, backupTables
  <2>2. posts'[q].pc = pc
    <3> HIDE DEF pc
    <3> QED
      BY <2>1, OnwardMeans DEF BaseInv
  <2>3. posts[q].ok \in BOOLEAN
    BY DEF BaseInv, BackupTypeOK, PostState
  <2> QED
    BY <1>3, <2>1, <2>2, <2>3
<1>4. CASE posts'[q].run = posts[q].run /\ posts'[q].ok = posts[q].ok /\ CheckBase(q)
  <2> DEFINE pc == IF Complete(runs[posts[q].run].chain) THEN "insert" ELSE "fail"
  <2>1. Onward(q, pc) /\ UNCHANGED runs /\ pc \in {"insert", "fail"} /\ posts[q].pc = "base"
    BY <1>4 DEF CheckBase, backupTables, Serves
  <2> HIDE DEF pc
  <2>2. posts'[q].pc = pc
    BY <2>1, OnwardMeans DEF BaseInv
  <2> QED
    BY <1>0, <1>4, <2>1, <2>2
<1>5. CASE posts'[q].run = posts[q].run /\ posts'[q].pc = "finish" /\ RecordFileSet(q)
  BY <1>0, <1>5, RecordMeans
<1> QED
  BY <1>1, <1>3, <1>4, <1>5, WhereReportsAre

\* An archive that is discarded is of a cancelled run; one that is deleted, of
\* a doomed chain and of no run under way.
LEMMA VictimsAre ==
  ASSUME BaseInv, ManifestInv, ReportsAreTrue, NEW p \in Post, Discard(p) \/ DeleteArchive(p)
  PROVE  \E r \in DOMAIN runs :
             /\ store' = store \/ Delete(KeyOf(r))
             /\ r \notin Running
             /\ \/ runs[r].status = "cancelled"
                \/ \A s \in fileSets : s.run = r => s.chain \in Doomed
<1>1. CASE Discard(p)
  <2>1. posts[p].run \in DOMAIN runs /\ runs[posts[p].run].status = "cancelled"
    BY <1>1 DEF Discard, Serves, BaseInv, RunsAreKnown, ReportsAreTrue
  <2> QED
    BY <1>1, <2>1 DEF Discard, Running
<1>2. CASE DeleteArchive(p)
  <2>1. PICK e \in posts[p].doomed : Delete(KeyOf(e.row.run))
    BY <1>2, DeleteMeans
  <2>2. e.row \in Going(p) /\ RowOf(e.row)
    BY <2>1 DEF Going, BaseInv, DyingRows
  <2>3. e.row.run \in DOMAIN runs /\ e.row.run \notin Running
    BY <2>2 DEF RowOf, ManifestInv, GoesFromTheTop
  <2>4. \A s \in fileSets : s.run = e.row.run => s.chain \in Doomed
    <3> SUFFICES ASSUME NEW s \in fileSets, s.run = e.row.run  PROVE s.chain \in Doomed
      OBVIOUS
    <3>1. s.chain = e.row.chain /\ s.chain \in Listed
      BY <2>2 DEF BaseInv, ManifestRows, RowOf, Listed
    <3> QED
      BY <2>2, <3>1 DEF ManifestInv, GoesFromTheTop
  <2> QED
    BY <2>1, <2>3, <2>4
<1> QED
  BY <1>1, <1>2

\* What is stored stays so under a run that is not done with.
LEMMA StoreStep ==
  ASSUME BaseInv, ManifestInv, ReportsAreTrue, [BackupNext]_backupVars,
         NEW q \in DOMAIN runs, NEW v, Stored(q, v), ~Upload(q),
         \/ q \in Running
         \/ runs[q].status # "cancelled" /\ \E s \in fileSets : s.run = q /\ s.chain \notin Doomed
  PROVE  Stored(q, v)'
<1>0. KeysKept
  BY KeysStay
<1>1. CASE store' = store
  BY <1>0, <1>1, StoredStays
<1>2. ASSUME NEW r \in RunId, Upload(r)  PROVE Stored(q, v)'
  <2>1. r # q /\ Put(KeyOf(r), tasks[r].packs) /\ tasks[r].pc # "none"
    BY <1>2, UploadMeans
  <2>2. r \in DOMAIN runs
    BY <2>1 DEF BaseInv, RunsAreKnown
  <2> QED
    BY <1>0, <2>1, <2>2, StoredStays
<1>3. ASSUME NEW p \in Post, Discard(p) \/ DeleteArchive(p)  PROVE Stored(q, v)'
  <2>1. PICK r \in DOMAIN runs :
             /\ store' = store \/ Delete(KeyOf(r))
             /\ r \notin Running
             /\ \/ runs[r].status = "cancelled"
                \/ \A s \in fileSets : s.run = r => s.chain \in Doomed
    BY <1>3, VictimsAre
  <2>2. r # q
    BY <2>1
  <2> QED
    BY <1>0, <2>1, <2>2, StoredStays
<1> QED
  BY <1>1, <1>2, <1>3, StoreSteps

\* A run is under way from its start.
LEMMA RunningStep ==
  ASSUME BaseInv, [BackupNext]_backupVars
  PROVE  \/ DOMAIN runs' = DOMAIN runs /\ Running' \subseteq Running
         \/ \E t \in Thread : StartFileRun(t)
<1>1. CASE CalmStep
  BY <1>1, CalmStepIsCalm DEF Calm, RunningShrinks
<1>2. ASSUME UNCHANGED runs  PROVE DOMAIN runs' = DOMAIN runs /\ Running' \subseteq Running
  BY <1>2 DEF Running
<1>3. ASSUME NEW t \in Thread, BeginDispatch(t) \/ PlanNextRun(t)  PROVE UNCHANGED runs
  BY <1>3, BeginMeans, PlanMeans
<1>4. ASSUME NEW p \in Post,
             RecordFileSet(p) \/ RotateChains(p) \/ DeleteArchive(p) \/ DeleteFails(p) \/ DropRows(p)
      PROVE  UNCHANGED runs
  BY <1>4, RecordMeans, RotateMeans, DeleteMeans, RefusalMeans, DropMeans
<1> QED
  BY <1>1, <1>2, <1>3, <1>4, StepKinds

LEMMA RunningStays ==
  ASSUME BaseInv, [BackupNext]_backupVars, NEW r \in DOMAIN runs, r \in Running'
  PROVE  r \in Running
<1>1. ASSUME NEW t \in Thread, StartFileRun(t)  PROVE r \in Running
  <2>1. runs'[r] = runs[r]
    BY <1>1, StartMeans DEF BaseInv
  <2> QED
    BY <2>1 DEF Running
<1> QED
  BY <1>1, RunningStep

LEMMA RunsOfNext == BaseInv' => \A r \in Running' : r \in RunId
<1> SUFFICES ASSUME BaseInv', NEW r \in Running'  PROVE r \in RunId
  OBVIOUS
<1>1. runs' \in Seq(RunRow) /\ Len(runs') <= MaxRuns /\ r \in DOMAIN runs'
  BY DEF BaseInv, BackupTypeOK, Running
<1> QED
  BY <1>1 DEF RunId

LEMMA ReportsStep ==
  ASSUME BaseInv, ManifestInv, TasksLead, ReportsAreTrue, [BackupNext]_backupVars, ~overlapped'
  PROVE  ReportsAreTrue'
<1> SUFFICES ASSUME NEW r \in Running', SaysDone(r)'  PROVE Stored(r, tasks[r].packs)'
  BY TruthStep DEF ReportsAreTrue
<1>0. KeysKept
  BY KeysStay
<1>r. r \in RunId
  BY BaseInvStep, RunsOfNext
<1>1. CASE Upload(r)
  <2>1. /\ tasks'[r].packs = tasks[r].packs /\ Put(KeyOf(r), tasks[r].packs)
        /\ tasks[r].pc # "none"
    BY <1>r, <1>1, UploadMeans
  <2>2. r \in DOMAIN runs
    BY <1>r, <2>1 DEF BaseInv, RunsAreKnown
  <2>3. KeyOf(r)' = KeyOf(r)
    BY <1>0, <2>2 DEF KeysKept, KeyOf
  <2>4. [key |-> KeyOf(r)', holds |-> tasks'[r].packs] \in store'
    BY <2>1, <2>3 DEF Put
  <2> QED
    BY <2>4 DEF Stored
<1>2. CASE ~Upload(r)
  <2>1. SaysDone(r) /\ tasks'[r].packs = tasks[r].packs
    BY <1>r, <1>2, SaysStep
  <2>2. r \in DOMAIN runs
    BY <1>r, <2>1 DEF SaysDone, Asks, BaseInv, RunsAreKnown
  <2>3. r \in Running
    BY <2>2, RunningStays
  <2>4. Stored(r, tasks[r].packs)
    BY <2>1, <2>3 DEF ReportsAreTrue
  <2>5. \A v : Stored(r, v) => Stored(r, v)'
    BY <1>2, <2>2, <2>3, StoreStep
  <2>6. PICK v : v = tasks[r].packs
    OBVIOUS
  <2>7. Stored(r, v)'
    BY <2>4, <2>5, <2>6
  <2> QED
    BY <2>1, <2>6, <2>7 DEF Stored
<1> QED
  BY <1>1, <1>2

\* A row comes from a report, and its run is known.
LEMMA ListingStep ==
  ASSUME BaseInv, [BackupNext]_backupVars, NEW s \in fileSets'
  PROVE  \/ s \in fileSets
         \/ \E p \in Post : RecordFileSet(p) /\ s = NewSet(posts[p].run)
<1>1. CASE CalmStep
  BY <1>1, CalmStepIsCalm DEF Calm, SetsKept
<1>2. ASSUME NEW t \in Thread, BeginDispatch(t) \/ PlanNextRun(t)  PROVE s \in fileSets
  BY <1>2, BeginMeans, PlanMeans
<1>3. ASSUME NEW t \in Thread, StartFileRun(t)  PROVE s \in fileSets
  BY <1>3 DEF StartFileRun
<1>4. ASSUME NEW p \in Post, RecordFileSet(p)  PROVE s \in fileSets \/ s = NewSet(posts[p].run)
  BY <1>4, RecordMeans
<1>5. ASSUME NEW p \in Post, RotateChains(p) \/ DeleteArchive(p) \/ DeleteFails(p) \/ DropRows(p)
      PROVE  s \in fileSets
  BY <1>5, RotateMeans, DeleteMeans, RefusalMeans, DropMeans
<1> QED
  BY <1>1, <1>2, <1>3, <1>4, <1>5, StepKinds

\* What is listed for a run that is not doomed, shared or cancelled is stored.
LEMMA KeptStep ==
  ASSUME BaseInv, ManifestInv, StoreInv, [BackupNext]_backupVars, ~overlapped'
  PROVE  KeptIsStored'
<1> SUFFICES ASSUME NEW s \in fileSets', s.chain \notin Doomed', runs'[s.run].status # "cancelled"
             PROVE  Stored(s.run, s.lists)'
  BY DEF KeptIsStored, Stored
<1>0. TasksLead /\ ReportsAreTrue /\ KeptIsStored /\ ~overlapped
  BY OverlapStays DEF StoreInv
<1>1. ASSUME NEW p \in Post, RecordFileSet(p), s = NewSet(posts[p].run)  PROVE Stored(s.run, s.lists)'
  <2>1. /\ posts[p].pc = "insert" /\ s.run = posts[p].run /\ s.lists = tasks[s.run].packs
        /\ s.run \in Running /\ UNCHANGED <<runs, store>>
    BY <1>1, RecordMeans
  <2>2. SaysDone(s.run)
    BY <1>0, <2>1 DEF SaysDone, Asks, ReportsAreTrue
  <2>3. Stored(s.run, s.lists)
    BY <1>0, <2>1, <2>2 DEF ReportsAreTrue
  <2> QED
    BY <2>1, <2>3 DEF Stored, SharesItsKey, KeyOf
<1>2. CASE s \in fileSets
  <2>1. s.run \in DOMAIN runs /\ s.run \in RunId /\ IsListed(s.run)
    BY <1>2, ChainsAreRuns DEF BaseInv, ManifestRows, IsListed
  <2>2. tasks[s.run].pc \in Sent
    BY <1>0, <2>1 DEF TasksLead
  <2>3. runs[s.run].status # "cancelled"
    BY <1>0, <2>1, <2>2, StatusStep DEF StatusHolds
  <2>4. s.chain \notin Doomed
    BY <1>2, ManifestStep DEF Listed
  <2>5. Stored(s.run, s.lists)
    BY <1>0, <1>2, <2>3, <2>4 DEF KeptIsStored, Stored
  <2>6. ~Upload(s.run)
    BY <2>1, <2>2, UploadMeans DEF Sent
  <2> QED
    BY <1>0, <1>2, <2>1, <2>3, <2>4, <2>5, <2>6, StoreStep
<1> QED
  BY <1>1, <1>2, ListingStep

LEMMA StoreInvStep ==
  ASSUME BaseInv, ManifestInv, StoreInv, [BackupNext]_backupVars, ~overlapped'
  PROVE  StoreInv'
BY LeadStep, ReportsStep, KeptStep DEF StoreInv

-------------------------------------------------------------------------------
(* What the agent believes of a chain.                                     *)

LEMMA FileIsNat == BaseInv => file \in Nat /\ file # Nothing
BY DEF BaseInv, BackupTypeOK, Nothing

LEMMA FileGrows ==
  ASSUME BaseInv, [BackupNext]_backupVars
  PROVE  file \in Nat /\ file' \in Nat /\ file <= file'
<1>1. file \in Nat
  BY FileIsNat
<1>2. file' = file \/ file' = file + 1
  BY DEF BackupNext, DispatchStep, CancelRunStep, AgentStep, ReportStep, BackupFault, backupVars, backupOwn, backupAgent,
       Edit, AgentRestarts, LookToCancel, RecallBackup, CloseCancelled, HubStops, TakeBackups, BackupLapses,
       Select, Upload, BeginRelay, GivesUp, BackupFails, TimesOut, RelayFails, Send, BeginExpiry, DispatchFails,
       QueueBackup, AttachCommand, ExpireRun, GetRun, Discard, CompleteFailed, CheckBase, CompleteSucceeded,
       AnswerReport, BeginDispatch, PlanNextRun, StartFileRun, RecordFileSet, RotateChains, DeleteArchive,
       DeleteFails, DropRows
<1> QED
  BY <1>1, <1>2

\* A task goes on, is selected, or is taken.
LEMMA TaskStep ==
  ASSUME BaseInv, TasksLead, [BackupNext]_backupVars, NEW r \in RunId
  PROVE  \/ TaskKept(r)
         \/ Select(r)
         \/ tasks'[r].pc = "ready" /\ tasks'[r].packs = Nothing
<1> USE DEF TaskKept
<1>1. CASE UNCHANGED tasks
  BY <1>1
<1>2. ASSUME \/ Edit \/ AgentRestarts
             \/ \E q \in RunId : BeginRelay(q) \/ GivesUp(q) \/ BackupFails(q) \/ TimesOut(q) \/ RelayFails(q)
             \/ \E q \in RunId, p \in Post : Send(q, p)
             \/ \E p \in Post : AnswerReport(p)
      PROVE  TaskKept(r)
  BY <1>2, AgentIsQuiet DEF TasksQuiet
<1>3. ASSUME NEW q \in RunId, Select(q)  PROVE TaskKept(r) \/ Select(r)
  <2>1. \A u \in RunId : u # q => tasks'[u] = tasks[u]
    BY <1>3, SelectMeans
  <2> QED
    BY <1>3, <2>1
<1>4. ASSUME NEW q \in RunId, Upload(q)  PROVE TaskKept(r)
  <2>1. /\ tasks[q].pc \in {"packed", "relaying"} /\ tasks'[q].pc = "report"
        /\ tasks'[q].packs = tasks[q].packs /\ tasks'[q].seen = tasks[q].seen
        /\ \A u \in RunId : u # q => tasks'[u] = tasks[u]
    BY <1>4, UploadMeans
  <2> QED
    BY <2>1 DEF Sent, Selected
<1>5. ASSUME NEW a \in Agent, NEW m \in Machine, TakeBackups(a, m)
      PROVE  TaskKept(r) \/ (tasks'[r].pc = "ready" /\ tasks'[r].packs = Nothing)
  BY <1>5, TakeMeans
<1> QED
  BY <1>1, <1>2, <1>3, <1>4, <1>5
  DEF BackupNext, DispatchStep, CancelRunStep, AgentStep, ReportStep, BackupFault, backupVars, backupOwn, backupAgent,
      LookToCancel, RecallBackup, CloseCancelled, HubStops, BackupLapses, BeginExpiry, DispatchFails,
      QueueBackup, AttachCommand, ExpireRun, GetRun, Discard, CompleteFailed, CheckBase, CompleteSucceeded,
      BeginDispatch, PlanNextRun, StartFileRun, RecordFileSet, RotateChains, DeleteArchive, DeleteFails, DropRows

\* Whether a run under way is listed is up to its own report.
LEMMA ListedStep ==
  ASSUME BaseInv, ManifestInv, [BackupNext]_backupVars, ~overlapped', NEW r \in Running
  PROVE  IsListed(r) => IsListed(r)'
<1>1. CASE CalmStep
  BY <1>1, CalmStepIsCalm, ListingsStay DEF Calm
<1>2. ASSUME NEW t \in Thread, BeginDispatch(t) \/ PlanNextRun(t)  PROVE IsListed(r) => IsListed(r)'
  BY <1>2, BeginMeans, PlanMeans DEF IsListed
<1>3. ASSUME NEW t \in Thread, StartFileRun(t)  PROVE IsListed(r) => IsListed(r)'
  BY <1>3 DEF StartFileRun, IsListed
<1>4. ASSUME NEW p \in Post, RecordFileSet(p)  PROVE IsListed(r) => IsListed(r)'
  BY <1>4, RecordMeans DEF IsListed
<1>5. ASSUME NEW p \in Post, RotateChains(p) \/ DeleteArchive(p) \/ DeleteFails(p)
      PROVE  IsListed(r) => IsListed(r)'
  BY <1>5, RotateMeans, DeleteMeans, RefusalMeans DEF IsListed
<1>6. ASSUME NEW p \in Post, DropRows(p)  PROVE IsListed(r) => IsListed(r)'
  BY <1>6, DropKeepsManifest
<1> QED
  BY <1>1, <1>2, <1>3, <1>4, <1>5, <1>6, StepKinds

LEMMA NumbersAre ==
  /\ BaseInv => /\ \A s \in fileSets : s.lists \in Nat /\ s.id \in Nat
                /\ \A r \in RunId : tasks[r].packs \in Nat /\ tasks[r].seen \in Nat
  /\ BaseInv' => /\ \A s \in fileSets' : s.lists \in Nat /\ s.id \in Nat
                 /\ \A r \in RunId : tasks'[r].packs \in Nat /\ tasks'[r].seen \in Nat
<1>1. \A x \in TaskState : x.packs \in Nat /\ x.seen \in Nat
  BY DEF TaskState, Holding
<1>2. \A s \in FileSet : s.lists \in Nat /\ s.id \in Nat
  BY DEF FileSet, Holding
<1>3. BackupTypeOK => fileSets \subseteq FileSet /\ \A r \in RunId : tasks[r] \in TaskState
  BY DEF BackupTypeOK
<1>4. BackupTypeOK' => fileSets' \subseteq FileSet /\ \A r \in RunId : tasks'[r] \in TaskState
  BY DEF BackupTypeOK
<1> QED
  BY <1>1, <1>2, <1>3, <1>4 DEF BaseInv

LEMMA VersionsStep ==
  ASSUME BaseInv, BaseInv', ManifestInv, TasksLead, TasksLead', VersionsGrow, [BackupNext]_backupVars, ~overlapped'
  PROVE  VersionsGrow'
<1>0. file \in Nat /\ file' \in Nat /\ file <= file'
  BY FileGrows
<1>t. /\ \A s \in fileSets : s.lists \in Nat /\ s.id \in Nat
      /\ \A r \in RunId : tasks[r].packs \in Nat /\ tasks[r].seen \in Nat
  BY NumbersAre
<1>u. /\ \A s \in fileSets' : s.lists \in Nat /\ s.id \in Nat
      /\ \A r \in RunId : tasks'[r].packs \in Nat /\ tasks'[r].seen \in Nat
  BY NumbersAre
<1>s. ASSUME NEW r \in RunId, Select(r)
      PROVE  /\ tasks'[r].packs \in {Nothing, file} /\ tasks'[r].seen = file
             /\ UNCHANGED <<runs, fileSets, file>>
  BY <1>s, SelectMeans
<1>1. \A s \in fileSets' : s.lists <= file'
  <2> SUFFICES ASSUME NEW s \in fileSets'  PROVE s.lists <= file
    BY <1>0, <1>u
  <2>1. ASSUME NEW p \in Post, RecordFileSet(p), s = NewSet(posts[p].run)  PROVE s.lists <= file
    BY <2>1, RecordMeans DEF VersionsGrow
  <2> QED
    BY <2>1, ListingStep DEF VersionsGrow
<1>2. \A s, o \in fileSets' : s.chain = o.chain /\ o.lists # Nothing /\ s.id <= o.id => s.lists <= o.lists
  <2> SUFFICES ASSUME NEW s \in fileSets', NEW o \in fileSets',
                      s.chain = o.chain, o.lists # Nothing, s.id <= o.id, s # o
               PROVE  s.lists <= o.lists
    BY <1>u
  <2>1. ASSUME NEW p \in Post, RecordFileSet(p), o = NewSet(posts[p].run)  PROVE s.lists <= o.lists
    <3>1. /\ posts[p].run \in Running /\ ~IsListed(posts[p].run)
          /\ o.chain = runs[posts[p].run].chain /\ o.lists = tasks[posts[p].run].packs
          /\ fileSets' = fileSets \cup {o}
      BY <2>1, RecordMeans
    <3>2. s \in SetsOf(runs[posts[p].run].chain)
      BY <3>1 DEF SetsOf
    <3> QED
      BY <3>1, <3>2 DEF VersionsGrow
  <2>2. ASSUME NEW p \in Post, RecordFileSet(p), s = NewSet(posts[p].run), o \in fileSets  PROVE FALSE
    <3>1. s.id = recorded + 1 /\ o.id < recorded + 1 /\ recorded \in Nat
      BY <2>2, RecordMeans DEF BaseInv, BackupTypeOK
    <3> QED
      BY <1>u, <3>1
  <2> QED
    BY <2>1, <2>2, ListingStep DEF VersionsGrow
<1>3. \A r \in RunId : tasks'[r].pc \in Selected =>
           tasks'[r].packs \in {Nothing, tasks'[r].seen} /\ tasks'[r].seen <= file'
  <2> SUFFICES ASSUME NEW r \in RunId, tasks'[r].pc \in Selected
               PROVE  tasks'[r].packs \in {Nothing, tasks'[r].seen} /\ tasks'[r].seen <= file'
    OBVIOUS
  <2>1. CASE TaskKept(r)
    BY <1>0, <1>t, <2>1 DEF TaskKept, VersionsGrow
  <2>2. CASE Select(r)
    BY <1>0, <1>s, <2>2
  <2> QED
    BY <2>1, <2>2, TaskStep DEF Selected
<1>4. \A r \in RunId : tasks'[r].packs <= file'
  <2> SUFFICES ASSUME NEW r \in RunId  PROVE tasks'[r].packs <= file'
    OBVIOUS
  <2>1. CASE TaskKept(r)
    BY <1>0, <1>t, <2>1 DEF TaskKept, VersionsGrow
  <2>2. CASE Select(r)
    BY <1>0, <1>s, <2>2 DEF Nothing
  <2> QED
    BY <1>0, <2>1, <2>2, TaskStep DEF Nothing
<1>5. \A r \in Running' : tasks'[r].packs # Nothing /\ ~IsListed(r)' =>
           \A s \in SetsOf(runs[r].chain)' : s.lists <= tasks'[r].packs
  <2> SUFFICES ASSUME NEW r \in Running', tasks'[r].packs # Nothing, ~IsListed(r)',
                      NEW s \in fileSets', s.chain = runs'[r].chain
               PROVE  s.lists <= tasks'[r].packs
    BY DEF SetsOf
  <2>r. r \in RunId
    BY RunsOfNext
  <2>2. CASE Select(r)
    BY <1>0, <1>1, <1>s, <2>2, <2>r
  <2>3. CASE TaskKept(r)
    <3>1. tasks[r].packs = tasks'[r].packs
      BY <2>3 DEF TaskKept
    <3>2. r \in DOMAIN runs
      BY <2>r, <3>1 DEF TasksLead, BaseInv, RunsAreKnown
    <3>3. r \in Running /\ runs'[r].chain = runs[r].chain
      BY <3>2, RunningStays, KeysStay DEF KeysKept
    <3>4. ~IsListed(r)
      BY <3>3, ListedStep
    <3>5. s \in fileSets
      <4>1. ASSUME NEW p \in Post, RecordFileSet(p), s = NewSet(posts[p].run)  PROVE FALSE
        <5>1. posts[p].run \in Running /\ s.run = posts[p].run
          BY <4>1, RecordMeans
        <5>2. s.run = r
          BY <3>3, <5>1 DEF ManifestInv, OneRun
        <5> QED
          BY <5>2 DEF IsListed
      <4> QED
        BY <4>1, ListingStep
    <3>6. s \in SetsOf(runs[r].chain)
      BY <3>3, <3>5 DEF SetsOf
    <3> QED
      BY <3>1, <3>3, <3>4, <3>6 DEF VersionsGrow
  <2> QED
    BY <2>2, <2>3, <2>r, TaskStep
<1> QED
  BY <1>1, <1>2, <1>3, <1>4, <1>5 DEF VersionsGrow

\* What a task says of its run stays, but for an upload.
LEMMA TaskSaysStep ==
  ASSUME BaseInv, TasksLead, [BackupNext]_backupVars, NEW r \in RunId, TaskSays(r)'
  PROVE  Upload(r) \/ (TaskSays(r) /\ TaskKept(r))
<1>1. CASE UNCHANGED tasks
  BY <1>1 DEF TaskSays, TaskKept
<1>2. ASSUME \/ Edit \/ AgentRestarts
             \/ \E q \in RunId : BeginRelay(q) \/ GivesUp(q) \/ BackupFails(q) \/ TimesOut(q) \/ RelayFails(q)
             \/ \E q \in RunId, p \in Post : Send(q, p)
             \/ \E p \in Post : AnswerReport(p)
      PROVE  TaskSays(r) /\ TaskKept(r)
  BY <1>2, AgentIsQuiet DEF TasksQuiet
<1>3. ASSUME NEW q \in RunId, Select(q)  PROVE TaskSays(r) /\ TaskKept(r)
  <2>1. tasks'[q].pc = "packed" /\ \A u \in RunId : u # q => tasks'[u] = tasks[u]
    BY <1>3, SelectMeans
  <2> QED
    BY <2>1 DEF TaskSays, TaskKept
<1>4. ASSUME NEW q \in RunId, Upload(q)  PROVE Upload(r) \/ (TaskSays(r) /\ TaskKept(r))
  <2>1. \A u \in RunId : u # q => tasks'[u] = tasks[u]
    BY <1>4, UploadMeans
  <2> QED
    BY <1>4, <2>1 DEF TaskSays, TaskKept
<1>5. ASSUME NEW a \in Agent, NEW m \in Machine, TakeBackups(a, m)  PROVE TaskSays(r) /\ TaskKept(r)
  <2>1. tasks'[r] = tasks[r] \/ tasks'[r].pc = "ready"
    BY <1>5, TakeMeans
  <2> QED
    BY <2>1 DEF TaskSays, TaskKept
<1> QED
  BY <1>1, <1>2, <1>3, <1>4, <1>5
  DEF BackupNext, DispatchStep, CancelRunStep, AgentStep, ReportStep, BackupFault, backupVars, backupOwn, backupAgent,
      LookToCancel, RecallBackup, CloseCancelled, HubStops, BackupLapses, BeginExpiry, DispatchFails,
      QueueBackup, AttachCommand, ExpireRun, GetRun, Discard, CompleteFailed, CheckBase, CompleteSucceeded,
      BeginDispatch, PlanNextRun, StartFileRun, RecordFileSet, RotateChains, DeleteArchive, DeleteFails, DropRows

\* A run that is closed as a success was being closed so.
LEMMA SuccessStep ==
  ASSUME BaseInv, [BackupNext]_backupVars, NEW r \in DOMAIN runs, runs'[r].status = "succeeded"
  PROVE  \/ runs[r].status = "succeeded"
         \/ \E p \in Post : posts[p].pc = "finish" /\ posts[p].run = r
<1>1. ASSUME NEW q \in DOMAIN runs, NEW to \in {"failed", "cancelled"}, FinishRun(q, to)
      PROVE  runs[r].status = "succeeded"
  <2>1. runs'[r].status = IF r = q THEN to ELSE runs[r].status
    BY <1>1, ClosingIsNoSuccess DEF RunStatus
  <2> QED
    BY <2>1
<1>2. CASE CloseCancelled
  <2>1. cancelling.run \in DOMAIN runs
    BY <1>2 DEF CloseCancelled, BaseInv, RunsAreKnown
  <2> QED
    BY <1>1, <1>2, <2>1 DEF CloseCancelled, CloseOver
<1>3. ASSUME NEW t \in Thread, ExpireRun(t)  PROVE runs[r].status = "succeeded"
  <2>1. PICK q \in threads[t].stale : CloseOver(q, "failed")
    BY <1>3 DEF ExpireRun
  <2>2. q \in DOMAIN runs
    BY <1>3, <2>1 DEF ExpireRun, Stands, BaseInv, RunsAreKnown
  <2> QED
    BY <1>1, <2>1, <2>2 DEF CloseOver
<1>4. ASSUME NEW q \in RunId, RelayFails(q)  PROVE runs[r].status = "succeeded"
  <2>1. q \in DOMAIN runs
    BY <1>4 DEF BaseInv, RunsAreKnown, RelayFails, Does
  <2> QED
    BY <1>1, <1>4, <2>1 DEF RelayFails
<1>5. ASSUME NEW p \in Post, CompleteFailed(p) \/ CompleteSucceeded(p)
      PROVE  runs[r].status = "succeeded" \/ (posts[p].pc = "finish" /\ posts[p].run = r)
  <2>1. posts[p].pc \in {"fail", "finish"} /\ posts[p].run \in DOMAIN runs
    BY <1>5 DEF CompleteFailed, CompleteSucceeded, Serves, BaseInv, RunsAreKnown
  <2>2. CASE CompleteFailed(p)
    BY <1>1, <2>1, <2>2 DEF CompleteFailed
  <2>3. CASE CompleteSucceeded(p)
    <3>1. runs'[r].status = IF r = posts[p].run THEN "succeeded" ELSE runs[r].status
      BY <2>1, <2>3, ClosingIsNoSuccess DEF CompleteSucceeded, RunStatus
    <3> QED
      BY <2>3, <3>1 DEF CompleteSucceeded, Serves
  <2> QED
    BY <1>5, <2>2, <2>3
<1>6. ASSUME NEW t \in Thread, AttachCommand(t)  PROVE runs[r].status = "succeeded"
  <2>1. BackupTypeOK /\ threads[t].run \in DOMAIN runs /\ threads[t].command \in Command \cup {NoBackup}
    BY <1>6 DEF AttachCommand, Stands, BaseInv, RunsAreKnown, BackupTypeOK, PassState
  <2> QED
    BY <1>6, <2>1, AttachMeans DEF AttachCommand
<1>7. ASSUME NEW t \in Thread, StartFileRun(t)  PROVE runs[r].status = "succeeded"
  BY <1>7, StartMeans DEF BaseInv
<1> QED
  BY <1>2, <1>3, <1>4, <1>5, <1>6, <1>7, RunSteps

\* A run that goes on, or starts, is of no chain that is done with.
LEMMA ChainOfRunning ==
  ASSUME BaseInv, ManifestInv, [BackupNext]_backupVars, NEW r \in Running'
  PROVE  \/ r \in Running /\ runs'[r].chain = runs[r].chain
         \/ runs'[r].chain \notin DOMAIN runs
         \/ runs'[r].chain \in Listed \ Doomed
<1>1. CASE r \in DOMAIN runs
  BY <1>1, RunningStays, KeysStay DEF KeysKept
<1>2. ASSUME NEW t \in Thread, StartFileRun(t), r \notin DOMAIN runs
      PROVE  runs'[r].chain \notin DOMAIN runs \/ runs'[r].chain \in Listed \ Doomed
  <2>1. /\ r = Len(runs) + 1
        /\ runs'[r].chain = IF threads[t].chain = 0 THEN r ELSE threads[t].chain
    BY <1>2, StartMeans DEF BaseInv, Running
  <2>2. \/ threads[t].chain = 0
        \/ Leads(threads[t].chain)
    BY <1>2 DEF ManifestInv, PlansHold, StartFileRun, Stands
  <2>3. CASE threads[t].chain = 0
    BY <1>2, <2>1, <2>3
  <2>4. CASE threads[t].chain # 0 /\ Leads(threads[t].chain)
    BY <2>1, <2>4, LeaderIsKept DEF BaseInv
  <2> QED
    BY <2>2, <2>3, <2>4
<1>3. CASE DOMAIN runs' = DOMAIN runs
  BY <1>1, <1>3 DEF Running
<1> QED
  BY <1>1, <1>2, <1>3, RunningStep

LEMMA DroppedIsDoomed ==
  ASSUME BaseInv, ManifestInv, [BackupNext]_backupVars, NEW s \in fileSets, s \notin fileSets'
  PROVE  s.chain \in Doomed
<1>1. CASE CalmStep
  BY <1>1, CalmStepIsCalm DEF Calm, SetsKept
<1>2. ASSUME NEW t \in Thread, BeginDispatch(t) \/ PlanNextRun(t)  PROVE FALSE
  BY <1>2, BeginMeans, PlanMeans
<1>3. ASSUME NEW t \in Thread, StartFileRun(t)  PROVE FALSE
  BY <1>3 DEF StartFileRun
<1>4. ASSUME NEW p \in Post, RecordFileSet(p)  PROVE FALSE
  BY <1>4, RecordMeans
<1>5. ASSUME NEW p \in Post, RotateChains(p) \/ DeleteArchive(p) \/ DeleteFails(p)  PROVE FALSE
  BY <1>5, RotateMeans, DeleteMeans, RefusalMeans
<1>6. ASSUME NEW p \in Post, DropRows(p)  PROVE s.chain \in Doomed
  BY <1>6, DropMeans, DropKeepsManifest
<1> QED
  BY <1>1, <1>2, <1>3, <1>4, <1>5, <1>6, StepKinds

LEMMA UnlistedGrows ==
  ASSUME BaseInv, [BackupNext]_backupVars
  PROVE  unlisted \subseteq unlisted'
BY DEF BackupNext, DispatchStep, CancelRunStep, AgentStep, ReportStep, BackupFault, backupVars, backupOwn, backupHistory,
       Edit, AgentRestarts, LookToCancel, RecallBackup, CloseCancelled, HubStops, TakeBackups, BackupLapses,
       Select, Upload, BeginRelay, GivesUp, BackupFails, TimesOut, RelayFails, Send, BeginExpiry, DispatchFails,
       QueueBackup, AttachCommand, ExpireRun, GetRun, Discard, CompleteFailed, CheckBase, CompleteSucceeded,
       AnswerReport, BeginDispatch, PlanNextRun, StartFileRun, RecordFileSet, RotateChains, DeleteArchive,
       DeleteFails, DropRows

\* What covers a chain goes on doing so.
LEMMA CoveredStays ==
  ASSUME BaseInv, ManifestInv, [BackupNext]_backupVars, ~overlapped', NEW c \in DOMAIN runs, NEW v, Covered(c, v)
  PROVE  Covered(c, v)'
<1>1. CASE c \in unlisted
  BY <1>1, UnlistedGrows DEF Covered
<1>2. CASE Passed(c)
  <2>1. \A r \in Running' : runs'[r].chain # c
    <3> SUFFICES ASSUME NEW r \in Running', runs'[r].chain = c  PROVE FALSE
      OBVIOUS
    <3>1. r \in Running /\ runs[r].chain = c
      BY <1>2, ChainOfRunning DEF Passed
    <3> QED
      BY <1>2, <3>1, RunningIsKept DEF Passed
  <2>2. CASE c \in Doomed
    <3>1. c \in Doomed' \/ c \notin Listed'
      BY <2>2, ManifestStep
    <3>2. c \in DOMAIN runs'
      BY KeysStay DEF KeysKept
    <3> QED
      BY <2>1, <3>1, <3>2 DEF Covered, Passed
  <2>3. CASE c \notin Doomed
    <3>1. c \notin Listed /\ \A r \in Running : runs[r].chain # c
      BY <1>2, <2>3 DEF Passed
    <3>2. ASSUME NEW s \in fileSets', s.chain = c  PROVE FALSE
      <4>1. ASSUME NEW p \in Post, RecordFileSet(p), s = NewSet(posts[p].run)  PROVE FALSE
        <5>1. posts[p].run \in Running /\ s.chain = runs[posts[p].run].chain
          BY <4>1, RecordMeans
        <5> QED
          BY <3>1, <3>2, <5>1
      <4> QED
        BY <3>1, <3>2, <4>1, ListingStep DEF Listed
    <3>3. c \notin Listed'
      BY <3>2 DEF Listed
    <3>4. c \in DOMAIN runs'
      BY KeysStay DEF KeysKept
    <3> QED
      BY <2>1, <3>3, <3>4 DEF Covered, Passed
  <2> QED
    BY <2>2, <2>3
<1>3. CASE ~Passed(c) /\ \E s \in SetsOf(c) : s.lists >= v
  <2>1. PICK s \in fileSets : s.chain = c /\ s.lists >= v
    BY <1>3 DEF SetsOf
  <2>2. s \in fileSets'
    BY <1>3, <2>1, DroppedIsDoomed DEF Passed
  <2> QED
    BY <2>1, <2>2 DEF Covered, SetsOf
<1> QED
  BY <1>1, <1>2, <1>3 DEF Covered

\* The agent saves what a run that it was told 200 for saw.
LEMMA CacheStep ==
  ASSUME BaseInv, [BackupNext]_backupVars
  PROVE  \/ UNCHANGED cache
         \/ \E p \in Post : LET r == posts[p].run IN
                /\ posts[p].pc = "answer" /\ tasks[r].pc = "waiting" /\ tasks[r].ok
                /\ cache' = [chain |-> runs[r].chain, version |-> tasks[r].seen]
                /\ runs[r].status # "succeeded" => runs[r].chain \in unlisted'
                /\ UNCHANGED runs
<1>1. ASSUME NEW p \in Post, AnswerReport(p), cache' # cache
      PROVE  LET r == posts[p].run IN
                /\ posts[p].pc = "answer" /\ tasks[r].pc = "waiting" /\ tasks[r].ok
                /\ cache' = [chain |-> runs[r].chain, version |-> tasks[r].seen]
                /\ runs[r].status # "succeeded" => runs[r].chain \in unlisted'
                /\ UNCHANGED runs
  BY <1>1 DEF AnswerReport, SaveCache, Does, backupTables
<1> QED
  BY <1>1
  DEF BackupNext, DispatchStep, CancelRunStep, AgentStep, ReportStep, BackupFault, backupVars, backupOwn, backupAgent,
      Edit, AgentRestarts, LookToCancel, RecallBackup, CloseCancelled, HubStops, TakeBackups, BackupLapses,
      Select, Upload, BeginRelay, GivesUp, BackupFails, TimesOut, RelayFails, Send, BeginExpiry, DispatchFails,
      QueueBackup, AttachCommand, ExpireRun, GetRun, Discard, CompleteFailed, CheckBase, CompleteSucceeded,
      BeginDispatch, PlanNextRun, StartFileRun, RecordFileSet, RotateChains, DeleteArchive, DeleteFails, DropRows

LEMMA CacheCoveredStep ==
  ASSUME BaseInv, ManifestInv, TasksLead, VersionsGrow, CacheIsCovered, [BackupNext]_backupVars, ~overlapped'
  PROVE  cache'.version <= file' /\ (cache'.chain # 0 => cache'.chain \in DOMAIN runs' /\ Covered(cache.chain, cache.version)')
<1>0. file \in Nat /\ file' \in Nat /\ file <= file' /\ cache.version \in Nat
  BY FileGrows DEF BaseInv, BackupTypeOK
<1>1. CASE UNCHANGED cache
  <2>1. PICK v : v = cache.version
    OBVIOUS
  <2>2. PICK c : c = cache.chain
    OBVIOUS
  <2>3. c # 0 => c \in DOMAIN runs' /\ Covered(c, v)'
    BY <2>1, <2>2, CoveredStays, KeysStay DEF CacheIsCovered, KeysKept
  <2>4. c = cache'.chain /\ v = cache'.version
    BY <1>1, <2>1, <2>2
  <2>5. cache'.version <= file'
    BY <1>0, <1>1 DEF CacheIsCovered
  <2> QED
    BY <2>3, <2>4, <2>5 DEF Covered
<1>2. ASSUME NEW p \in Post, NEW r, r = posts[p].run,
             posts[p].pc = "answer", tasks[r].pc = "waiting", tasks[r].ok,
             cache' = [chain |-> runs[r].chain, version |-> tasks[r].seen],
             runs[r].status # "succeeded" => runs[r].chain \in unlisted',
             UNCHANGED runs
      PROVE  /\ cache'.version <= file'
             /\ cache'.chain # 0 => cache'.chain \in DOMAIN runs' /\ Covered(cache.chain, cache.version)'
  <2>1. r \in DOMAIN runs /\ r \in RunId
    BY <1>2, AskingIsOfASent DEF Asks
  <2>2. tasks[r].seen <= file /\ tasks[r].seen \in Nat
    BY <1>2, <2>1, NumbersAre DEF VersionsGrow, Selected
  <2>3. PICK v : v = tasks[r].seen
    OBVIOUS
  <2>4. PICK c : c = runs[r].chain
    OBVIOUS
  <2>5. c \in DOMAIN runs
    BY <2>1, <2>4, ChainsAreRuns
  <2>6. Covered(c, v)'
    <3>1. CASE runs[r].status = "succeeded"
      <4>1. Covered(c, v)
        BY <1>2, <2>1, <2>3, <2>4, <3>1 DEF CacheIsCovered
      <4> QED
        BY <2>5, <4>1, CoveredStays
    <3>2. CASE runs[r].status # "succeeded"
      BY <1>2, <2>4, <3>2 DEF Covered
    <3> QED
      BY <3>1, <3>2
  <2>7. cache'.chain = c /\ cache'.version = v
    BY <1>2, <2>3, <2>4
  <2>8. Covered(cache.chain, cache.version)'
    BY <2>6, <2>7 DEF Covered
  <2> QED
    BY <1>0, <1>2, <2>2, <2>3, <2>5, <2>7, <2>8
<1>3. ASSUME NEW p \in Post, LET r == posts[p].run IN
                /\ posts[p].pc = "answer" /\ tasks[r].pc = "waiting" /\ tasks[r].ok
                /\ cache' = [chain |-> runs[r].chain, version |-> tasks[r].seen]
                /\ runs[r].status # "succeeded" => runs[r].chain \in unlisted'
                /\ UNCHANGED runs
      PROVE  /\ cache'.version <= file'
             /\ cache'.chain # 0 => cache'.chain \in DOMAIN runs' /\ Covered(cache.chain, cache.version)'
  BY <1>2, <1>3
<1> QED
  BY <1>1, <1>3, CacheStep

\* What a run under way has left out is covered.
LEMMA LeftOutStep ==
  ASSUME BaseInv, ManifestInv, TasksLead, VersionsGrow, CacheIsCovered, [BackupNext]_backupVars, ~overlapped',
         NEW r \in RunId, r \in Running', tasks'[r].pc \in Selected, tasks'[r].packs = Nothing
  PROVE  Covered(runs[r].chain, tasks[r].seen)'
<1>1. tasks[r].pc # "none"
  <2>1. CASE TaskKept(r)
    BY <2>1 DEF TaskKept, Selected
  <2>2. CASE Select(r)
    BY <2>2, SelectMeans
  <2> QED
    BY <2>1, <2>2, TaskStep DEF Selected
<1>2. r \in DOMAIN runs
  BY <1>1 DEF BaseInv, RunsAreKnown
<1>3. r \in Running /\ runs'[r].chain = runs[r].chain
  BY <1>2, RunningStays, KeysStay DEF KeysKept
<1>4. PICK v : v = tasks'[r].seen
  OBVIOUS
<1>5. PICK c : c = runs[r].chain
  OBVIOUS
<1>6. c \in DOMAIN runs
  BY <1>2, <1>5, ChainsAreRuns
<1>7. Covered(c, v)
  <2>1. CASE TaskKept(r)
    BY <1>3, <1>4, <1>5, <2>1 DEF TaskKept, CacheIsCovered
  <2>2. CASE Select(r)
    <3>1. /\ tasks'[r].seen = file
          /\ tasks'[r].packs = file \/ (cache.chain = runs[r].chain /\ cache.version = file)
      BY <2>2, SelectMeans
    <3>2. file # Nothing
      BY DEF BaseInv, BackupTypeOK, Nothing
    <3>3. cache.chain = c /\ cache.version = v /\ c # 0
      <4>1. c \in RunId
        BY <1>6, ChainsAreRuns
      <4> QED
        BY <1>4, <1>5, <3>1, <3>2, <4>1 DEF RunId
    <3> QED
      BY <3>3 DEF CacheIsCovered
  <2> QED
    BY <2>1, <2>2, TaskStep DEF Selected
<1>8. Covered(c, v)'
  BY <1>6, <1>7, CoveredStays
<1> QED
  BY <1>3, <1>4, <1>5, <1>8 DEF Covered

LEMMA LookedAtIsNotFinish ==
  ASSUME BaseInv, NEW p \in Post, GetRun(p) \/ CheckBase(p)
  PROVE  posts'[p].pc # "finish"
<1>1. CASE GetRun(p)
  <2>1. PICK pc \in {"discard", "answer", "fail", "base", "insert"} : Onward(p, pc)
    BY <1>1 DEF GetRun
  <2> QED
    BY <2>1, OnwardMeans DEF BaseInv
<1>2. CASE CheckBase(p)
  <2>1. PICK pc \in {"insert", "fail"} : Onward(p, pc)
    BY <1>2 DEF CheckBase
  <2> QED
    BY <2>1, OnwardMeans DEF BaseInv
<1> QED
  BY <1>1, <1>2

\* What a run that is, or will be, a success saw is covered.
LEMMA SeenStep ==
  ASSUME BaseInv, BaseInv', ManifestInv, TasksLead, VersionsGrow, CacheIsCovered, [BackupNext]_backupVars, ~overlapped',
         NEW r \in DOMAIN runs',
         runs'[r].status = "succeeded" \/ \E p \in Post : posts'[p].pc = "finish" /\ posts'[p].run = r,
         TaskSays(r)'
  PROVE  Covered(runs[r].chain, tasks[r].seen)'
<1>1. r \in DOMAIN runs
  <2>1. ASSUME NEW t \in Thread, StartFileRun(t), r = Len(runs) + 1  PROVE FALSE
    <3>1. r \notin DOMAIN runs /\ runs'[r].status = "running" /\ UNCHANGED posts
      BY <2>1, StartMeans DEF BaseInv, StartFileRun
    <3> QED
      BY <3>1 DEF BaseInv, RunsAreKnown
  <2>2. ASSUME NEW t \in Thread, StartFileRun(t), r # Len(runs) + 1  PROVE r \in DOMAIN runs
    BY <2>2, StartMeans DEF BaseInv
  <2> QED
    BY <2>1, <2>2, RunningStep
<1>2. r \in RunId /\ runs[r].chain \in DOMAIN runs /\ runs'[r].chain = runs[r].chain
  BY <1>1, ChainsAreRuns, KeysStay DEF KeysKept
<1>3. \/ runs[r].status = "succeeded" \/ \E p \in Post : posts[p].pc = "finish" /\ posts[p].run = r
      \/ \E p \in Post : RecordFileSet(p) /\ posts[p].run = r
  <2>1. CASE runs'[r].status = "succeeded"
    BY <1>1, <2>1, SuccessStep
  <2>2. ASSUME NEW p \in Post, posts'[p].pc = "finish", posts'[p].run = r
        PROVE  \/ posts[p].pc = "finish" /\ posts[p].run = r
               \/ RecordFileSet(p) /\ posts[p].run = r
    BY <2>2, WhereReportsAre, LookedAtIsNotFinish DEF Closing
  <2> QED
    BY <2>1, <2>2
<1>4. TaskSays(r) /\ TaskKept(r)
  <2>1. ~Upload(r)
    <3> SUFFICES ASSUME Upload(r)  PROVE FALSE
      OBVIOUS
    <3>1. tasks[r].pc \notin Sent /\ UNCHANGED posts
      BY <1>2, UploadMeans DEF Sent
    <3>2. \A p \in Post : Asks(p) => posts[p].run # r
      BY <1>2, <3>1 DEF TasksLead
    <3>3. runs[r].status # "succeeded"
      BY <1>1, <3>1 DEF TasksLead
    <3>4. \A p \in Post : RecordFileSet(p) => Asks(p)
      BY DEF RecordFileSet, Serves, Asks
    <3> QED
      BY <1>3, <3>2, <3>3, <3>4 DEF Asks
  <2> QED
    BY <1>2, <2>1, TaskSaysStep
<1>5. PICK v : v = tasks[r].seen
  OBVIOUS
<1>6. PICK c : c = runs[r].chain
  OBVIOUS
<1>7. tasks'[r].seen = v
  <2>1. tasks'[r].pc \in Selected
    BY DEF TaskSays, Selected
  <2> QED
    BY <1>4, <1>5, <2>1 DEF TaskKept
<1>8. Covered(c, v)'
  <2>1. CASE Covered(c, v)
    BY <1>2, <1>6, <2>1, CoveredStays
  <2>2. ASSUME NEW p \in Post, RecordFileSet(p), posts[p].run = r, ~Covered(c, v)  PROVE Covered(c, v)'
    <3>1. /\ r \in Running /\ NewSet(r) \in fileSets' /\ NewSet(r).chain = c
          /\ NewSet(r).lists = tasks[r].packs
      BY <1>6, <2>2, RecordMeans
    <3>2. tasks[r].pc \in Selected
      BY <1>4 DEF TaskSays, Selected
    <3>3. tasks[r].packs # Nothing
      BY <1>5, <1>6, <2>2, <3>1, <3>2 DEF CacheIsCovered
    <3>4. tasks[r].packs = v /\ v \in Nat
      BY <1>2, <1>5, <3>2, <3>3, NumbersAre DEF VersionsGrow
    <3>5. NewSet(r).lists >= v
      BY <3>1, <3>4
    <3> QED
      BY <3>1, <3>5 DEF Covered, SetsOf
  <2>3. CASE ~Covered(c, v) /\ ~ \E p \in Post : RecordFileSet(p) /\ posts[p].run = r
    BY <1>1, <1>3, <1>4, <1>5, <1>6, <2>3 DEF CacheIsCovered, TaskSays
  <2> QED
    BY <2>1, <2>2, <2>3
<1> QED
  BY <1>2, <1>5, <1>6, <1>7, <1>8 DEF Covered

LEMMA CacheInvStep ==
  ASSUME BaseInv, BaseInv', ManifestInv, TasksLead, TasksLead', CacheInv, [BackupNext]_backupVars, ~overlapped'
  PROVE  CacheInv'
<1>1. VersionsGrow'
  BY VersionsStep DEF CacheInv
<1>2. \A r \in Running' : tasks'[r].pc \in Selected /\ tasks'[r].packs = Nothing =>
          Covered(runs[r].chain, tasks[r].seen)'
  BY RunsOfNext, LeftOutStep DEF CacheInv
<1>3. \A r \in DOMAIN runs' :
          /\ runs'[r].status = "succeeded" \/ \E p \in Post : posts'[p].pc = "finish" /\ posts'[p].run = r
          /\ tasks'[r].pc \in {"report", "waiting"} /\ tasks'[r].ok
          => Covered(runs[r].chain, tasks[r].seen)'
  BY SeenStep DEF CacheInv, TaskSays
<1> QED
  BY <1>1, <1>2, <1>3, CacheCoveredStep DEF CacheInv, CacheIsCovered

-------------------------------------------------------------------------------
(* The invariant, and what follows from it.                                *)

\* Nothing is under way at first.
LEMMA UpInvInit == BackupInit => UpInv
<1> SUFFICES ASSUME BackupInit  PROVE UpInv
  OBVIOUS
<1>1. BaseInv
  BY BaseInvInit
<1>2. /\ fileSets = {} /\ Running = {} /\ recorded = 0 /\ DOMAIN runs = {}
      /\ \A t \in Thread : threads[t].pc = "idle"
      /\ \A p \in Post : posts[p].pc = "idle" /\ posts[p].doomed = {}
      /\ \A r \in RunId : tasks[r].pc = "none" /\ tasks[r].packs = 0
      /\ \A c \in Command : orders[c] = 0
      /\ cache.chain = 0 /\ cache.version = 0
  BY NoRecordsAreTyped DEF BackupInit, Running
<1>3. file \in Nat
  BY <1>1, FileIsNat
<1>4. ManifestInv
  BY <1>2 DEF ManifestInv, OnePass, Clear, OneRun, PlansHold, ChainsInOrder, GoesFromTheTop, Going, ListedOnce,
              Dispatching
<1>5. TasksLead
  BY <1>2 DEF TasksLead, Sent, IsListed, Asks, Nothing
<1>6. ReportsAreTrue /\ KeptIsStored
  BY <1>2 DEF ReportsAreTrue, KeptIsStored
<1>7. VersionsGrow
  BY <1>2, <1>3 DEF VersionsGrow, Selected
<1>8. CacheIsCovered
  BY <1>2, <1>3 DEF CacheIsCovered
<1> QED
  BY <1>1, <1>4, <1>5, <1>6, <1>7, <1>8 DEF UpInv, StoreInv, CacheInv

LEMMA UpInvStep == UpInv /\ [BackupNext]_backupVars => UpInv'
<1> SUFFICES ASSUME UpInv, [BackupNext]_backupVars  PROVE UpInv'
  OBVIOUS
<1>1. BaseInv /\ BaseInv'
  BY BaseInvStep DEF UpInv
<1>2. ASSUME ~overlapped'  PROVE ManifestInv' /\ StoreInv' /\ CacheInv'
  <2>1. ManifestInv /\ StoreInv /\ CacheInv
    BY <1>1, <1>2, OverlapStays DEF UpInv
  <2>2. ManifestInv' /\ StoreInv'
    BY <1>1, <1>2, <2>1, ManifestStep, StoreInvStep
  <2>3. CacheInv'
    BY <1>1, <1>2, <2>1, <2>2, CacheInvStep DEF StoreInv
  <2> QED
    BY <2>2, <2>3
<1> QED
  BY <1>1, <1>2 DEF UpInv

\* Chains whose members are in order have no gap.
LEMMA WholeChains ==
  ASSUME BaseInv, ManifestInv  PROVE ChainsAreWhole
<1> SUFFICES ASSUME NEW c \in Listed
             PROVE  {s.seq : s \in SetsOf(c)} = 0..Highest({s.seq : s \in SetsOf(c)})
  BY DEF ChainsAreWhole
<1> DEFINE Q == {s.seq : s \in SetsOf(c)}
<1>1. Q \in SUBSET Nat /\ Q # {} /\ \A k \in Q : k <= MaxRuns
  <2>1. \A s \in FileSet : s.seq \in Nat /\ s.seq <= MaxRuns
    BY DEF FileSet
  <2>2. fileSets \subseteq FileSet
    BY DEF BaseInv, BackupTypeOK
  <2> QED
    BY <2>1, <2>2 DEF SetsOf, Listed
<1>2. Highest(Q) \in Q /\ \A k \in Q : k <= Highest(Q)
  BY <1>1, HighestIs
<1>3. PICK s \in SetsOf(c) : s.seq = Highest(Q)
  BY <1>2
<1>4. \A n \in 0..Highest(Q) : n \in Q
  BY <1>3 DEF ManifestInv, ChainsInOrder, SetsOf
<1>5. \A n \in Q : n \in 0..Highest(Q)
  BY <1>1, <1>2
<1> QED
  BY <1>4, <1>5

LEMMA LeaderIsComplete ==
  ASSUME BaseInv, ManifestInv  PROVE StaysRestorable
<1> SUFFICES ASSUME recorded > 0  PROVE Listed # {} /\ Complete(Newest)
  BY DEF StaysRestorable
<1>1. Listed # {}
  BY DEF ManifestInv, ChainsInOrder
<1>2. PICK s \in fileSets : s.chain = Newest
  BY <1>1, NewestLeads DEF BaseInv, Listed
<1>3. 0 \in 0..s.seq
  BY <1>2 DEF BaseInv, BackupTypeOK, FileSet
<1> QED
  BY <1>1, <1>2, <1>3 DEF ManifestInv, ChainsInOrder, Complete

\* A version that is left out is the one listed last.
LEMMA LeftOutIsListed ==
  ASSUME BaseInv, ManifestInv, CacheInv  PROVE NothingMissed
<1> SUFFICES ASSUME NEW c \in Listed \ unlisted, c = Newest, LeavesOut(c)
             PROVE  LatestListed(c) = {file}
  BY DEF NothingMissed
<1>1. cache.chain = c /\ cache.version = file /\ c # 0
  <2>1. c \in RunId
    BY ChainsAreRuns
  <2> QED
    BY <2>1 DEF LeavesOut, RunId
<1>2. c \notin Doomed
  BY NewestLeads DEF BaseInv
<1>3. PICK s \in SetsOf(c) : s.lists >= file
  BY <1>1, <1>2 DEF CacheInv, CacheIsCovered, Covered, Passed
<1>4. /\ file \in Nat /\ file # Nothing
      /\ \A x \in SetsOf(c) : x.lists \in Nat /\ x.id \in Nat /\ x.id <= recorded /\ x.lists <= file
      /\ recorded \in Nat
  <2>1. recorded \in Nat /\ \A x \in fileSets : x.id \in 1..recorded
    BY DEF BaseInv, BackupTypeOK, ManifestRows, RowOf
  <2>2. \A x \in fileSets : x.lists \in Nat /\ x.id \in Nat /\ x.lists <= file
    BY NumbersAre DEF CacheInv, VersionsGrow
  <2> QED
    BY <2>1, <2>2, FileIsNat DEF SetsOf
<1> DEFINE packed == {x \in SetsOf(c) : x.lists # Nothing}
           last == {x \in packed : \A o \in packed : o.id <= x.id}
<1>5. s \in packed
  BY <1>3, <1>4 DEF Nothing
<1>6. PICK m \in last : TRUE
  <2>1. {x.id : x \in packed} \in SUBSET Nat /\ {x.id : x \in packed} # {}
        /\ \A k \in {x.id : x \in packed} : k <= recorded
    BY <1>4, <1>5
  <2>2. PICK h \in {x.id : x \in packed} : \A k \in {x.id : x \in packed} : k <= h
    BY <1>4, <2>1, HighestIs
  <2>3. PICK m \in packed : m.id = h
    BY <2>2
  <2>4. m \in last
    BY <2>2, <2>3
  <2> QED
    BY <2>4
<1>7. \A x \in last : x.lists = file
  <2> SUFFICES ASSUME NEW x \in last  PROVE x.lists = file
    OBVIOUS
  <2>1. s.id <= x.id /\ x.lists # Nothing /\ x \in SetsOf(c)
    BY <1>5
  <2>2. s.lists <= x.lists
    BY <2>1 DEF CacheInv, VersionsGrow, SetsOf
  <2> QED
    BY <1>3, <1>4, <2>1, <2>2
<1> QED
  BY <1>6, <1>7 DEF LatestListed

-------------------------------------------------------------------------------
\* While passes and reports come one after the other, every chain is a full
\* and the incrementals on it without a gap, and a PC that was backed up has a
\* chain to restore from (record_file_set, rotate_chains).
THEOREM ChainsStayWhole == BackupSpec => []BackupInv
<1>1. UpInv => BackupInv
  BY WholeChains, LeaderIsComplete DEF UpInv, BackupInv, BaseInv
<1> QED
  BY UpInvInit, UpInvStep, <1>1, PTL DEF BackupSpec

\* What the kept chains list is in the store as it was listed: no upload, no
\* discard and no rotation takes it (rotate_chains, _discard_cancelled_object).
THEOREM KeptStaysStored == BackupSpec => []KeptIsStored
<1>1. UpInv => KeptIsStored
  BY DEF UpInv, StoreInv, KeptIsStored
<1> QED
  BY UpInvInit, UpInvStep, <1>1, PTL DEF BackupSpec

\* A version that the next incremental leaves out is the one its chain listed
\* last (SaveCache, ReportBackupAsync, ingest_file_result).
THEOREM NothingGoesMissing == BackupSpec => []NothingMissed
<1>1. UpInv => NothingMissed
  BY LeftOutIsListed DEF UpInv, NothingMissed
<1> QED
  BY UpInvInit, UpInvStep, <1>1, PTL DEF BackupSpec
=================================================================================
