----------------------------- MODULE PatchRunProofs -----------------------------
(***************************************************************************)
(* A patch run's safety for any number of machines, updates, heartbeats,   *)
(* commands and attempts.                                                  *)
(***************************************************************************)
EXTENDS PatchRun, FiniteSetTheorems, TLAPS

USE QueueAssumption, PatchAssumption

-------------------------------------------------------------------------------
(* Types.                                                                  *)

\* The kinds of values in the tables.
TablesTyped ==
    /\ run \in RunOpen \cup {"none", "complete", "cancelled"}
    /\ patching \in [Machine -> Patching]
    /\ items \in [Machine -> [Update -> ItemStatus]]
    /\ offered \in [Machine -> SUBSET Update]

Pass == [pc : PassPc, todo : SUBSET PassRow, at : SomeMachine,
         to : PatchStatus \cup {"none"}, updates : SUBSET Update,
         command : Command \cup {NoInstall}, back : PassPc]

BeatRecord == [pc : BeatPc, of : SomeMachine, list : SUBSET Update, tried : SUBSET Update]

Acting == {"giveUp", "write", "claim", "items", "queue", "record"}

\* Whoever is at work is at work on a machine.
HasSubject ==
    /\ patchPass.pc \in Acting => patchPass.at \in Machine
    /\ patchPass.back \notin Acting
    /\ \A b \in Beat : beat[b].pc # "idle" => beat[b].of \in Machine

\* A step that leaves the queue alone leaves it typed.
LEMMA PatchQueueUntouched ==
  ASSUME QueueTypeOK, UNCHANGED queueVars
  PROVE  QueueTypeOK'
BY DEF QueueTypeOK, queueVars

\* The queue's operations keep its kinds of values.
LEMMA QueueOperations ==
  ASSUME QueueTypeOK
  PROVE  /\ ExpireStale => QueueTypeOK'
         /\ \A c \in Command : Lapse(c) => QueueTypeOK'
         /\ \A c \in Command, m \in SomeMachine : Create(c, m) => QueueTypeOK'
         /\ \A a \in Agent, m \in Machine : Claim(a, m) => QueueTypeOK'
         /\ \A c \in Command, ok \in BOOLEAN : RecordResult(c, ok) => QueueTypeOK'
         /\ \A m \in Machine : \A ids \in SUBSET Command : DeleteRows(m, ids) => QueueTypeOK'
<1> USE DEF QueueTypeOK, CommandStatus, NoRow
<1>1. ExpireStale => QueueTypeOK'  BY DEF ExpireStale
<1>2. \A c \in Command : Lapse(c) => QueueTypeOK'  BY DEF Lapse
<1>3. \A c \in Command, m \in SomeMachine : Create(c, m) => QueueTypeOK'
  BY DEF Create, SomeMachine
<1>4. \A a \in Agent, m \in Machine : Claim(a, m) => QueueTypeOK'  BY DEF Claim
<1>5. \A c \in Command, ok \in BOOLEAN : RecordResult(c, ok) => QueueTypeOK'  BY DEF RecordResult
<1>6. \A m \in Machine : \A ids \in SUBSET Command : DeleteRows(m, ids) => QueueTypeOK'
  BY DEF DeleteRows
<1>. QED  BY <1>1, <1>2, <1>3, <1>4, <1>5, <1>6

\* The first state has the kinds of values it should.
LEMMA PatchInitTyped == PatchInit => PatchTypeOK
BY DEF PatchInit, QueueInit, PatchTypeOK, QueueTypeOK, CommandStatus, NoRow, NoPatching, Patching,
       ItemStatus, NoPass, PassPc, NoBeat, BeatPc, SomeMachine, PatchStatus

\* A row of which one column is written is a row.
LEMMA RowUpdates ==
  /\ NoPatching \in Patching
  /\ \A row \in Patching, to \in PatchStatus \cup {"none"} : [row EXCEPT !.status = to] \in Patching
  /\ \A row \in Patching, c \in Command : [row EXCEPT !.command = c] \in Patching
BY DEF NoPatching, Patching

\* What operators do keeps the kinds of values.
LEMMA OperatorsKeepTypes ==
  ASSUME PatchTypeOK, PatchOperatorStep
  PROVE  PatchTypeOK'
<1>0. /\ patching \in [Machine -> Patching]
      /\ items \in [Machine -> [Update -> ItemStatus]]
      /\ offered \in [Machine -> SUBSET Update]
  BY DEF PatchTypeOK
<1> USE PatchQueueUntouched DEF patchTables, patchAgents, patchHistory, RunOpen
<1>1. ASSUME NEW M \in SUBSET Machine, CreateRun(M)  PROVE PatchTypeOK'
  <2>1. [NoPatching EXCEPT !.status = "pending"] \in Patching
    BY RowUpdates DEF PatchStatus
  <2>. QED  BY <1>1, <2>1, RowUpdates DEF CreateRun, PatchTypeOK
<1>2. CASE CancelRun
  <2>1. patching' \in [Machine -> Patching]
    BY <1>0, <1>2, RowUpdates DEF CancelRun, PatchStatus, TargetTerminal
  <2>. QED  BY <1>2, <2>1 DEF CancelRun, PatchTypeOK
<1>3. CASE RetryFailed
  <2>1. [NoPatching EXCEPT !.status = "pending"] \in Patching
    BY RowUpdates DEF PatchStatus
  <2>2. patching' \in [Machine -> Patching]
    BY <1>0, <1>3, <2>1 DEF RetryFailed
  <2>3. rearmed' \in 0..PatchRetries
    BY <1>3 DEF RetryFailed, PatchTypeOK
  <2>4. run' \in RunOpen \cup {"none", "complete", "cancelled"}
    BY <1>3 DEF RetryFailed, RunOf
  <2>. QED  BY <1>3, <2>2, <2>3, <2>4 DEF RetryFailed, PatchTypeOK
<1>4. ASSUME NEW m \in Machine, ForgetPatches(m)  PROVE PatchTypeOK'
  <2>1. patching' \in [Machine -> Patching] /\ offered' \in [Machine -> SUBSET Update]
    BY <1>0, <1>4, RowUpdates DEF ForgetPatches
  <2>. QED  BY <1>4, <2>1 DEF ForgetPatches, RunOf, PatchTypeOK
<1>5. ASSUME NEW m \in Machine, NEW n \in Machine, RenamePatches(m, n)  PROVE PatchTypeOK'
  <2>1. items' \in [Machine -> [Update -> ItemStatus]]
    <3>1. [u \in Update |-> "none"] \in [Update -> ItemStatus]  BY DEF ItemStatus
    <3>2. [u \in Update |-> IF items[n][u] # "none" THEN items[n][u] ELSE items[m][u]]
            \in [Update -> ItemStatus]
      BY <1>0
    <3>. QED  BY <1>0, <1>5, <3>1, <3>2 DEF RenamePatches
  <2>2. patching' \in [Machine -> Patching]
    BY <1>0, <1>5, RowUpdates DEF RenamePatches
  <2>3. offered' \in [Machine -> SUBSET Update]
    BY <1>0, <1>5 DEF RenamePatches
  <2>. QED  BY <1>5, <2>1, <2>2, <2>3 DEF RenamePatches, PatchTypeOK
<1>6. ASSUME NEW m \in Machine, NEW n \in Machine, NEW k \in {"forget", "rename"},
             EraseRecord(m, <<k, m, n>>)
      PROVE  PatchTypeOK'
  <2>1. QueueTypeOK'
    BY <1>6, QueueOperations DEF EraseRecord, PatchTypeOK
  <2>2. leaving' \subseteq {"forget", "rename"} \X Machine \X Machine
    BY <1>6 DEF EraseRecord, PatchTypeOK
  <2>3. {<<k, m, n>>[i] : i \in 2..3} \subseteq Machine
    OBVIOUS
  <2>. QED  BY <1>6, <2>1, <2>2, <2>3 DEF EraseRecord, PatchTypeOK
<1>. QED
  BY <1>1, <1>2, <1>3, <1>4, <1>5, <1>6 DEF PatchOperatorStep, DeleteRecord, MergeRecords

\* A list of updates that is marked is a list of updates.
LEMMA MarksAreItems ==
  ASSUME items \in [Machine -> [Update -> ItemStatus]], NEW m, NEW gone, MarkItems(m, gone)
  PROVE  items' \in [Machine -> [Update -> ItemStatus]]
BY DEF MarkItems, ItemStatus

\* A roll-up gives a run's status.
LEMMA RollUpTyped ==
  ASSUME NEW was \in RunOpen \cup {"none", "complete", "cancelled"}, NEW rows
  PROVE  RunOf(was, rows) \in RunOpen \cup {"none", "complete", "cancelled"}
BY DEF RunOf, RunOpen

\* An UPDATE of one status keeps the rows rows.
LEMMA WritesRows ==
  ASSUME patching \in [Machine -> Patching], NEW m, NEW to \in PatchStatus \cup {"none"}
  PROVE  With(m, to) \in [Machine -> Patching]
BY RowUpdates DEF With

\* The writer's place in the code, and what it has read, as it moves on.
LEMMA PassMoves ==
  ASSUME patchPass \in Pass
  PROVE  /\ NoPass \in Pass /\ \A pc \in PassPc : [NoPass EXCEPT !.pc = pc] \in Pass
         /\ \A todo \in SUBSET PassRow, pc \in PassPc : [NoPass EXCEPT !.pc = pc, !.todo = todo] \in Pass
         /\ \A pc \in PassPc : [patchPass EXCEPT !.pc = pc] \in Pass
         /\ \A todo \in SUBSET PassRow, pc \in PassPc : [patchPass EXCEPT !.pc = pc, !.todo = todo] \in Pass
         /\ \A s \in patchPass.todo : Skip(s) \in Pass
         /\ \A s \in patchPass.todo, pc \in PassPc :
               /\ Taking(s, pc) \in Pass
               /\ \A to \in PatchStatus : [Taking(s, pc) EXCEPT !.to = to] \in Pass
               /\ \A updates \in SUBSET Update : [Taking(s, pc) EXCEPT !.updates = updates] \in Pass
         /\ \A c \in Command : [patchPass EXCEPT !.pc = "record", !.command = c] \in Pass
         /\ [patchPass EXCEPT !.pc = "queue", !.updates = {}] \in Pass
<1> USE DEF Pass
<1>1. NoPass \in Pass /\ \A pc \in PassPc : [NoPass EXCEPT !.pc = pc] \in Pass
  BY DEF NoPass, PassPc, SomeMachine
<1>2. \A todo \in SUBSET PassRow, pc \in PassPc : [NoPass EXCEPT !.pc = pc, !.todo = todo] \in Pass
  BY DEF NoPass, PassPc, SomeMachine
<1>3. \A pc \in PassPc : [patchPass EXCEPT !.pc = pc] \in Pass
  OBVIOUS
<1>4. \A todo \in SUBSET PassRow, pc \in PassPc : [patchPass EXCEPT !.pc = pc, !.todo = todo] \in Pass
  OBVIOUS
<1>5. \A s \in patchPass.todo : Skip(s) \in Pass
  BY DEF Skip
<1>6. ASSUME NEW s \in patchPass.todo, NEW pc \in PassPc
      PROVE  /\ Taking(s, pc) \in Pass
             /\ \A to \in PatchStatus : [Taking(s, pc) EXCEPT !.to = to] \in Pass
             /\ \A updates \in SUBSET Update : [Taking(s, pc) EXCEPT !.updates = updates] \in Pass
  BY DEF Taking, PassRow, SomeMachine
<1>7. \A c \in Command : [patchPass EXCEPT !.pc = "record", !.command = c] \in Pass
  BY DEF PassPc
<1>8. [patchPass EXCEPT !.pc = "queue", !.updates = {}] \in Pass
  BY DEF PassPc
<1>. QED  BY <1>1, <1>2, <1>3, <1>4, <1>5, <1>6, <1>7, <1>8

\* What the scheduler does keeps the kinds of values.
LEMMA PassKeepsTypes ==
  ASSUME PatchTypeOK, PatchPassStep
  PROVE  PatchTypeOK'
<1>0. /\ patchPass \in Pass /\ patching \in [Machine -> Patching]
      /\ patchPass.todo \in SUBSET PassRow /\ patchPass.back \in PassPc
  BY DEF PatchTypeOK, Pass
<1> {"idle", "read", "judge", "giveUp", "write", "dispatch", "claim", "items", "queue", "record"}
      \subseteq PassPc
  BY DEF PassPc
<1> {"pending", "failed", "expired", "rebooting", "nothing_to_do"} \subseteq PatchStatus
  BY DEF PatchStatus, TargetTerminal
<1> DEFINE Moved == patchPass' \in Pass => PatchTypeOK'
<1>1. ASSUME UNCHANGED <<queueVars, patchTables, beat, patchAgents, patchHistory>>  PROVE Moved
  BY <1>1, PatchQueueUntouched DEF patchTables, patchAgents, patchHistory, PatchTypeOK, Pass
<1>2. \A M \in SUBSET Machine : Rows(M) \in SUBSET PassRow
  BY <1>0 DEF Rows, PassRow
<1>3. CASE PatchTick
  <2>1. QueueTypeOK' /\ patchPass' \in Pass
    BY <1>0, <1>3, QueueOperations, PassMoves DEF PatchTick, PatchTypeOK
  <2>. QED  BY <1>3, <2>1 DEF PatchTick, patchTables, patchAgents, patchHistory, PatchTypeOK, Pass
<1>4. CASE ReadUnderWay
  BY <1>0, <1>1, <1>2, <1>4, PassMoves DEF ReadUnderWay
<1>5. ASSUME NEW s \in patchPass.todo, JudgeAttempt(s)  PROVE PatchTypeOK'
  <2>1. CASE patchPass' = Skip(s)
    BY <1>1, <1>5, <2>1, PassMoves, <1>0 DEF JudgeAttempt
  <2>2. ASSUME NEW to \in Verdicts(s), patchPass' = [Taking(s, "write") EXCEPT !.to = to]
        PROVE  PatchTypeOK'
    <3>1. to \in PatchStatus  BY <2>2 DEF Verdicts
    <3>2. patchPass' \in Pass  BY <1>0, <2>2, <3>1, PassMoves
    <3>. QED  BY <1>1, <1>5, <3>2 DEF JudgeAttempt
  <2>. QED  BY <1>5, <2>1, <2>2 DEF JudgeAttempt
<1>6. ASSUME NEW s \in patchPass.todo, JudgeStale(s)  PROVE PatchTypeOK'
  <2>1. CASE patchPass' = Skip(s)
    BY <1>1, <1>6, <2>1, PassMoves, <1>0 DEF JudgeStale
  <2>2. CASE patchPass' = [Taking(s, "giveUp") EXCEPT !.to = "failed"]
    <3>1. patchPass' \in Pass  BY <1>0, <2>2, PassMoves
    <3>. QED  BY <1>1, <1>6, <3>1 DEF JudgeStale
  <2>. QED  BY <1>6, <2>1, <2>2 DEF JudgeStale
<1>7. CASE GiveUpItems
  <2>1. patchPass' \in Pass /\ items' \in [Machine -> [Update -> ItemStatus]]
    BY <1>0, <1>7, PassMoves, MarksAreItems DEF GiveUpItems, PatchTypeOK
  <2>. QED  BY <1>7, <2>1, PatchQueueUntouched DEF GiveUpItems, patchAgents, patchHistory, PatchTypeOK, Pass
<1>8. CASE WriteStatus
  <2>1. patchPass' \in Pass
    BY <1>0, <1>8, PassMoves DEF WriteStatus
  <2>3. patching' \in [Machine -> Patching]
    <3>1. patchPass.to \in PatchStatus \cup {"none"}  BY <1>0 DEF Pass
    <3>. QED  BY <1>0, <1>8, <3>1, WritesRows DEF WriteStatus, Roll
  <2>2. run' \in RunOpen \cup {"none", "complete", "cancelled"}
    BY <1>8, RollUpTyped DEF WriteStatus, Roll, PatchTypeOK
  <2>. QED
    BY <1>8, <2>1, <2>2, <2>3, PatchQueueUntouched DEF WriteStatus, patchAgents, patchHistory, PatchTypeOK, Pass
<1>9. CASE ReadDue
  BY <1>0, <1>1, <1>2, <1>9, PassMoves DEF ReadDue
<1>10. ASSUME NEW s \in patchPass.todo, NotDispatched(s)  PROVE PatchTypeOK'
  <2>1. CASE patchPass' = Skip(s)
    BY <1>1, <1>10, <2>1, PassMoves, <1>0 DEF NotDispatched
  <2>2. ASSUME NEW to \in {"expired", "failed"}, patchPass' = [Taking(s, "write") EXCEPT !.to = to]
        PROVE  PatchTypeOK'
    <3>1. patchPass' \in Pass  BY <1>0, <2>2, PassMoves
    <3>. QED  BY <1>1, <1>10, <3>1 DEF NotDispatched
  <2>. QED  BY <1>10, <2>1, <2>2 DEF NotDispatched
<1>11. ASSUME NEW s \in patchPass.todo, NEW updates \in SUBSET Update, Resolve(s, updates)
       PROVE  PatchTypeOK'
  BY <1>0, <1>1, <1>11, PassMoves DEF Resolve
<1>12. CASE ClaimPatching
  <2>1. patchPass' \in Pass
    <3>1. CASE patchPass' = [patchPass EXCEPT !.pc = "items"]
      BY <1>0, <3>1, PassMoves
    <3>2. CASE patchPass' = [NoPass EXCEPT !.pc = "dispatch", !.todo = patchPass.todo]
      BY <1>0, <3>2, PassMoves
    <3>. QED  BY <1>12, <3>1, <3>2 DEF ClaimPatching
  <2>2. patching' \in [Machine -> Patching]
    BY <1>0, <1>12 DEF ClaimPatching, Patching, PatchStatus
  <2>. QED
    BY <1>12, <2>1, <2>2, PatchQueueUntouched DEF ClaimPatching, patchAgents, patchHistory, PatchTypeOK, Pass
<1>13. CASE RecordItems
  <2>1. patchPass' \in Pass /\ items' \in [Machine -> [Update -> ItemStatus]]
    BY <1>0, <1>13, PassMoves DEF RecordItems, PatchTypeOK, ItemStatus
  <2>. QED  BY <1>13, <2>1, PatchQueueUntouched DEF RecordItems, patchAgents, patchHistory, PatchTypeOK, Pass
<1>14. CASE QueueInstall
  <2>1. PICK c \in Command : Create(c, patchPass.at)
                             /\ patchPass' = [patchPass EXCEPT !.pc = "record", !.command = c]
    BY <1>14 DEF QueueInstall
  <2>2. QueueTypeOK' /\ patchPass' \in Pass
    BY <1>0, <2>1, QueueOperations, PassMoves DEF PatchTypeOK, Pass
  <2>. QED  BY <1>14, <2>2 DEF QueueInstall, patchTables, patchAgents, patchHistory, PatchTypeOK, Pass
<1>15. CASE RecordInstall
  <2>1. patchPass' \in Pass
    BY <1>0, <1>15, PassMoves DEF RecordInstall
  <2>2. patching' \in [Machine -> Patching]
    <3>1. patchPass.command \in Command \cup {NoInstall}
      BY <1>0 DEF Pass
    <3>2. \A row \in Patching, c \in Command \cup {NoInstall} : [row EXCEPT !.command = c] \in Patching
      BY DEF Patching
    <3>. QED  BY <1>0, <1>15, <3>1, <3>2 DEF RecordInstall, Roll
  <2>3. run' \in RunOpen \cup {"none", "complete", "cancelled"}
    BY <1>15, RollUpTyped DEF RecordInstall, Roll, PatchTypeOK
  <2>. QED
    BY <1>15, <2>1, <2>2, <2>3, PatchQueueUntouched DEF RecordInstall, patchAgents, patchHistory, PatchTypeOK, Pass
<1>16. CASE PatchPassOver \/ PatchPassDies
  BY <1>0, <1>1, <1>16, PassMoves DEF PatchPassOver, PatchPassDies
<1>. QED
  BY <1>3, <1>4, <1>5, <1>6, <1>7, <1>8, <1>9, <1>10, <1>11, <1>12, <1>13, <1>14, <1>15, <1>16
     DEF PatchPassStep

\* A heartbeat's place in the code, and what it has read, as it moves on.
LEMMA BeatMoves ==
  /\ NoBeat \in BeatRecord
  /\ \A r \in BeatRecord, pc \in BeatPc : [r EXCEPT !.pc = pc] \in BeatRecord
  /\ \A r \in BeatRecord, pc \in BeatPc, l \in SUBSET Update :
        /\ [r EXCEPT !.pc = pc, !.list = l] \in BeatRecord
        /\ [r EXCEPT !.pc = pc, !.tried = l] \in BeatRecord
  /\ \A m \in SomeMachine, pc \in BeatPc, l \in SUBSET Update :
        /\ [NoBeat EXCEPT !.pc = pc, !.of = m] \in BeatRecord
        /\ [NoBeat EXCEPT !.pc = pc, !.of = m, !.list = l] \in BeatRecord
BY DEF NoBeat, BeatRecord, BeatPc, SomeMachine

\* What the thread of a heartbeat does keeps the kinds of values.
LEMMA BeatKeepsTypes ==
  ASSUME PatchTypeOK, HasSubject, NEW b \in Beat, BeatStep(b)
  PROVE  PatchTypeOK'
<1>0. /\ beat \in [Beat -> BeatRecord] /\ beat[b] \in BeatRecord
      /\ beat[b].of \in SomeMachine /\ beat[b].list \in SUBSET Update /\ beat[b].tried \in SUBSET Update
      /\ patching \in [Machine -> Patching]
      /\ items \in [Machine -> [Update -> ItemStatus]] /\ offered \in [Machine -> SUBSET Update]
  BY DEF PatchTypeOK, BeatRecord
<1> {"idle", "ingest", "replace", "confirm", "offered", "items", "mark", "close"} \subseteq BeatPc
  BY DEF BeatPc
<1> {"applied", "failed", "partial"} \subseteq PatchStatus
  BY DEF PatchStatus, TargetTerminal
<1>1. ASSUME NEW r \in BeatRecord, beat' = [beat EXCEPT ![b] = r]
      PROVE  beat' \in [Beat -> BeatRecord]
  BY <1>0, <1>1
<1>2. ASSUME BeatOver(b)  PROVE beat' \in [Beat -> BeatRecord]
  BY <1>0, <1>2, BeatMoves DEF BeatOver
<1>3. ASSUME NEW pc \in BeatPc, BeatGoes(b, pc)  PROVE beat' \in [Beat -> BeatRecord]
  BY <1>0, <1>3, BeatMoves DEF BeatGoes
<1>4. ASSUME UNCHANGED <<queueVars, patchTables, patchPass, patchAgents, patchHistory>>,
             beat' \in [Beat -> BeatRecord]
      PROVE  PatchTypeOK'
  BY <1>4, PatchQueueUntouched DEF patchTables, patchAgents, patchHistory, PatchTypeOK, BeatRecord
<1>5. CASE ReadExisting(b)
  <2>1. offered[beat[b].of] \ beat[b].list \in SUBSET Update
    BY <1>0, <1>5 DEF ReadExisting, BeatAt, HasSubject
  <2>2. beat' \in [Beat -> BeatRecord]
    BY <1>0, <1>5, <2>1, BeatMoves DEF ReadExisting
  <2>. QED  BY <1>4, <1>5, <2>2 DEF ReadExisting
<1>6. CASE Ingest(b)
  <2>1. beat' \in [Beat -> BeatRecord]
    BY <1>0, <1>6, BeatMoves DEF Ingest
  <2>2. offered' \in [Machine -> SUBSET Update]
    BY <1>0, <1>6 DEF Ingest
  <2>. QED  BY <1>6, <2>1, <2>2, PatchQueueUntouched DEF Ingest, patchAgents, patchHistory, PatchTypeOK, BeatRecord
<1>7. CASE ReadStaged(b)
  BY <1>2, <1>3, <1>4, <1>7 DEF ReadStaged
<1>8. CASE ReadOffered(b)
  <2>1. offered[beat[b].of] \in SUBSET Update
    BY <1>0, <1>8 DEF ReadOffered, BeatAt, HasSubject
  <2>2. beat' \in [Beat -> BeatRecord]
    BY <1>0, <1>8, <2>1, BeatMoves DEF ReadOffered
  <2>. QED  BY <1>4, <1>8, <2>2 DEF ReadOffered
<1>9. CASE ReadItems(b)
  <2>1. {u \in Update : items[beat[b].of][u] # "none"} \in SUBSET Update
    OBVIOUS
  <2>2. beat' \in [Beat -> BeatRecord]
    <3>1. CASE BeatOver(b)
      BY <1>2, <3>1
    <3>2. ASSUME NEW tried \in SUBSET Update,
                 beat' = [beat EXCEPT ![b].pc = "mark", ![b].tried = tried]
          PROVE  beat' \in [Beat -> BeatRecord]
      BY <1>0, <3>2, BeatMoves
    <3>. QED  BY <1>9, <2>1, <3>1, <3>2 DEF ReadItems
  <2>. QED  BY <1>4, <1>9, <2>2 DEF ReadItems
<1>10. CASE ConfirmItems(b)
  <2>1. beat' \in [Beat -> BeatRecord] /\ items' \in [Machine -> [Update -> ItemStatus]]
    BY <1>0, <1>3, <1>10, MarksAreItems DEF ConfirmItems
  <2>. QED  BY <1>10, <2>1, PatchQueueUntouched DEF ConfirmItems, patchAgents, patchHistory, PatchTypeOK, BeatRecord
<1>11. CASE CloseTarget(b)
  <2>1. beat' \in [Beat -> BeatRecord]
    BY <1>2, <1>11 DEF CloseTarget
  <2>2. patching' \in [Machine -> Patching]
    BY <1>0, <1>11, WritesRows DEF CloseTarget, Roll
  <2>3. run' \in RunOpen \cup {"none", "complete", "cancelled"}
    BY <1>11, RollUpTyped DEF CloseTarget, Roll, PatchTypeOK
  <2>. QED
    BY <1>11, <2>1, <2>2, <2>3, PatchQueueUntouched DEF CloseTarget, patchAgents, patchHistory, PatchTypeOK, BeatRecord
<1>. QED
  BY <1>5, <1>6, <1>7, <1>8, <1>9, <1>10, <1>11 DEF BeatStep

\* What happens on a machine, and what its agent does, keeps the kinds of values.
LEMMA MachineKeepsTypes ==
  ASSUME PatchTypeOK, NEW m \in Machine, PatchMachineStep(m)
  PROVE  PatchTypeOK'
<1>0. /\ beat \in [Beat -> BeatRecord] /\ scan \in [Machine -> SUBSET SUBSET Update]
      /\ sent \in [Machine -> SUBSET SUBSET Update] /\ lacks \in [Machine -> SUBSET Update]
      /\ installs \in [Command -> {"unclaimed", "inHand", "ok", "broke", "told"}]
  BY DEF PatchTypeOK, BeatRecord
<1> USE PatchQueueUntouched DEF patchTables, patchAgents, patchHistory
<1>1. ASSUME NEW a \in Agent, AgentTakes(a, m)  PROVE PatchTypeOK'
  <2>1. QueueTypeOK'
    BY <1>1, QueueOperations DEF AgentTakes, PatchTypeOK
  <2>2. installs' \in [Command -> {"unclaimed", "inHand", "ok", "broke", "told"}]
    BY <1>0, <1>1 DEF AgentTakes
  <2>. QED  BY <1>1, <2>1, <2>2 DEF AgentTakes, PatchTypeOK
<1>2. ASSUME NEW c \in Command, NEW ends \in BOOLEAN, Install(c, m, ends)  PROVE PatchTypeOK'
  <2>1. installs' \in [Command -> {"unclaimed", "inHand", "ok", "broke", "told"}]
    BY <1>0, <1>2 DEF Install
  <2>2. sent' \in [Machine -> SUBSET SUBSET Update]
    BY <1>0, <1>2 DEF Install
  <2>. QED  BY <1>2, <2>1, <2>2 DEF Install, PatchTypeOK
<1>3. ASSUME NEW u \in Update, UpdateGoes(m, u)  PROVE PatchTypeOK'
  <2>1. lacks' \in [Machine -> SUBSET Update]
    BY <1>0, <1>3 DEF UpdateGoes
  <2>. QED  BY <1>3, <2>1 DEF UpdateGoes, PatchTypeOK
<1>4. ASSUME NEW fails \in BOOLEAN, Search(m, fails)  PROVE PatchTypeOK'
  <2>1. scan' \in [Machine -> SUBSET SUBSET Update]
    BY <1>0, <1>4 DEF Search
  <2>2. unsure' \subseteq Machine
    BY <1>4 DEF Search, PatchTypeOK
  <2>. QED  BY <1>4, <2>1, <2>2 DEF Search, PatchTypeOK
<1>5. ASSUME NEW b \in Beat, NEW lost \in BOOLEAN, SendList(m, b, lost)  PROVE PatchTypeOK'
  <2>1. UNION scan[m] \in SUBSET Update
    BY <1>0
  <2>2. [NoBeat EXCEPT !.pc = "ingest", !.of = m, !.list = UNION scan[m]] \in BeatRecord
    BY <2>1, BeatMoves DEF SomeMachine, BeatPc
  <2>3. beat' \in [Beat -> BeatRecord]
    BY <1>0, <1>5, <2>2 DEF SendList
  <2>4. scan' \in [Machine -> SUBSET SUBSET Update] /\ sent' \in [Machine -> SUBSET SUBSET Update]
    BY <1>0, <1>5 DEF SendList
  <2>. QED  BY <1>5, <2>3, <2>4 DEF SendList, PatchTypeOK, BeatRecord
<1>. QED
  BY <1>1, <1>2, <1>3, <1>4, <1>5 DEF PatchMachineStep

\* So do an answer, and the end of a command's time.
LEMMA CommandKeepsTypes ==
  ASSUME PatchTypeOK, NEW c \in Command, LapseInstall(c) \/ \E a \in Agent : AgentAnswers(a, c)
  PROVE  PatchTypeOK'
<1> USE DEF patchTables, patchAgents, patchHistory
<1>1. CASE LapseInstall(c)
  <2>1. QueueTypeOK'  BY <1>1, QueueOperations DEF LapseInstall, PatchTypeOK
  <2>. QED  BY <1>1, <2>1 DEF LapseInstall, PatchTypeOK
<1>2. ASSUME NEW a \in Agent, AgentAnswers(a, c)  PROVE PatchTypeOK'
  <2>1. QueueTypeOK'  BY <1>2, QueueOperations DEF AgentAnswers, PatchTypeOK
  <2>2. installs' \in [Command -> {"unclaimed", "inHand", "ok", "broke", "told"}]
    BY <1>2 DEF AgentAnswers, PatchTypeOK
  <2>. QED  BY <1>2, <2>1, <2>2 DEF AgentAnswers, PatchTypeOK
<1>. QED  BY <1>1, <1>2

\* The scheduler picks a machine out of rows of machines.
LEMMA PassKeepsSubject ==
  ASSUME PatchTypeOK, HasSubject, PatchPassStep
  PROVE  HasSubject'
<1>0. patchPass \in Pass
  BY DEF PatchTypeOK, Pass
<1>1. UNCHANGED beat
  BY DEF PatchPassStep, PatchTick, ReadUnderWay, GiveUpItems, WriteStatus, ReadDue, ClaimPatching,
         RecordItems, QueueInstall, RecordInstall, PatchPassOver, PatchPassDies, JudgeAttempt,
         JudgeStale, NotDispatched, Resolve
<1> USE DEF Acting, HasSubject, PassAt, Pass
<1>2. CASE PatchTick \/ ReadDue \/ PatchPassOver \/ PatchPassDies
  <2>1. patchPass'.pc \in {"idle", "read", "dispatch"} /\ patchPass'.back = "idle"
    <3>1. NoPass.pc = "idle" /\ NoPass.back = "idle"
      BY DEF NoPass
    <3>2. [NoPass EXCEPT !.pc = "read"].pc = "read" /\ [NoPass EXCEPT !.pc = "read"].back = "idle"
      BY DEF NoPass
    <3>3. \A todo : /\ [NoPass EXCEPT !.pc = "dispatch", !.todo = todo].pc = "dispatch"
                    /\ [NoPass EXCEPT !.pc = "dispatch", !.todo = todo].back = "idle"
      BY DEF NoPass
    <3>4. CASE PatchTick                        BY <3>2, <3>4 DEF PatchTick
    <3>5. CASE ReadDue                          BY <3>3, <3>5 DEF ReadDue
    <3>6. CASE PatchPassOver \/ PatchPassDies   BY <3>1, <3>6 DEF PatchPassOver, PatchPassDies
    <3>. QED  BY <1>2, <3>4, <3>5, <3>6
  <2>. QED  BY <1>1, <2>1
<1>7. CASE ReadUnderWay
  BY <1>0, <1>1, <1>7 DEF ReadUnderWay
<1>3. CASE WriteStatus \/ RecordInstall
  BY <1>0, <1>1, <1>3 DEF WriteStatus, RecordInstall, NoPass
<1>4. CASE GiveUpItems \/ RecordItems \/ QueueInstall
  BY <1>0, <1>1, <1>4 DEF GiveUpItems, RecordItems, QueueInstall
<1>5. CASE ClaimPatching
  BY <1>0, <1>1, <1>5 DEF ClaimPatching, NoPass
<1>6. ASSUME NEW s \in patchPass.todo, \/ JudgeAttempt(s) \/ JudgeStale(s) \/ NotDispatched(s)
                                       \/ \E updates \in SUBSET Update : Resolve(s, updates)
      PROVE  HasSubject'
  <2>1. s.of \in Machine
    BY <1>0 DEF PassRow
  <2>2. patchPass.pc \in {"judge", "dispatch"}
    BY <1>6 DEF JudgeAttempt, JudgeStale, NotDispatched, Resolve
  <2>3. \/ patchPass' = Skip(s)
        \/ patchPass'.at = s.of /\ patchPass'.back = patchPass.pc
    BY <1>0, <1>6 DEF JudgeAttempt, JudgeStale, NotDispatched, Resolve, Taking
  <2>. QED  BY <1>0, <1>1, <2>1, <2>2, <2>3 DEF Skip
<1>. QED  BY <1>2, <1>3, <1>4, <1>5, <1>6, <1>7 DEF PatchPassStep

\* A heartbeat is some machine's until its thread is done.
LEMMA BeatKeepsSubject ==
  ASSUME PatchTypeOK, HasSubject, NEW b \in Beat, BeatStep(b)
  PROVE  HasSubject'
<1>1. beat \in [Beat -> BeatRecord] /\ UNCHANGED patchPass
  BY DEF PatchTypeOK, BeatRecord, BeatStep, ReadExisting, Ingest, ReadStaged, ReadOffered, ReadItems,
         ConfirmItems, CloseTarget, patchHistory
<1>2. \A o \in Beat \ {b} : beat'[o] = beat[o]
  BY <1>1 DEF BeatStep, ReadExisting, Ingest, ReadStaged, ReadOffered, ReadItems, ConfirmItems,
              CloseTarget, BeatOver, BeatGoes
<1>3. beat[b].of \in Machine
  BY DEF HasSubject, BeatStep, ReadExisting, Ingest, ReadStaged, ReadOffered, ReadItems, ConfirmItems,
         CloseTarget, BeatAt
<1>4. beat'[b].pc = "idle" \/ beat'[b].of = beat[b].of
  <2>1. ReadExisting(b) => beat'[b].of = beat[b].of
    BY <1>1 DEF ReadExisting, BeatRecord
  <2>2. Ingest(b) => beat'[b].of = beat[b].of
    BY <1>1 DEF Ingest, NoBeat
  <2>3. BeatOver(b) => beat'[b].pc = "idle"
    BY <1>1 DEF BeatOver, NoBeat
  <2>4. \A pc : BeatGoes(b, pc) => beat'[b].of = beat[b].of
    BY <1>1 DEF BeatGoes, BeatRecord
  <2>5. ReadOffered(b) => beat'[b].of = beat[b].of
    BY <1>1 DEF ReadOffered, BeatRecord
  <2>6. ReadItems(b) => beat'[b].pc = "idle" \/ beat'[b].of = beat[b].of
    BY <1>1, <2>3 DEF ReadItems, BeatRecord
  <2>. QED
    BY <2>1, <2>2, <2>3, <2>4, <2>5, <2>6 DEF BeatStep, ReadStaged, ConfirmItems, CloseTarget
<1>. QED  BY <1>1, <1>2, <1>3, <1>4 DEF HasSubject

\* The kinds of values, with what keeps them.
TypedAtWork == PatchTypeOK /\ HasSubject

\* Nobody else touches who is at work on what, except that a list is sent.
LEMMA OthersKeepSubject ==
  ASSUME TypedAtWork,
         \/ PatchOperatorStep
         \/ \E m \in Machine : PatchMachineStep(m)
         \/ \E c \in Command : LapseInstall(c) \/ \E a \in Agent : AgentAnswers(a, c)
  PROVE  HasSubject'
<1>1. CASE UNCHANGED <<patchPass, beat>>
  BY <1>1 DEF TypedAtWork, HasSubject
<1>2. ASSUME NEW m \in Machine, NEW b \in Beat, NEW lost \in BOOLEAN, SendList(m, b, lost)
      PROVE  HasSubject'
  <2>1. [NoBeat EXCEPT !.pc = "ingest", !.of = m, !.list = UNION scan[m]].of = m
    BY DEF NoBeat
  <2>2. UNCHANGED patchPass
    BY <1>2 DEF SendList
  <2>3. \A o \in Beat : beat'[o] = beat[o] \/ beat'[o].of = m
    BY <1>2, <2>1 DEF SendList, TypedAtWork, PatchTypeOK
  <2>. QED  BY <2>2, <2>3 DEF TypedAtWork, HasSubject
<1>3. PatchOperatorStep => UNCHANGED <<patchPass, beat>>
  BY DEF PatchOperatorStep, CreateRun, CancelRun, RetryFailed, DeleteRecord, MergeRecords, EraseRecord,
         ForgetPatches, RenamePatches
<1>4. ASSUME NEW m \in Machine, PatchMachineStep(m)
      PROVE  \/ UNCHANGED <<patchPass, beat>>
             \/ \E b \in Beat, lost \in BOOLEAN : SendList(m, b, lost)
  BY <1>4 DEF PatchMachineStep, AgentTakes, Install, UpdateGoes, Search, patchHistory
<1>5. \A c \in Command : LapseInstall(c) \/ (\E a \in Agent : AgentAnswers(a, c))
                           => UNCHANGED <<patchPass, beat>>
  BY DEF LapseInstall, AgentAnswers
<1>. QED  BY <1>1, <1>2, <1>3, <1>4, <1>5

\* Every step keeps both.
LEMMA NextKeepsTypes ==
  ASSUME TypedAtWork, [PatchNext]_patchVars
  PROVE  TypedAtWork'
<1>1. CASE UNCHANGED patchVars
  BY <1>1, PatchQueueUntouched
     DEF patchVars, patchTables, patchAgents, patchHistory, TypedAtWork, PatchTypeOK, HasSubject
<1>2. CASE PatchPassStep
  BY <1>2, PassKeepsTypes, PassKeepsSubject DEF TypedAtWork
<1>3. CASE \E b \in Beat : BeatStep(b)
  BY <1>3, BeatKeepsTypes, BeatKeepsSubject DEF TypedAtWork
<1>4. CASE \/ PatchOperatorStep
           \/ \E m \in Machine : PatchMachineStep(m)
           \/ \E c \in Command : LapseInstall(c) \/ \E a \in Agent : AgentAnswers(a, c)
  BY <1>4, OperatorsKeepTypes, MachineKeepsTypes, CommandKeepsTypes, OthersKeepSubject DEF TypedAtWork
<1>. QED  BY <1>1, <1>2, <1>3, <1>4 DEF PatchNext

\* All values have their kinds in every state of a patch run.
THEOREM PatchTypes == PatchSpec => []PatchTypeOK
<1>1. PatchInit => TypedAtWork
  BY PatchInitTyped DEF TypedAtWork, PatchInit, HasSubject, Acting, NoPass, NoBeat
<1>2. TypedAtWork /\ [PatchNext]_patchVars => TypedAtWork'
  BY NextKeepsTypes
<1>3. TypedAtWork => PatchTypeOK
  BY DEF TypedAtWork
<1>. QED  BY <1>1, <1>2, <1>3, PTL DEF PatchSpec

-------------------------------------------------------------------------------
(* What is recorded as applied is gone: no list that is stored, on its way *)
(* or under comparison leaves out an update the machine still lacks.       *)

Comparing == {"ingest", "replace", "items", "mark"}

ListsCover ==
    /\ \A m \in Machine \ unsure : lacks[m] \subseteq offered[m]
    /\ \A m \in Machine \ unsure : \A list \in scan[m] : lacks[m] \subseteq list
    /\ \A b \in Beat : beat[b].pc \in Comparing /\ beat[b].of \notin unsure
                         => lacks[beat[b].of] \subseteq beat[b].list

\* A delete or a merge that is half done has made its machines unsure.
RemovedAreUnsure == \A o \in leaving : o[2] \in unsure /\ o[3] \in unsure

Truthful == ListsCover /\ RemovedAreUnsure /\ AppliedIsGone

\* The facts depend on these variables only.
LEMMA ElsewhereIsTruthful ==
  ASSUME TypedAtWork, Truthful, UNCHANGED <<items, offered, beat, scan, lacks, leaving, unsure>>
  PROVE  Truthful'
BY DEF Truthful, ListsCover, RemovedAreUnsure, AppliedIsGone

\* A half-done delete or merge is the only operation that moves lists about.
LEMMA OperatorsAreTruthful ==
  ASSUME TypedAtWork, Truthful, PatchOperatorStep
  PROVE  Truthful'
<1>0. /\ items \in [Machine -> [Update -> ItemStatus]] /\ offered \in [Machine -> SUBSET Update]
      /\ unsure \subseteq Machine
  BY DEF TypedAtWork, PatchTypeOK
<1>1. ASSUME CancelRun \/ RetryFailed \/ \E M \in SUBSET Machine : CreateRun(M)  PROVE Truthful'
  BY <1>1, ElsewhereIsTruthful DEF CancelRun, RetryFailed, CreateRun, patchAgents, patchHistory
<1>2. ASSUME NEW m \in Machine, NEW n \in Machine, NEW k, EraseRecord(m, <<k, m, n>>)
      PROVE  Truthful'
  <2>1. unsure' = unsure \cup {m, n} /\ leaving' = leaving \cup {<<k, m, n>>}
    <3>1. {<<k, m, n>>[i] : i \in 2..3} = {m, n}
      OBVIOUS
    <3>. QED  BY <1>2, <3>1 DEF EraseRecord
  <2>2. UNCHANGED <<items, offered, beat, scan, lacks>>
    BY <1>2 DEF EraseRecord, patchTables, patchAgents
  <2>. QED  BY <2>1, <2>2 DEF Truthful, ListsCover, RemovedAreUnsure, AppliedIsGone
<1>3. ASSUME NEW m \in Machine, ForgetPatches(m)  PROVE Truthful'
  <2>1. m \in unsure
    BY <1>3 DEF ForgetPatches, Truthful, RemovedAreUnsure
  <2>2. \A n \in Machine \ unsure : offered'[n] = offered[n]
    BY <1>0, <1>3, <2>1 DEF ForgetPatches
  <2>3. leaving' \subseteq leaving /\ UNCHANGED <<items, beat, scan, lacks, unsure>>
    BY <1>3 DEF ForgetPatches, patchAgents
  <2>. QED  BY <2>2, <2>3 DEF Truthful, ListsCover, RemovedAreUnsure, AppliedIsGone
<1>4. ASSUME NEW m \in Machine, NEW n \in Machine, RenamePatches(m, n)  PROVE Truthful'
  <2>1. m \in unsure /\ n \in unsure
    BY <1>4 DEF RenamePatches, Truthful, RemovedAreUnsure
  <2>2. \A o \in Machine \ unsure : offered'[o] = offered[o] /\ items'[o] = items[o]
    BY <1>0, <1>4, <2>1 DEF RenamePatches
  <2>3. leaving' \subseteq leaving /\ UNCHANGED <<beat, scan, lacks, unsure>>
    BY <1>4 DEF RenamePatches, patchAgents
  <2>. QED  BY <2>2, <2>3 DEF Truthful, ListsCover, RemovedAreUnsure, AppliedIsGone
<1>. QED
  BY <1>1, <1>2, <1>3, <1>4 DEF PatchOperatorStep, DeleteRecord, MergeRecords

\* Marking with a list that covers what the machine lacks.
LEMMA MarksAreTrue ==
  ASSUME TypedAtWork, AppliedIsGone, UNCHANGED <<lacks, unsure>>,
         NEW m \in Machine, NEW gone, MarkItems(m, gone),
         m \in unsure \/ gone \cap lacks[m] = {}
  PROVE  AppliedIsGone'
BY DEF TypedAtWork, PatchTypeOK, AppliedIsGone, MarkItems

\* The scheduler records no update as applied.
LEMMA PassIsTruthful ==
  ASSUME TypedAtWork, Truthful, PatchPassStep
  PROVE  Truthful'
<1>1. UNCHANGED <<offered, beat, scan, lacks, leaving, unsure>>
  BY DEF PatchPassStep, PatchTick, ReadUnderWay, GiveUpItems, WriteStatus, ReadDue, ClaimPatching,
         RecordItems, QueueInstall, RecordInstall, PatchPassOver, PatchPassDies, JudgeAttempt,
         JudgeStale, NotDispatched, Resolve, patchTables, patchAgents, patchHistory
<1>2. ListsCover' /\ RemovedAreUnsure'
  BY <1>1 DEF Truthful, ListsCover, RemovedAreUnsure
<1>3. CASE GiveUpItems
  BY <1>1, <1>2, <1>3, MarksAreTrue DEF GiveUpItems, Truthful, TypedAtWork, HasSubject, Acting, PassAt
<1>4. CASE RecordItems
  BY <1>1, <1>2, <1>4 DEF RecordItems, Truthful, AppliedIsGone, TypedAtWork, PatchTypeOK
<1>5. ASSUME ~GiveUpItems, ~RecordItems  PROVE UNCHANGED items
  BY <1>5 DEF PatchPassStep, PatchTick, ReadUnderWay, WriteStatus, ReadDue, ClaimPatching,
         QueueInstall, RecordInstall, PatchPassOver, PatchPassDies, JudgeAttempt,
         JudgeStale, NotDispatched, Resolve, patchTables
<1>. QED  BY <1>1, <1>3, <1>4, <1>5, ElsewhereIsTruthful

\* A heartbeat's thread stores a list that covers, and marks against one.
LEMMA BeatIsTruthful ==
  ASSUME TypedAtWork, Truthful, NEW b \in Beat, BeatStep(b)
  PROVE  Truthful'
<1>0. /\ beat \in [Beat -> BeatRecord] /\ beat[b] \in BeatRecord
      /\ offered \in [Machine -> SUBSET Update]
      /\ beat[b].of \in Machine
      /\ UNCHANGED <<scan, lacks, leaving, unsure>>
  BY DEF TypedAtWork, PatchTypeOK, BeatRecord, HasSubject, BeatStep, BeatAt, ReadExisting, Ingest,
         ReadStaged, ReadOffered, ReadItems, ConfirmItems, CloseTarget, patchAgents, patchHistory
<1>1. \A o \in Beat \ {b} : beat'[o] = beat[o]
  BY <1>0 DEF BeatStep, ReadExisting, Ingest, ReadStaged, ReadOffered, ReadItems, ConfirmItems,
              CloseTarget, BeatOver, BeatGoes
<1>2. ASSUME UNCHANGED <<items, offered>>,
             beat'[b].pc \in Comparing => /\ beat'[b].of = beat[b].of
                                          /\ \/ beat'[b].list = beat[b].list /\ beat[b].pc \in Comparing
                                             \/ beat'[b].list = offered[beat[b].of]
      PROVE  Truthful'
  BY <1>0, <1>1, <1>2 DEF Truthful, ListsCover, RemovedAreUnsure, AppliedIsGone
<1>3. CASE ReadExisting(b)
  <2>1. beat'[b].of = beat[b].of /\ beat'[b].list = beat[b].list /\ beat[b].pc \in Comparing
    BY <1>0, <1>3 DEF ReadExisting, BeatAt, Comparing, BeatRecord
  <2>. QED  BY <1>2, <1>3, <2>1 DEF ReadExisting, patchTables
<1>4. CASE Ingest(b)
  <2>1. beat'[b].pc = "confirm" /\ "confirm" \notin Comparing
    BY <1>0, <1>4 DEF Ingest, NoBeat, Comparing
  <2>2. beat[b].pc \in Comparing
    BY <1>4 DEF Ingest, BeatAt, Comparing
  <2>3. beat[b].of \notin unsure => lacks[beat[b].of] \subseteq offered'[beat[b].of]
    BY <1>0, <1>4, <2>2 DEF Ingest, Truthful, ListsCover
  <2>4. \A m \in Machine \ {beat[b].of} : offered'[m] = offered[m]
    BY <1>0, <1>4 DEF Ingest
  <2>5. UNCHANGED items
    BY <1>4 DEF Ingest
  <2>. QED
    BY <1>0, <1>1, <2>1, <2>3, <2>4, <2>5 DEF Truthful, ListsCover, RemovedAreUnsure, AppliedIsGone
<1>5. ASSUME BeatOver(b), UNCHANGED <<items, offered>>  PROVE Truthful'
  <2>1. beat'[b].pc \notin Comparing
    BY <1>0, <1>5 DEF BeatOver, NoBeat, Comparing
  <2>. QED  BY <1>2, <1>5, <2>1
<1>6. CASE ReadStaged(b)
  <2>1. CASE BeatGoes(b, "offered")
    <3>1. beat'[b].pc \notin Comparing
      BY <1>0, <2>1 DEF BeatGoes, Comparing, BeatRecord
    <3>. QED  BY <1>2, <1>6, <3>1 DEF ReadStaged, patchTables
  <2>. QED  BY <1>5, <1>6, <2>1 DEF ReadStaged, patchTables
<1>7. CASE ReadOffered(b)
  <2>1. beat'[b].of = beat[b].of /\ beat'[b].list = offered[beat[b].of]
    BY <1>0, <1>7 DEF ReadOffered, BeatRecord
  <2>. QED  BY <1>2, <1>7, <2>1 DEF ReadOffered, patchTables
<1>8. CASE ReadItems(b)
  <2>1. ASSUME NEW tried, beat' = [beat EXCEPT ![b].pc = "mark", ![b].tried = tried]
        PROVE  beat'[b].of = beat[b].of /\ beat'[b].list = beat[b].list
    BY <1>0, <2>1 DEF BeatRecord
  <2>2. beat[b].pc \in Comparing
    BY <1>8 DEF ReadItems, BeatAt, Comparing
  <2>. QED  BY <1>2, <1>5, <1>8, <2>1, <2>2 DEF ReadItems, patchTables
<1>9. CASE ConfirmItems(b)
  <2>1. beat'[b].pc = "close" /\ "close" \notin Comparing
    BY <1>0, <1>9 DEF ConfirmItems, BeatGoes, Comparing, BeatRecord
  <2>2. beat[b].of \in unsure \/ (beat[b].tried \ beat[b].list) \cap lacks[beat[b].of] = {}
    BY <1>0, <1>9 DEF ConfirmItems, BeatAt, Comparing, Truthful, ListsCover
  <2>3. AppliedIsGone'
    BY <1>0, <1>9, <2>2, MarksAreTrue DEF ConfirmItems, Truthful
  <2>4. UNCHANGED offered
    BY <1>9 DEF ConfirmItems
  <2>. QED  BY <1>0, <1>1, <2>1, <2>3, <2>4 DEF Truthful, ListsCover, RemovedAreUnsure
<1>10. CASE CloseTarget(b)
  BY <1>5, <1>10 DEF CloseTarget
<1>. QED
  BY <1>3, <1>4, <1>6, <1>7, <1>8, <1>9, <1>10 DEF BeatStep

\* A machine lacks less with time, and a search lists all it lacks, or fails.
LEMMA MachineIsTruthful ==
  ASSUME TypedAtWork, Truthful, NEW m \in Machine, PatchMachineStep(m)
  PROVE  Truthful'
<1>0. /\ beat \in [Beat -> BeatRecord] /\ scan \in [Machine -> SUBSET SUBSET Update]
      /\ lacks \in [Machine -> SUBSET Update] /\ unsure \subseteq Machine
  BY DEF TypedAtWork, PatchTypeOK, BeatRecord
<1>1. ASSUME \/ \E a \in Agent : AgentTakes(a, m)
             \/ \E c \in Command, ends \in BOOLEAN : Install(c, m, ends)
      PROVE  Truthful'
  BY <1>1, ElsewhereIsTruthful DEF AgentTakes, Install, patchTables, patchHistory
<1>2. ASSUME NEW u \in Update, UpdateGoes(m, u)  PROVE Truthful'
  <2>1. \A n \in Machine : lacks'[n] \subseteq lacks[n]
    BY <1>0, <1>2 DEF UpdateGoes
  <2>2. UNCHANGED <<items, offered, beat, scan, leaving, unsure>>
    BY <1>2 DEF UpdateGoes, patchTables, patchHistory
  <2>3. \A b \in Beat : beat[b].pc \in Comparing => beat[b].of \in Machine
    BY DEF TypedAtWork, HasSubject, Comparing
  <2>4. ListsCover' /\ RemovedAreUnsure'
    BY <2>1, <2>2, <2>3 DEF Truthful, ListsCover, RemovedAreUnsure
  <2>5. AppliedIsGone'
    BY <2>1, <2>2 DEF Truthful, AppliedIsGone
  <2>. QED  BY <2>4, <2>5 DEF Truthful
<1>3. ASSUME NEW fails \in BOOLEAN, Search(m, fails)  PROVE Truthful'
  <2>1. UNCHANGED <<items, offered, beat, lacks, leaving>> /\ unsure \subseteq unsure'
    BY <1>3 DEF Search, patchTables
  <2>2. m \in unsure' \/ \A list \in scan'[m] : lacks[m] \subseteq list
    BY <1>0, <1>3 DEF Search
  <2>3. \A n \in Machine \ {m} : scan'[n] = scan[n]
    BY <1>0, <1>3 DEF Search
  <2>. QED  BY <2>1, <2>2, <2>3 DEF Truthful, ListsCover, RemovedAreUnsure, AppliedIsGone
<1>4. ASSUME NEW b \in Beat, NEW lost \in BOOLEAN, SendList(m, b, lost)  PROVE Truthful'
  <2>1. UNCHANGED <<items, offered, lacks, leaving, unsure>>
    BY <1>4 DEF SendList, patchTables, patchHistory
  <2>2. \A n \in Machine : scan'[n] \subseteq scan[n]
    BY <1>0, <1>4 DEF SendList
  <2>3. m \notin unsure => lacks[m] \subseteq UNION scan[m]
    BY <1>4 DEF SendList, Truthful, ListsCover
  <2>4. \A o \in Beat : \/ beat'[o] = beat[o]
                        \/ beat'[o].of = m /\ beat'[o].list = UNION scan[m]
    BY <1>0, <1>4 DEF SendList, NoBeat
  <2>. QED
    BY <2>1, <2>2, <2>3, <2>4 DEF Truthful, ListsCover, RemovedAreUnsure, AppliedIsGone
<1>. QED  BY <1>1, <1>2, <1>3, <1>4 DEF PatchMachineStep

\* Every step keeps the lists, and what is recorded of them, true.
LEMMA NextIsTruthful ==
  ASSUME TypedAtWork, Truthful, [PatchNext]_patchVars
  PROVE  Truthful'
<1>1. CASE UNCHANGED patchVars
  BY <1>1, ElsewhereIsTruthful DEF patchVars, patchTables, patchAgents, patchHistory
<1>2. CASE PatchPassStep                            BY <1>2, PassIsTruthful
<1>3. CASE PatchOperatorStep                        BY <1>3, OperatorsAreTruthful
<1>4. CASE \E m \in Machine : PatchMachineStep(m)   BY <1>4, MachineIsTruthful
<1>5. CASE \E b \in Beat : BeatStep(b)              BY <1>5, BeatIsTruthful
<1>6. CASE \E c \in Command : LapseInstall(c) \/ \E a \in Agent : AgentAnswers(a, c)
  BY <1>6, ElsewhereIsTruthful DEF LapseInstall, AgentAnswers, patchTables, patchAgents, patchHistory
<1>. QED  BY <1>1, <1>2, <1>3, <1>4, <1>5, <1>6 DEF PatchNext

\* "An install is confirmed by re-reading inventory, never by an exit code":
\* no update is recorded as applied that the machine lacks.
THEOREM NoFalseApplied == PatchSpec => []AppliedIsGone
<1> DEFINE TruthfulAtWork == TypedAtWork /\ Truthful
<1>1. PatchInit => TruthfulAtWork
  <2>1. PatchInit => TypedAtWork
    BY PatchInitTyped DEF TypedAtWork, PatchInit, HasSubject, Acting, NoPass, NoBeat
  <2>2. PatchInit => Truthful
    BY DEF PatchInit, Truthful, ListsCover, RemovedAreUnsure, AppliedIsGone, NoBeat, Comparing
  <2>. QED  BY <2>1, <2>2
<1>2. TruthfulAtWork /\ [PatchNext]_patchVars => TruthfulAtWork'
  BY NextKeepsTypes, NextIsTruthful
<1>3. TruthfulAtWork => AppliedIsGone
  BY DEF Truthful
<1>. QED  BY <1>1, <1>2, <1>3, PTL DEF PatchSpec

-------------------------------------------------------------------------------
(* A run that says complete is over.                                       *)

\* A roll-up says complete of rows that are all terminal.
LEMMA RollUpIsTrue ==
  ASSUME NEW was, NEW rows, RunOf(was, rows) = "complete", NEW m \in TargetsIn(rows)
  PROVE  rows[m].status \in TargetTerminal
BY DEF RunOf

\* Whoever writes a row rolls the run up in the same transaction, or finds it open.
LEMMA NextKeepsRunIsOver ==
  ASSUME TypedAtWork, RunIsOver, [PatchNext]_patchVars
  PROVE  RunIsOver'
<1>0. patching \in [Machine -> Patching]
  BY DEF TypedAtWork, PatchTypeOK
<1>1. ASSUME NEW rows, Roll(rows)  PROVE RunIsOver'
  BY <1>1, RollUpIsTrue DEF Roll, RunIsOver
<1>2. CASE UNCHANGED <<run, patching>>
  BY <1>2 DEF RunIsOver, TargetsIn
<1>3. ASSUME NEW M \in SUBSET Machine, CreateRun(M)  PROVE RunIsOver'
  BY <1>3 DEF CreateRun, RunIsOver
<1>4. CASE CancelRun
  BY <1>4 DEF CancelRun, RunIsOver
<1>5. CASE RetryFailed
  BY <1>5, RollUpIsTrue DEF RetryFailed, RunIsOver
<1>6. ASSUME NEW m \in Machine, ForgetPatches(m)  PROVE RunIsOver'
  <2>1. CASE patching[m].status = "none"
    <3>1. UNCHANGED run /\ \A n \in Machine : patching'[n] = patching[n] \/ patching'[n].status = "none"
      BY <1>0, <1>6, <2>1 DEF ForgetPatches, NoPatching
    <3>. QED  BY <3>1 DEF RunIsOver, TargetsIn
  <2>2. CASE patching[m].status # "none"
    BY <1>6, <2>2, RollUpIsTrue DEF ForgetPatches, RunIsOver
  <2>. QED  BY <2>1, <2>2
<1>7. ASSUME NEW m \in Machine, NEW n \in Machine, RenamePatches(m, n)  PROVE RunIsOver'
  <2>1. UNCHANGED run /\ \A o \in Machine : \/ patching'[o] = patching[o]
                                            \/ patching'[o] = patching[m]
                                            \/ patching'[o].status = "none"
    BY <1>0, <1>7 DEF RenamePatches, NoPatching
  <2>. QED  BY <2>1 DEF RunIsOver, TargetsIn
<1>8. CASE WriteStatus \/ RecordInstall
  BY <1>1, <1>8 DEF WriteStatus, RecordInstall
<1>9. CASE ClaimPatching
  <2>1. CASE patching[patchPass.at].status = "pending"
    <3>1. run # "complete"
      BY <2>1, <1>9, <1>0 DEF ClaimPatching, PassAt, RunIsOver, TargetsIn, TargetTerminal, TypedAtWork,
                              HasSubject, Acting
    <3>. QED  BY <3>1, <1>9 DEF ClaimPatching, RunIsOver
  <2>. QED  BY <1>2, <1>9, <2>1 DEF ClaimPatching
<1>10. ASSUME NEW b \in Beat, BeatStep(b)  PROVE RunIsOver'
  <2>1. CASE CloseTarget(b)
    BY <1>1, <2>1 DEF CloseTarget
  <2>2. ~CloseTarget(b) => UNCHANGED <<run, patching>>
    BY <1>10 DEF BeatStep, ReadExisting, Ingest, ReadStaged, ReadOffered, ReadItems, ConfirmItems,
                 patchTables
  <2>. QED  BY <1>2, <2>1, <2>2
<1>11. ASSUME NEW m \in Machine, \/ PatchMachineStep(m) \/ DeleteRecord(m)
                                 \/ \E n \in Machine : MergeRecords(m, n)
       PROVE  RunIsOver'
  BY <1>2, <1>11 DEF PatchMachineStep, AgentTakes, Install, UpdateGoes, Search, SendList, DeleteRecord,
                     MergeRecords, EraseRecord, patchTables
<1>12. ASSUME NEW c \in Command, LapseInstall(c) \/ \E a \in Agent : AgentAnswers(a, c)
       PROVE  RunIsOver'
  BY <1>2, <1>12 DEF LapseInstall, AgentAnswers, patchTables
<1>13. CASE PatchPassStep
  <2>1. WriteStatus \/ RecordInstall \/ ClaimPatching \/ UNCHANGED <<run, patching>>
    BY <1>13 DEF PatchPassStep, PatchTick, ReadUnderWay, GiveUpItems, ReadDue, RecordItems, QueueInstall,
         PatchPassOver, PatchPassDies, JudgeAttempt, JudgeStale, NotDispatched, Resolve, patchTables
  <2>. QED  BY <1>2, <1>8, <1>9, <2>1
<1>14. CASE UNCHANGED patchVars
  BY <1>2, <1>14 DEF patchVars, patchTables
<1>. QED
  BY <1>3, <1>4, <1>5, <1>6, <1>7, <1>10, <1>11, <1>12, <1>13, <1>14 DEF PatchNext, PatchOperatorStep

\* Whoever wrote a target last, and from how old a reading, a run that says
\* complete has none under way.
THEOREM RunStaysOver == PatchSpec => []RunIsOver
<1> DEFINE OverAtWork == TypedAtWork /\ RunIsOver
<1>1. PatchInit => OverAtWork
  BY PatchInitTyped DEF TypedAtWork, PatchInit, HasSubject, Acting, NoPass, NoBeat, RunIsOver
<1>2. OverAtWork /\ [PatchNext]_patchVars => OverAtWork'
  BY NextKeepsTypes, NextKeepsRunIsOver
<1>3. OverAtWork => RunIsOver
  OBVIOUS
<1>. QED  BY <1>1, <1>2, <1>3, PTL DEF PatchSpec

-------------------------------------------------------------------------------
(* Attempts are spent before commands are queued.                          *)

\* The commands a machine has been given, and the one that is paid for but
\* not yet queued.
Issued(m) == {c \in Command : machine[c] = m}
Upcoming(m) == IF patchPass.pc \in {"items", "queue"} /\ patchPass.at = m THEN 1 ELSE 0

FinitelyMany == \A m \in Machine : IsFiniteSet(Issued(m))

Paid == \A m \in Machine \ unsure :
    /\ patching[m].attempts <= PatchAttempts
    /\ Cardinality(Issued(m)) + Upcoming(m) <= PatchAttempts * rearmed + patching[m].attempts

\* What the scheduler has read of a machine's attempts is not too little: it
\* alone adds to them, to a machine it is done with reading about.
ReadEnough ==
    /\ \A s, t \in patchPass.todo : s.of = t.of => s = t
    /\ \A s \in patchPass.todo : s.of \notin unsure => patching[s.of].attempts <= s.row.attempts
    /\ patchPass.pc \in Acting => \A s \in patchPass.todo : s.of # patchPass.at
    /\ patchPass.pc = "claim" /\ patchPass.at \notin unsure
         => patching[patchPass.at].attempts < PatchAttempts

\* Without a run there are no targets.
NothingBefore == run = "none" => \A m \in Machine : patching[m] = NoPatching

Thrifty == FinitelyMany /\ Paid /\ ReadEnough /\ NothingBefore

\* What the numbers are.
LEMMA Numbers ==
  ASSUME TypedAtWork, FinitelyMany
  PROVE  /\ \A m \in Machine : patching[m] \in Patching /\ patching[m].attempts \in Nat
         /\ \A m \in Machine : Cardinality(Issued(m)) \in Nat
         /\ \A s \in patchPass.todo : s.of \in Machine /\ s.row.attempts \in Nat
         /\ rearmed \in Nat /\ PatchAttempts \in Nat /\ PatchAttempts * rearmed \in Nat
<1>1. \A m \in Machine : patching[m] \in Patching /\ patching[m].attempts \in Nat
  BY DEF TypedAtWork, PatchTypeOK, Patching
<1>2. \A m \in Machine : Cardinality(Issued(m)) \in Nat
  BY FS_CardinalityType DEF FinitelyMany
<1>3. patchPass.todo \in SUBSET PassRow
  BY DEF TypedAtWork, PatchTypeOK
<1>4. \A s \in patchPass.todo : s.of \in Machine /\ s.row.attempts \in Nat
  BY <1>3 DEF PassRow, Patching
<1>5. rearmed \in Nat /\ PatchAttempts \in Nat
  BY DEF TypedAtWork, PatchTypeOK
<1>6. PatchAttempts * rearmed \in Nat
  BY <1>5
<1>. QED  BY <1>1, <1>2, <1>4, <1>5, <1>6

\* A command more, and the commands of a machine that go.
LEMMA OneCommandMore ==
  ASSUME TypedAtWork, FinitelyMany, NEW c \in Command, NEW m \in Machine,
         machine' = [machine EXCEPT ![c] = m]
  PROVE  /\ FinitelyMany'
         /\ Cardinality(Issued(m)') <= Cardinality(Issued(m)) + 1
         /\ \A n \in Machine \ {m} : Cardinality(Issued(n)') <= Cardinality(Issued(n))
<1>0. machine \in [Command -> Machine \cup {NoMachine}]
  BY DEF TypedAtWork, PatchTypeOK, QueueTypeOK
<1>1. Issued(m)' = Issued(m) \cup {c}
  BY <1>0 DEF Issued
<1>2. \A n \in Machine \ {m} : Issued(n)' \subseteq Issued(n)
  BY <1>0 DEF Issued
<1>3. IsFiniteSet(Issued(m))
  BY DEF FinitelyMany
<1>4. IsFiniteSet(Issued(m)') /\ Cardinality(Issued(m)') <= Cardinality(Issued(m)) + 1
  <2>1. Cardinality(Issued(m)) \in Nat
    BY <1>3, FS_CardinalityType
  <2>2. CASE c \in Issued(m)
    <3>1. Issued(m)' = Issued(m)  BY <1>1, <2>2
    <3>. QED  BY <1>3, <2>1, <3>1
  <2>3. CASE c \notin Issued(m)
    <3>1. IsFiniteSet(Issued(m) \cup {c}) /\ Cardinality(Issued(m) \cup {c}) = Cardinality(Issued(m)) + 1
      BY <1>3, <2>3, FS_AddElement
    <3>. QED  BY <1>1, <2>1, <3>1
  <2>. QED  BY <2>2, <2>3
<1>5. \A n \in Machine \ {m} : IsFiniteSet(Issued(n)') /\ Cardinality(Issued(n)') <= Cardinality(Issued(n))
  BY <1>2, FS_Subset DEF FinitelyMany
<1>. QED  BY <1>4, <1>5 DEF FinitelyMany

\* When commands are removed, no machine has more than before.
LEMMA CommandsGo ==
  ASSUME FinitelyMany, \A c \in Command : machine'[c] = machine[c] \/ machine'[c] = NoMachine
  PROVE  FinitelyMany' /\ \A m \in Machine : Cardinality(Issued(m)') <= Cardinality(Issued(m))
<1>1. \A m \in Machine : Issued(m)' \subseteq Issued(m)
  BY DEF Issued
<1>2. \A m \in Machine : IsFiniteSet(Issued(m)') /\ Cardinality(Issued(m)') <= Cardinality(Issued(m))
  BY <1>1, FS_Subset DEF FinitelyMany
<1>. QED  BY <1>2 DEF FinitelyMany

\* A step of the scheduler that only reads, or records outcomes.
LEMMA ReadingIsThrifty ==
  ASSUME TypedAtWork, TypedAtWork', Thrifty, UNCHANGED <<machine, run, patching, rearmed, unsure>>,
         \/ /\ patchPass'.pc \notin Acting
            /\ \/ patchPass'.todo \subseteq patchPass.todo
               \/ \E M \in SUBSET Machine : patchPass'.todo = Rows(M)
         \/ /\ patchPass'.todo = patchPass.todo /\ patchPass'.at = patchPass.at
            /\ patchPass.pc \in Acting /\ patchPass'.pc # "claim"
            /\ patchPass'.pc \in {"items", "queue"} => patchPass.pc \in {"items", "queue"}
         \/ \E s \in patchPass.todo :
            /\ patchPass'.todo = patchPass.todo \ {s} /\ patchPass'.at = s.of
            /\ patchPass'.pc \in {"giveUp", "write", "claim"}
            /\ patchPass'.pc = "claim" => s.row.attempts < PatchAttempts
  PROVE  Thrifty'
<1>1. FinitelyMany' /\ NothingBefore'
  BY DEF Thrifty, FinitelyMany, NothingBefore, Issued
<1>2. \A m \in Machine : Issued(m)' = Issued(m)
  BY DEF Issued
<1>3. \A m \in Machine : Upcoming(m)' = Upcoming(m) \/ Upcoming(m)' = 0
  BY DEF Upcoming, Acting
<1>4. Paid'
  <2>1. \A m \in Machine : Upcoming(m) \in {0, 1} /\ Upcoming(m)' <= Upcoming(m)
    BY <1>3 DEF Upcoming
  <2>2. ASSUME NEW m \in Machine \ unsure
        PROVE  Cardinality(Issued(m)') + Upcoming(m)' <= PatchAttempts * rearmed + patching[m].attempts
    <3>1. Cardinality(Issued(m)) + Upcoming(m) <= PatchAttempts * rearmed + patching[m].attempts
      BY DEF Thrifty, Paid
    <3>2. PatchAttempts * rearmed \in Nat /\ patching[m].attempts \in Nat /\ Cardinality(Issued(m)) \in Nat
      BY Numbers DEF Thrifty
    <3>3. Upcoming(m) \in {0, 1} /\ Upcoming(m)' \in {0, 1} /\ Upcoming(m)' <= Upcoming(m)
      BY <2>1 DEF Upcoming
    <3>4. Cardinality(Issued(m)') = Cardinality(Issued(m))
      BY <1>2
    <3>. QED  BY <3>1, <3>2, <3>3, <3>4
  <2>. QED  BY <2>2 DEF Thrifty, Paid
<1>5. ReadEnough'
  <2>1. CASE patchPass'.todo \subseteq patchPass.todo /\ patchPass'.pc \notin Acting
    BY <2>1 DEF Thrifty, ReadEnough, Acting
  <2>2. ASSUME NEW M \in SUBSET Machine, patchPass'.todo = Rows(M), patchPass'.pc \notin Acting
        PROVE  ReadEnough'
    <3>1. \A s \in Rows(M) : s.row = patching[s.of] /\ s.of \in Machine /\ s = [of |-> s.of, row |-> s.row]
      BY DEF Rows
    <3>2. \A s \in Rows(M) : patching[s.of].attempts <= s.row.attempts
      BY <3>1, Numbers DEF Thrifty
    <3>3. \A s, t \in Rows(M) : s.of = t.of => s = t
      BY <3>1
    <3>. QED  BY <2>2, <3>2, <3>3 DEF ReadEnough, Acting
  <2>3. CASE /\ patchPass'.todo = patchPass.todo /\ patchPass'.at = patchPass.at
             /\ patchPass.pc \in Acting /\ patchPass'.pc # "claim"
    BY <2>3 DEF Thrifty, ReadEnough
  <2>4. ASSUME NEW s \in patchPass.todo, patchPass'.todo = patchPass.todo \ {s}, patchPass'.at = s.of,
               patchPass'.pc = "claim" => s.row.attempts < PatchAttempts
        PROVE  ReadEnough'
    <3>1. s.of \notin unsure /\ s.row.attempts < PatchAttempts => patching[s.of].attempts < PatchAttempts
      BY Numbers DEF Thrifty, ReadEnough
    <3>. QED  BY <2>4, <3>1 DEF Thrifty, ReadEnough
  <2>. QED  BY <2>1, <2>2, <2>3, <2>4
<1>. QED  BY <1>1, <1>4, <1>5 DEF Thrifty

\* A machine stays paid for if it is given no more than is paid.
LEMMA StaysPaid ==
  ASSUME TypedAtWork, TypedAtWork', Thrifty, FinitelyMany', UNCHANGED rearmed, NEW m \in Machine \ unsure,
         Cardinality(Issued(m)') + Upcoming(m)' - patching'[m].attempts
           <= Cardinality(Issued(m)) + Upcoming(m) - patching[m].attempts
  PROVE  Cardinality(Issued(m)') + Upcoming(m)' <= PatchAttempts * rearmed' + patching'[m].attempts
<1>1. Cardinality(Issued(m)) + Upcoming(m) <= PatchAttempts * rearmed + patching[m].attempts
  BY DEF Thrifty, Paid
<1>2. PatchAttempts * rearmed \in Nat /\ patching[m].attempts \in Nat /\ Cardinality(Issued(m)) \in Nat
  BY Numbers DEF Thrifty
<1>3. patching'[m].attempts \in Nat
  BY DEF TypedAtWork, PatchTypeOK, Patching
<1>4. Cardinality(Issued(m)') \in Nat
  BY FS_CardinalityType DEF FinitelyMany
<1>5. Upcoming(m) \in {0, 1} /\ Upcoming(m)' \in {0, 1}
  BY DEF Upcoming
<1>. QED  BY <1>1, <1>2, <1>3, <1>4, <1>5

\* A step of somebody else that leaves the attempts alone.
LEMMA OthersAreThrifty ==
  ASSUME TypedAtWork, TypedAtWork', Thrifty, UNCHANGED <<patchPass, rearmed>>, unsure \subseteq unsure',
         \A c \in Command : machine'[c] = machine[c] \/ machine'[c] = NoMachine,
         \A m \in Machine \ unsure' : patching'[m].attempts = patching[m].attempts,
         NothingBefore'
  PROVE  Thrifty'
<1>1. FinitelyMany' /\ \A m \in Machine : Cardinality(Issued(m)') <= Cardinality(Issued(m))
  BY CommandsGo DEF Thrifty
<1>2. \A m \in Machine : Upcoming(m)' = Upcoming(m)
  BY DEF Upcoming
<1>3. Paid'
  <2>1. ASSUME NEW m \in Machine \ unsure'
        PROVE  Cardinality(Issued(m)') + Upcoming(m)' <= PatchAttempts * rearmed' + patching'[m].attempts
    <3>1. Upcoming(m) \in {0, 1} /\ patching[m].attempts \in Nat /\ Cardinality(Issued(m)) \in Nat
      BY Numbers DEF Thrifty, Upcoming
    <3>2. Cardinality(Issued(m)') \in Nat
      BY <1>1, FS_CardinalityType DEF FinitelyMany
    <3>. QED  BY <1>1, <1>2, <3>1, <3>2, StaysPaid
  <2>. QED  BY <2>1 DEF Thrifty, Paid
<1>4. ReadEnough'
  <2>1. \A s \in patchPass.todo : s.of \in Machine
    BY Numbers DEF Thrifty
  <2>2. patchPass.pc = "claim" => patchPass.at \in Machine
    BY DEF TypedAtWork, HasSubject, Acting
  <2>. QED  BY <2>1, <2>2 DEF Thrifty, ReadEnough
<1>. QED  BY <1>1, <1>3, <1>4 DEF Thrifty

\* A retry buys as many attempts as a target can have spent.
LEMMA RetryIsThrifty ==
  ASSUME TypedAtWork, TypedAtWork', Thrifty, RetryFailed
  PROVE  Thrifty'
<1>1. FinitelyMany' /\ \A m \in Machine : Issued(m)' = Issued(m) /\ Upcoming(m)' = Upcoming(m)
  BY DEF RetryFailed, queueVars, Thrifty, FinitelyMany, Issued, Upcoming
<1>2. \A m \in Machine : patching'[m] = patching[m] \/ patching'[m].attempts = 0
  BY DEF RetryFailed, NoPatching
<1>3. rearmed' = rearmed + 1 /\ UNCHANGED <<patchPass, unsure>>
  BY DEF RetryFailed
<1>4. Paid'
  <2> SUFFICES ASSUME NEW m \in Machine \ unsure
               PROVE  /\ patching'[m].attempts <= PatchAttempts
                      /\ Cardinality(Issued(m)') + Upcoming(m)' <= PatchAttempts * rearmed' + patching'[m].attempts
    BY <1>3 DEF Paid
  <2>1. /\ Cardinality(Issued(m)) + Upcoming(m) <= PatchAttempts * rearmed + patching[m].attempts
        /\ patching[m].attempts <= PatchAttempts
    BY DEF Thrifty, Paid
  <2>2. /\ PatchAttempts * rearmed \in Nat /\ patching[m].attempts \in Nat /\ PatchAttempts \in Nat
        /\ Cardinality(Issued(m)) \in Nat /\ Upcoming(m) \in Nat /\ rearmed \in Nat
    BY Numbers DEF Thrifty, Upcoming
  <2>3. PatchAttempts * rearmed' = PatchAttempts * rearmed + PatchAttempts
    BY <1>3, <2>2
  <2>4. patching'[m].attempts = patching[m].attempts \/ patching'[m].attempts = 0
    BY <1>2
  <2>5. Cardinality(Issued(m)') + Upcoming(m)' = Cardinality(Issued(m)) + Upcoming(m)
    BY <1>1
  <2>. QED  BY <2>1, <2>2, <2>3, <2>4, <2>5
<1>5. ReadEnough'
  <2>1. \A m \in Machine : patching'[m].attempts <= patching[m].attempts
    BY <1>2, Numbers DEF Thrifty
  <2>2. \A s \in patchPass.todo : s.of \in Machine /\ s.row.attempts \in Nat
    BY Numbers DEF Thrifty
  <2>3. patchPass.pc = "claim" => patchPass.at \in Machine
    BY DEF TypedAtWork, HasSubject, Acting
  <2>4. \A m \in Machine : patching[m].attempts \in Nat /\ patching'[m].attempts \in Nat
    BY <1>2, Numbers DEF Thrifty
  <2>5. \A s \in patchPass.todo : s.of \notin unsure => patching'[s.of].attempts <= s.row.attempts
    BY <2>1, <2>2, <2>4 DEF Thrifty, ReadEnough
  <2>6. patchPass.pc = "claim" /\ patchPass.at \notin unsure
           => patching'[patchPass.at].attempts < PatchAttempts
    BY <2>1, <2>3, <2>4 DEF Thrifty, ReadEnough
  <2>. QED  BY <1>3, <2>5, <2>6 DEF Thrifty, ReadEnough
<1>6. NothingBefore'
  <2>1. run' # "none"
    BY DEF RetryFailed, RunOf
  <2>. QED  BY <2>1 DEF NothingBefore
<1>. QED  BY <1>1, <1>4, <1>5, <1>6 DEF Thrifty

\* No operator creates a command, or gives a target back what it has spent.
LEMMA OperatorsAreThrifty ==
  ASSUME TypedAtWork, TypedAtWork', RemovedAreUnsure, Thrifty, PatchOperatorStep
  PROVE  Thrifty'
<1>0. patching \in [Machine -> Patching]
  BY DEF TypedAtWork, PatchTypeOK
<1>1. ASSUME NEW M \in SUBSET Machine, CreateRun(M)  PROVE Thrifty'
  <2>1. \A m \in Machine : patching'[m].attempts = 0 /\ patching[m].attempts = 0
    BY <1>1 DEF CreateRun, Thrifty, NothingBefore, NoPatching
  <2>2. NothingBefore'
    BY <1>1 DEF CreateRun, NothingBefore
  <2>. QED  BY <1>1, <2>1, <2>2, OthersAreThrifty DEF CreateRun, queueVars, patchHistory
<1>2. CASE CancelRun
  <2>1. \A m \in Machine : patching'[m].attempts = patching[m].attempts
    BY <1>0, <1>2 DEF CancelRun, Patching
  <2>2. NothingBefore'
    BY <1>2 DEF CancelRun, NothingBefore
  <2>. QED  BY <1>2, <2>1, <2>2, OthersAreThrifty DEF CancelRun, queueVars, patchHistory
<1>3. ASSUME NEW m \in Machine, NEW op, EraseRecord(m, op)  PROVE Thrifty'
  <2>1. \A c \in Command : machine'[c] = machine[c] \/ machine'[c] = NoMachine
    BY <1>3 DEF EraseRecord, DeleteRows
  <2>2. NothingBefore'
    BY <1>3 DEF EraseRecord, patchTables, Thrifty, NothingBefore
  <2>. QED  BY <1>3, <2>1, <2>2, OthersAreThrifty DEF EraseRecord, patchTables
<1>4. ASSUME NEW m \in Machine, ForgetPatches(m)  PROVE Thrifty'
  <2>1. \A n \in Machine \ unsure : patching'[n] = patching[n]
    <3>1. m \in unsure  BY <1>4 DEF ForgetPatches, RemovedAreUnsure
    <3>. QED  BY <1>0, <1>4, <3>1 DEF ForgetPatches
  <2>2. NothingBefore'
    BY <1>0, <1>4 DEF ForgetPatches, Thrifty, NothingBefore, RunOf, NoPatching
  <2>. QED  BY <1>4, <2>1, <2>2, OthersAreThrifty DEF ForgetPatches, queueVars
<1>5. ASSUME NEW m \in Machine, NEW n \in Machine, RenamePatches(m, n)  PROVE Thrifty'
  <2>1. \A o \in Machine \ unsure : patching'[o] = patching[o]
    <3>1. m \in unsure /\ n \in unsure  BY <1>5 DEF RenamePatches, RemovedAreUnsure
    <3>. QED  BY <1>0, <1>5, <3>1 DEF RenamePatches
  <2>2. NothingBefore'
    BY <1>0, <1>5 DEF RenamePatches, Thrifty, NothingBefore, NoPatching
  <2>. QED  BY <1>5, <2>1, <2>2, OthersAreThrifty DEF RenamePatches, queueVars
<1>6. CASE RetryFailed
  BY <1>6, RetryIsThrifty
<1>. QED
  BY <1>1, <1>2, <1>3, <1>4, <1>5, <1>6 DEF PatchOperatorStep, DeleteRecord, MergeRecords

\* The scheduler pays before it queues.
LEMMA PassIsThrifty ==
  ASSUME TypedAtWork, TypedAtWork', Thrifty, PatchPassStep
  PROVE  Thrifty'
<1>0. /\ patchPass \in Pass /\ patching \in [Machine -> Patching]
      /\ patchPass.pc \in Acting => patchPass.at \in Machine
      /\ patchPass.back \notin Acting
  BY DEF TypedAtWork, PatchTypeOK, Pass, HasSubject
<1>1. UNCHANGED <<rearmed, unsure>>
  BY DEF PatchPassStep, PatchTick, ReadUnderWay, GiveUpItems, WriteStatus, ReadDue, ClaimPatching,
         RecordItems, QueueInstall, RecordInstall, PatchPassOver, PatchPassDies, JudgeAttempt,
         JudgeStale, NotDispatched, Resolve, patchHistory
<1>2. ASSUME NEW todo, NEW pc, patchPass' = [NoPass EXCEPT !.pc = pc, !.todo = todo]
      PROVE  patchPass'.pc = pc /\ patchPass'.todo = todo
  BY <1>2 DEF NoPass
<1>3. CASE PatchTick \/ ReadUnderWay \/ ReadDue \/ PatchPassOver \/ PatchPassDies
  <2>1. UNCHANGED <<machine, run, patching>>
    BY <1>3 DEF PatchTick, ReadUnderWay, ReadDue, PatchPassOver, PatchPassDies, ExpireStale, queueVars,
                patchTables
  <2>2. patchPass'.pc \notin Acting /\ (patchPass'.todo = {} \/ \E M \in SUBSET Machine : patchPass'.todo = Rows(M))
    <3>1. CASE PatchTick
      BY <3>1 DEF PatchTick, NoPass, Acting
    <3>2. CASE ReadUnderWay
      BY <1>0, <3>2 DEF ReadUnderWay, Pass, Acting
    <3>3. CASE ReadDue
      BY <1>2, <3>3 DEF ReadDue, Acting
    <3>4. CASE PatchPassOver \/ PatchPassDies
      BY <3>4 DEF PatchPassOver, PatchPassDies, NoPass, Acting
    <3>. QED  BY <1>3, <3>1, <3>2, <3>3, <3>4
  <2>. QED  BY <1>1, <2>1, <2>2, ReadingIsThrifty
<1>4. CASE GiveUpItems \/ RecordItems
  <2>1. UNCHANGED <<machine, run, patching>>
    BY <1>4 DEF GiveUpItems, RecordItems, queueVars
  <2>2. /\ patchPass'.todo = patchPass.todo /\ patchPass'.at = patchPass.at
        /\ patchPass.pc \in Acting /\ patchPass'.pc # "claim"
        /\ patchPass'.pc \in {"items", "queue"} => patchPass.pc \in {"items", "queue"}
    BY <1>0, <1>4 DEF GiveUpItems, RecordItems, Pass, PassAt, Acting
  <2>. QED  BY <1>1, <2>1, <2>2, ReadingIsThrifty
<1>5. ASSUME NEW s \in patchPass.todo, \/ JudgeAttempt(s) \/ JudgeStale(s) \/ NotDispatched(s)
                                       \/ \E updates \in SUBSET Update : Resolve(s, updates)
      PROVE  Thrifty'
  <2>1. UNCHANGED <<machine, run, patching>>
    BY <1>5 DEF JudgeAttempt, JudgeStale, NotDispatched, Resolve, queueVars, patchTables
  <2>2. patchPass.pc \in {"judge", "dispatch"}
    BY <1>5 DEF JudgeAttempt, JudgeStale, NotDispatched, Resolve, PassAt
  <2>3. CASE patchPass' = Skip(s)
    <3>1. patchPass'.todo \subseteq patchPass.todo /\ patchPass'.pc \notin Acting
      BY <1>0, <2>2, <2>3 DEF Skip, Pass, Acting
    <3>. QED  BY <1>1, <2>1, <3>1, ReadingIsThrifty
  <2>4. CASE patchPass' # Skip(s)
    <3>1. /\ patchPass'.todo = patchPass.todo \ {s} /\ patchPass'.at = s.of
          /\ patchPass'.pc \in {"giveUp", "write", "claim"}
          /\ patchPass'.pc = "claim" => s.row.attempts < PatchAttempts
      <4>1. CASE JudgeAttempt(s)    BY <1>0, <2>4, <4>1 DEF JudgeAttempt, Taking, Pass
      <4>2. CASE JudgeStale(s)      BY <1>0, <2>4, <4>2 DEF JudgeStale, Taking, Pass
      <4>3. CASE NotDispatched(s)   BY <1>0, <2>4, <4>3 DEF NotDispatched, Taking, Pass
      <4>4. ASSUME NEW updates \in SUBSET Update, Resolve(s, updates)
            PROVE  /\ patchPass'.todo = patchPass.todo \ {s} /\ patchPass'.at = s.of
                   /\ patchPass'.pc \in {"write", "claim"}
                   /\ s.row.attempts < PatchAttempts
        BY <1>0, <4>4 DEF Resolve, Taking, Pass
      <4>. QED  BY <1>5, <4>1, <4>2, <4>3, <4>4
    <3>. QED  BY <1>1, <2>1, <3>1, ReadingIsThrifty
  <2>. QED  BY <2>3, <2>4
<1>6. CASE WriteStatus \/ RecordInstall
  <2>1. \A m \in Machine : patching'[m].attempts = patching[m].attempts
    BY <1>0, <1>6 DEF WriteStatus, RecordInstall, Roll, With, Patching
  <2>2. patchPass'.pc \notin Acting /\ patchPass'.todo = patchPass.todo
    BY <1>0, <1>2, <1>6 DEF WriteStatus, RecordInstall, Acting
  <2>3. UNCHANGED machine
    BY <1>6 DEF WriteStatus, RecordInstall, queueVars
  <2>4. NothingBefore'
    BY <1>0, <1>6 DEF WriteStatus, RecordInstall, Roll, With, RunOf, Thrifty, NothingBefore, NoPatching
  <2>5. FinitelyMany' /\ \A m \in Machine : Issued(m)' = Issued(m) /\ Upcoming(m)' = 0
    BY <2>2, <2>3 DEF Thrifty, FinitelyMany, Issued, Upcoming, Acting
  <2>6. Paid'
    <3>1. ASSUME NEW m \in Machine \ unsure
          PROVE  Cardinality(Issued(m)') + Upcoming(m)' <= PatchAttempts * rearmed' + patching'[m].attempts
      <4>1. Upcoming(m) \in {0, 1} /\ patching[m].attempts \in Nat /\ Cardinality(Issued(m)) \in Nat
        BY Numbers DEF Thrifty, Upcoming
      <4>. QED  BY <1>1, <2>1, <2>5, <4>1, StaysPaid
    <3>. QED  BY <1>1, <2>1, <3>1 DEF Thrifty, Paid
  <2>7. ReadEnough'
    <3>1. \A s \in patchPass.todo : s.of \in Machine
      BY Numbers DEF Thrifty
    <3>. QED  BY <1>1, <2>1, <2>2, <3>1 DEF Thrifty, ReadEnough, Acting
  <2>. QED  BY <2>4, <2>5, <2>6, <2>7 DEF Thrifty
<1>7. CASE ClaimPatching
  <2> DEFINE at == patchPass.at
  <2>1. PassAt("claim") /\ at \in Machine /\ UNCHANGED <<machine, run>>
    BY <1>0, <1>7 DEF ClaimPatching, PassAt, Acting, queueVars
  <2>2. CASE patching[at].status # "pending"
    <3>1. patchPass'.pc = "dispatch" /\ patchPass'.todo = patchPass.todo /\ UNCHANGED patching
      BY <1>2, <1>7, <2>2 DEF ClaimPatching
    <3>. QED  BY <1>1, <2>1, <3>1, ReadingIsThrifty DEF Acting
  <2>3. CASE patching[at].status = "pending"
    <3>1. /\ patchPass'.pc = "items" /\ patchPass'.todo = patchPass.todo /\ patchPass'.at = at
          /\ patching'[at].attempts = patching[at].attempts + 1
          /\ \A m \in Machine \ {at} : patching'[m] = patching[m]
      BY <1>0, <1>7, <2>1, <2>3 DEF ClaimPatching, Pass
    <3>2. FinitelyMany' /\ \A m \in Machine : Issued(m)' = Issued(m)
      BY <2>1 DEF Thrifty, FinitelyMany, Issued
    <3>3. /\ Upcoming(at) = 0 /\ Upcoming(at)' = 1
          /\ \A m \in Machine \ {at} : Upcoming(m) = 0 /\ Upcoming(m)' = 0
      BY <2>1, <3>1 DEF Upcoming, PassAt
    <3>4. at \notin unsure => patching[at].attempts < PatchAttempts
      BY <2>1 DEF Thrifty, ReadEnough, PassAt
    <3>5. Paid'
      <4>1. ASSUME NEW m \in Machine \ unsure
            PROVE  Cardinality(Issued(m)') + Upcoming(m)' <= PatchAttempts * rearmed' + patching'[m].attempts
        <5>1. patching[m].attempts \in Nat /\ Cardinality(Issued(m)) \in Nat
          BY Numbers DEF Thrifty
        <5>2. Cardinality(Issued(m)') = Cardinality(Issued(m))
          BY <3>2
        <5>3. Upcoming(m)' - patching'[m].attempts = Upcoming(m) - patching[m].attempts
          BY <3>1, <3>3, <5>1
        <5>. QED  BY <1>1, <3>1, <3>2, <3>3, <5>1, <5>2, <5>3, StaysPaid
      <4>2. \A m \in Machine \ unsure : patching'[m].attempts <= PatchAttempts
        BY <2>1, <3>1, <3>4, Numbers DEF Thrifty, Paid
      <4>. QED  BY <1>1, <4>1, <4>2 DEF Paid
    <3>6. ReadEnough'
      <4>1. \A s \in patchPass.todo : s.of \in Machine /\ s.of # at
        BY <2>1, Numbers DEF Thrifty, ReadEnough, PassAt, Acting
      <4>. QED  BY <1>1, <3>1, <4>1 DEF Thrifty, ReadEnough
    <3>7. NothingBefore'
      <4>1. run # "none"
        BY <2>1, <2>3 DEF Thrifty, NothingBefore, NoPatching
      <4>. QED  BY <2>1, <4>1 DEF NothingBefore
    <3>. QED  BY <3>2, <3>5, <3>6, <3>7 DEF Thrifty
  <2>. QED  BY <2>2, <2>3
<1>8. CASE QueueInstall
  <2>1. PassAt("queue") /\ UNCHANGED <<run, patching>>
    BY <1>8 DEF QueueInstall, patchTables
  <2>2. PICK at \in Machine : at = patchPass.at
    BY <1>0, <2>1 DEF PassAt, Acting
  <2>3. PICK c \in Command : /\ machine' = [machine EXCEPT ![c] = at]
                             /\ patchPass' = [patchPass EXCEPT !.pc = "record", !.command = c]
    BY <1>8, <2>2 DEF QueueInstall, Create
  <2>4. /\ FinitelyMany'
        /\ Cardinality(Issued(at)') <= Cardinality(Issued(at)) + 1
        /\ \A m \in Machine \ {at} : Cardinality(Issued(m)') <= Cardinality(Issued(m))
    BY <2>3, OneCommandMore DEF Thrifty
  <2>5. patchPass'.pc = "record" /\ patchPass'.todo = patchPass.todo /\ patchPass'.at = at
    BY <1>0, <2>2, <2>3 DEF Pass
  <2>6. Upcoming(at) = 1 /\ \A m \in Machine : Upcoming(m)' = 0
    BY <2>2, <2>1, <2>5 DEF Upcoming, PassAt
  <2>7. Paid'
    <3>1. ASSUME NEW m \in Machine \ unsure
          PROVE  Cardinality(Issued(m)') + Upcoming(m)' <= PatchAttempts * rearmed' + patching'[m].attempts
      <4>1. patching[m].attempts \in Nat /\ Cardinality(Issued(m)) \in Nat
        BY Numbers DEF Thrifty
      <4>2. Cardinality(Issued(m)') \in Nat
        BY <2>4, FS_CardinalityType DEF FinitelyMany
      <4>3. Upcoming(m) \in {0, 1}
        BY DEF Upcoming
      <4>4. Cardinality(Issued(m)') + Upcoming(m)' <= Cardinality(Issued(m)) + Upcoming(m)
        BY <2>4, <2>6, <4>1, <4>2, <4>3
      <4>. QED  BY <1>1, <2>1, <2>4, <2>6, <4>1, <4>2, <4>3, <4>4, StaysPaid
    <3>. QED  BY <1>1, <2>1, <3>1 DEF Thrifty, Paid
  <2>8. ReadEnough' /\ NothingBefore'
    BY <1>1, <2>2, <2>1, <2>5 DEF Thrifty, ReadEnough, NothingBefore, PassAt, Acting
  <2>. QED  BY <2>4, <2>7, <2>8 DEF Thrifty
<1>. QED  BY <1>3, <1>4, <1>5, <1>6, <1>7, <1>8 DEF PatchPassStep

\* Every step keeps what is paid for paid.
LEMMA NextIsThrifty ==
  ASSUME TypedAtWork, RemovedAreUnsure, Thrifty, [PatchNext]_patchVars
  PROVE  Thrifty'
<1>1. TypedAtWork'
  BY NextKeepsTypes
<1>2. ASSUME UNCHANGED <<machine, run, patchPass, rearmed>>, unsure \subseteq unsure',
             UNCHANGED patching
      PROVE  Thrifty'
  BY <1>1, <1>2, OthersAreThrifty DEF Thrifty, NothingBefore
<1>3. CASE UNCHANGED patchVars
  BY <1>2, <1>3 DEF patchVars, queueVars, patchTables, patchHistory
<1>4. CASE PatchPassStep       BY <1>1, <1>4, PassIsThrifty
<1>5. CASE PatchOperatorStep   BY <1>1, <1>5, OperatorsAreThrifty
<1>6. ASSUME NEW m \in Machine, PatchMachineStep(m)  PROVE Thrifty'
  BY <1>2, <1>6 DEF PatchMachineStep, AgentTakes, Claim, Install, UpdateGoes, Search, SendList,
                    queueVars, patchTables, patchHistory
<1>7. ASSUME NEW c \in Command, LapseInstall(c) \/ \E a \in Agent : AgentAnswers(a, c)
      PROVE  Thrifty'
  BY <1>2, <1>7 DEF LapseInstall, Lapse, AgentAnswers, RecordResult, patchTables, patchHistory
<1>8. ASSUME NEW b \in Beat, BeatStep(b)  PROVE Thrifty'
  <2>1. CASE CloseTarget(b)
    <3>1. \A m \in Machine : patching'[m].attempts = patching[m].attempts
      BY <2>1 DEF CloseTarget, Roll, With, TypedAtWork, PatchTypeOK, Patching
    <3>2. NothingBefore'
      <4>1. beat[b].of \in Machine
        BY <2>1 DEF CloseTarget, BeatAt, TypedAtWork, HasSubject
      <4>. QED
        BY <2>1, <4>1 DEF CloseTarget, Roll, With, RunOf, Thrifty, NothingBefore, NoPatching
    <3>. QED  BY <1>1, <2>1, <3>1, <3>2, OthersAreThrifty DEF CloseTarget, queueVars, patchHistory
  <2>2. CASE ~CloseTarget(b)
    BY <1>2, <1>8, <2>2 DEF BeatStep, ReadExisting, Ingest, ReadStaged, ReadOffered, ReadItems,
                            ConfirmItems, queueVars, patchTables, patchHistory
  <2>. QED  BY <2>1, <2>2
<1>. QED  BY <1>3, <1>4, <1>5, <1>6, <1>7, <1>8 DEF PatchNext

\* What is paid for is what a round may cost.
LEMMA PaidIsSpent ==
  ASSUME TypedAtWork, Thrifty
  PROVE  SpentBeforeQueued
<1> SUFFICES ASSUME NEW m \in Machine \ unsure
             PROVE  Cardinality(Issued(m)) <= PatchAttempts * (1 + rearmed)
  BY DEF SpentBeforeQueued, Issued
<1>1. /\ patching[m].attempts <= PatchAttempts
      /\ Cardinality(Issued(m)) + Upcoming(m) <= PatchAttempts * rearmed + patching[m].attempts
  BY DEF Thrifty, Paid
<1>2. /\ patching[m].attempts \in Nat /\ Cardinality(Issued(m)) \in Nat /\ Upcoming(m) \in Nat
      /\ rearmed \in Nat /\ PatchAttempts \in Nat /\ PatchAttempts * rearmed \in Nat
  BY Numbers DEF Thrifty, Upcoming
<1>3. PatchAttempts * (1 + rearmed) = PatchAttempts * rearmed + PatchAttempts
  BY <1>2
<1>. QED  BY <1>1, <1>2, <1>3

\* No machine is given more commands than the run's attempts allow, passes
\* that die between claim and command included; with the roll-up and the types.
THEOREM PatchRunIsSound == PatchSpec => []PatchInv
<1> DEFINE IInv == TypedAtWork /\ Truthful /\ RunIsOver /\ Thrifty
<1>1. PatchInit => IInv
  <2> SUFFICES ASSUME PatchInit  PROVE IInv
    OBVIOUS
  <2>1. TypedAtWork
    BY PatchInitTyped DEF TypedAtWork, PatchInit, HasSubject, Acting, NoPass, NoBeat
  <2>2. Truthful
    BY DEF PatchInit, Truthful, ListsCover, RemovedAreUnsure, AppliedIsGone, NoBeat, Comparing
  <2>3. RunIsOver
    BY DEF PatchInit, RunIsOver
  <2>4. \A m \in Machine : Issued(m) = {}
    BY DEF PatchInit, QueueInit, Issued
  <2>5. FinitelyMany /\ \A m \in Machine : Cardinality(Issued(m)) = 0
    BY <2>4, FS_EmptySet DEF FinitelyMany
  <2>6. Paid
    <3>1. rearmed = 0 /\ \A m \in Machine : Upcoming(m) = 0 /\ patching[m].attempts = 0
      BY DEF PatchInit, NoPass, NoPatching, Upcoming
    <3>2. PatchAttempts \in Nat /\ PatchAttempts * 0 = 0
      OBVIOUS
    <3>. QED  BY <2>5, <3>1, <3>2 DEF Paid
  <2>7. ReadEnough /\ NothingBefore
    BY DEF PatchInit, NoPass, ReadEnough, NothingBefore, Acting
  <2>. QED  BY <2>1, <2>2, <2>3, <2>5, <2>6, <2>7 DEF Thrifty
<1>2. IInv /\ [PatchNext]_patchVars => IInv'
  BY NextKeepsTypes, NextIsTruthful, NextKeepsRunIsOver, NextIsThrifty DEF Truthful
<1>3. IInv => PatchInv
  BY PaidIsSpent DEF PatchInv, TypedAtWork
<1>. QED  BY <1>1, <1>2, <1>3, PTL DEF PatchSpec
=============================================================================
