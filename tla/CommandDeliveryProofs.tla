------------------------- MODULE CommandDeliveryProofs -------------------------
EXTENDS CommandDelivery, TLAPS

(***************************************************************************)
(* The properties of CommandDelivery for every set of commands, machines,  *)
(* agents and request threads.  IInv is preserved action by action; what   *)
(* carries the proof is Custody: a claimed command has at most one copy,   *)
(* so a step that uses a copy uses it for the first time.                  *)
(***************************************************************************)

USE QueueAssumption, DeliveryAssumption

\* A new command has no history and nobody holds it.
LEMMA IssueKeepsIInv ==
  ASSUME IInv, NEW c \in Command, NEW m \in Machine, Issue(c, m)
  PROVE  IInv'
<1> USE DEF IInv, Custody, queueVars, agentVars, Is, Issue, Create
<1>1. TypeOK'
  BY DEF TypeOK, QueueTypeOK, Request, Kind, Place, CommandStatus, NoRow
<1>2. CopyIsClaimed'
  BY DEF TypeOK, QueueTypeOK, Request, CopyIsClaimed, Carrying, HasRow, NoRow
<1>3. UnclaimedIsUntouched'
  BY DEF TypeOK, QueueTypeOK, CopyIsClaimed, UnclaimedIsUntouched, Carrying, HasRow, NoRow
<1>4. StatusIsReal'
  BY DEF TypeOK, QueueTypeOK, Request, CopyIsClaimed, CarriedIsFaithful, UnclaimedIsUntouched, StatusIsReal, Carrying, HasRow, NoRow, DeleteScope
<1>5. DeleteScope'
  BY DEF TypeOK, QueueTypeOK, Request, DeleteScope, HasRow, NoRow
<1>6. OneCopy' /\ CarriedIsFaithful' /\ LocalIsFaithful' /\ AtMostOnce'
  BY DEF OneCopy, CarriedIsFaithful, LocalIsFaithful, AtMostOnce, Carrying
<1>. QED  BY <1>1, <1>2, <1>3, <1>4, <1>5, <1>6

\* Only a pending command is cancelled, and nobody holds a pending command.
LEMMA CancelKeepsIInv ==
  ASSUME IInv, NEW c \in Command, Cancel(c)
  PROVE  IInv'
<1> USE DEF IInv, Custody, queueVars, agentVars, Is, Cancel, CancelIfPending
<1>1. TypeOK'
  BY DEF TypeOK, QueueTypeOK, Request, Kind, Place, CommandStatus, NoRow
<1>2. CopyIsClaimed'
  BY DEF TypeOK, QueueTypeOK, Request, CopyIsClaimed, Carrying, HasRow, NoRow
<1>3. UnclaimedIsUntouched'
  BY DEF TypeOK, QueueTypeOK, CopyIsClaimed, UnclaimedIsUntouched, Carrying, HasRow, NoRow
<1>4. StatusIsReal'
  BY DEF TypeOK, QueueTypeOK, Request, CopyIsClaimed, CarriedIsFaithful, UnclaimedIsUntouched, StatusIsReal, Carrying, HasRow, NoRow, DeleteScope
<1>5. DeleteScope'
  BY DEF TypeOK, QueueTypeOK, Request, DeleteScope, HasRow, NoRow
<1>6. OneCopy' /\ CarriedIsFaithful' /\ LocalIsFaithful' /\ AtMostOnce'
  BY DEF OneCopy, CarriedIsFaithful, LocalIsFaithful, AtMostOnce, Carrying
<1>. QED  BY <1>1, <1>2, <1>3, <1>4, <1>5, <1>6

\* The sweep retires pending commands only, and nobody holds those.
LEMMA SweepKeepsIInv ==
  ASSUME IInv, Sweep
  PROVE  IInv'
<1> USE DEF IInv, Custody, queueVars, agentVars, Is, Sweep, ExpireStale
<1>1. TypeOK'
  BY DEF TypeOK, QueueTypeOK, Request, Kind, Place, CommandStatus, NoRow
<1>2. CopyIsClaimed'
  BY DEF TypeOK, QueueTypeOK, Request, CopyIsClaimed, Carrying, HasRow, NoRow
<1>3. UnclaimedIsUntouched'
  BY DEF TypeOK, QueueTypeOK, CopyIsClaimed, UnclaimedIsUntouched, Carrying, HasRow, NoRow
<1>4. StatusIsReal'
  BY DEF TypeOK, QueueTypeOK, Request, CopyIsClaimed, CarriedIsFaithful, UnclaimedIsUntouched, StatusIsReal, Carrying, HasRow, NoRow, DeleteScope
<1>5. DeleteScope'
  BY DEF TypeOK, QueueTypeOK, Request, DeleteScope, HasRow, NoRow
<1>6. OneCopy' /\ CarriedIsFaithful' /\ LocalIsFaithful' /\ AtMostOnce'
  BY DEF OneCopy, CarriedIsFaithful, LocalIsFaithful, AtMostOnce, Carrying
<1>. QED  BY <1>1, <1>2, <1>3, <1>4, <1>5, <1>6

\* Time passing changes no row.
LEMMA ExpireKeepsIInv ==
  ASSUME IInv, NEW c \in Command, Expire(c)
  PROVE  IInv'
<1> USE DEF IInv, Custody, queueVars, agentVars, Is, Expire, Lapse
<1>1. TypeOK'
  BY DEF TypeOK, QueueTypeOK, Request, Kind, Place, CommandStatus, NoRow
<1>2. OneCopy' /\ CopyIsClaimed' /\ CarriedIsFaithful' /\ LocalIsFaithful' /\ UnclaimedIsUntouched' /\ StatusIsReal' /\ AtMostOnce' /\ DeleteScope'
  BY DEF OneCopy, CopyIsClaimed, CarriedIsFaithful, LocalIsFaithful, UnclaimedIsUntouched, StatusIsReal, AtMostOnce, DeleteScope, Carrying, HasRow
<1>. QED  BY <1>1, <1>2

\* An enrolment changes no command.
LEMMA EnrollKeepsIInv ==
  ASSUME IInv, NEW a \in Agent, Enroll(a)
  PROVE  IInv'
<1> USE DEF IInv, Custody, queueVars, agentVars, Is, Enroll
<1>1. TypeOK'
  BY DEF TypeOK, QueueTypeOK, Request, Kind, Place, CommandStatus, NoRow
<1>2. OneCopy' /\ CopyIsClaimed' /\ CarriedIsFaithful' /\ LocalIsFaithful' /\ UnclaimedIsUntouched' /\ StatusIsReal' /\ AtMostOnce' /\ DeleteScope'
  BY DEF OneCopy, CopyIsClaimed, CarriedIsFaithful, LocalIsFaithful, UnclaimedIsUntouched, StatusIsReal, AtMostOnce, DeleteScope, Carrying, HasRow
<1>. QED  BY <1>1, <1>2

\* The ids a delete reads are rows of its machine.
LEMMA DeleteReadKeepsIInv ==
  ASSUME IInv, NEW w \in Worker, NEW m \in Machine, DeleteRead(w, m)
  PROVE  IInv'
<1> USE DEF IInv, Custody, queueVars, agentVars, Is, DeleteRead, Serve, Idle
<1>1. TypeOK'
  BY DEF TypeOK, QueueTypeOK, Request, Kind, Place, CommandStatus, NoRow
<1>2. OneCopy'
  BY DEF TypeOK, QueueTypeOK, Request, OneCopy, Carrying, CopyIsClaimed
<1>3. CopyIsClaimed'
  BY DEF TypeOK, QueueTypeOK, Request, CopyIsClaimed, Carrying, HasRow, NoRow
<1>4. CarriedIsFaithful'
  BY DEF TypeOK, QueueTypeOK, Request, OneCopy, CopyIsClaimed, CarriedIsFaithful, LocalIsFaithful, UnclaimedIsUntouched, Carrying
<1>5. DeleteScope'
  BY DEF TypeOK, QueueTypeOK, Request, DeleteScope, HasRow, NoRow
<1>6. LocalIsFaithful' /\ UnclaimedIsUntouched' /\ StatusIsReal' /\ AtMostOnce'
  BY DEF LocalIsFaithful, UnclaimedIsUntouched, StatusIsReal, AtMostOnce, HasRow
<1>. QED  BY <1>1, <1>2, <1>3, <1>4, <1>5, <1>6

\* Whoever holds a copy of a deleted command holds a deleted command's copy.
LEMMA DeleteCommitKeepsIInv ==
  ASSUME IInv, NEW w \in Worker, DeleteCommit(w)
  PROVE  IInv'
<1> USE DEF IInv, Custody, queueVars, agentVars, Is, DeleteCommit, DeleteRows, Serve, Idle
<1>1. TypeOK'
  BY DEF TypeOK, QueueTypeOK, Request, Kind, Place, CommandStatus, NoRow
<1>2. OneCopy'
  BY DEF TypeOK, QueueTypeOK, Request, OneCopy, Carrying, CopyIsClaimed
<1>3. CopyIsClaimed'
  BY DEF TypeOK, QueueTypeOK, Request, CopyIsClaimed, Carrying, HasRow, NoRow
<1>4. CarriedIsFaithful'
  BY DEF TypeOK, QueueTypeOK, Request, OneCopy, CopyIsClaimed, CarriedIsFaithful, LocalIsFaithful, UnclaimedIsUntouched, Carrying
<1>5. UnclaimedIsUntouched'
  BY DEF TypeOK, QueueTypeOK, CopyIsClaimed, UnclaimedIsUntouched, Carrying, HasRow, NoRow
<1>6. StatusIsReal'
  BY DEF TypeOK, QueueTypeOK, Request, CopyIsClaimed, CarriedIsFaithful, UnclaimedIsUntouched, StatusIsReal, Carrying, HasRow, NoRow, DeleteScope
<1>7. DeleteScope'
  BY DEF TypeOK, QueueTypeOK, Request, DeleteScope, HasRow, NoRow
<1>8. LocalIsFaithful' /\ AtMostOnce'
  BY DEF LocalIsFaithful, AtMostOnce
<1>. QED  BY <1>1, <1>2, <1>3, <1>4, <1>5, <1>6, <1>7, <1>8

\* Asking for commands takes no copy of any.
LEMMA PollKeepsIInv ==
  ASSUME IInv, NEW a \in Agent, NEW w \in Worker, Poll(a, w)
  PROVE  IInv'
<1> USE DEF IInv, Custody, queueVars, agentVars, Is, Poll, Serve, Idle
<1>1. TypeOK'
  BY DEF TypeOK, QueueTypeOK, Request, Kind, Place, CommandStatus, NoRow
<1>2. OneCopy'
  BY DEF TypeOK, QueueTypeOK, Request, OneCopy, Carrying, CopyIsClaimed
<1>3. CopyIsClaimed'
  BY DEF TypeOK, QueueTypeOK, Request, CopyIsClaimed, Carrying, HasRow, NoRow
<1>4. CarriedIsFaithful'
  BY DEF TypeOK, QueueTypeOK, Request, OneCopy, CopyIsClaimed, CarriedIsFaithful, LocalIsFaithful, UnclaimedIsUntouched, Carrying
<1>5. DeleteScope'
  BY DEF TypeOK, QueueTypeOK, Request, DeleteScope, HasRow, NoRow
<1>6. LocalIsFaithful' /\ UnclaimedIsUntouched' /\ StatusIsReal' /\ AtMostOnce'
  BY DEF LocalIsFaithful, UnclaimedIsUntouched, StatusIsReal, AtMostOnce, HasRow
<1>. QED  BY <1>1, <1>2, <1>3, <1>4, <1>5, <1>6

\* Giving up on a request changes nothing at the hub.
LEMMA PollGivenUpKeepsIInv ==
  ASSUME IInv, NEW a \in Agent, PollGivenUp(a)
  PROVE  IInv'
<1> USE DEF IInv, Custody, queueVars, agentVars, Is, PollGivenUp
<1>1. TypeOK'
  BY DEF TypeOK, QueueTypeOK, Request, Kind, Place, CommandStatus, NoRow
<1>2. OneCopy' /\ CopyIsClaimed' /\ CarriedIsFaithful' /\ LocalIsFaithful' /\ UnclaimedIsUntouched' /\ StatusIsReal' /\ AtMostOnce' /\ DeleteScope'
  BY DEF OneCopy, CopyIsClaimed, CarriedIsFaithful, LocalIsFaithful, UnclaimedIsUntouched, StatusIsReal, AtMostOnce, DeleteScope, Carrying, HasRow
<1>. QED  BY <1>1, <1>2

\* The claim makes the one copy: its commands were pending, so there was none.
LEMMA ServePollKeepsIInv ==
  ASSUME IInv, NEW w \in Worker, ServePoll(w)
  PROVE  IInv'
<1> USE DEF IInv, Custody, queueVars, agentVars, Is, ServePoll, Claim, Claimable, PendingOf, Serve
<1>1. TypeOK'
  <2>1. work[w] \in Request /\ Claimable(AgentMachine[work[w].agent]) \subseteq Command
    BY DEF TypeOK
  <2>2. [work[w] EXCEPT !.kind = "reply",
                        !.cmds = Claimable(AgentMachine[work[w].agent])] \in Request
    BY <2>1 DEF Request, Kind
  <2>3. work' \in [Worker -> Request]
    BY <2>2 DEF TypeOK
  <2>4. QueueTypeOK'
    BY <2>1 DEF TypeOK, QueueTypeOK, Request, CommandStatus, NoRow
  <2>. QED  BY <2>3, <2>4 DEF TypeOK
<1>2. OneCopy'
  <2>1. \A c \in Command, v \in Worker : Carrying(v, c)' =>
          \/ v # w /\ Carrying(v, c)
          \/ v = w /\ status[c] = "pending"
    BY DEF TypeOK, Carrying
  <2>2. \A c \in Command : status[c] = "pending" =>
          /\ \A v \in Worker : ~Carrying(v, c)
          /\ \A a \in Agent : local[a][c] = "none"
    BY DEF CopyIsClaimed
  <2>3. local' = local
    OBVIOUS
  <2>4. \A c \in Command, u, v \in Worker : Carrying(u, c)' /\ Carrying(v, c)' => u = v
    BY <2>1, <2>2 DEF OneCopy
  <2>5. \A c \in Command, v \in Worker, a \in Agent : Carrying(v, c)' => local[a][c] = "none"
    BY <2>1, <2>2 DEF OneCopy
  <2>. QED  BY <2>3, <2>4, <2>5 DEF OneCopy
<1>3. CopyIsClaimed'
  BY DEF TypeOK, QueueTypeOK, Request, CopyIsClaimed, Carrying, HasRow, NoRow
<1>4. CarriedIsFaithful'
  BY DEF TypeOK, QueueTypeOK, Request, OneCopy, CopyIsClaimed, CarriedIsFaithful, LocalIsFaithful, UnclaimedIsUntouched, Carrying
<1>5. UnclaimedIsUntouched'
  BY DEF TypeOK, QueueTypeOK, CopyIsClaimed, UnclaimedIsUntouched, Carrying, HasRow, NoRow
<1>6. StatusIsReal'
  BY DEF TypeOK, QueueTypeOK, Request, CopyIsClaimed, CarriedIsFaithful, UnclaimedIsUntouched, StatusIsReal, Carrying, HasRow, NoRow, DeleteScope
<1>7. DeleteScope'
  BY DEF TypeOK, QueueTypeOK, Request, DeleteScope, HasRow, NoRow
<1>8. LocalIsFaithful' /\ AtMostOnce'
  BY DEF LocalIsFaithful, AtMostOnce
<1>. QED  BY <1>1, <1>2, <1>3, <1>4, <1>5, <1>6, <1>7, <1>8

\* The copy moves from the response to the agent, or is lost.
LEMMA DeliverKeepsIInv ==
  ASSUME IInv, NEW w \in Worker, Deliver(w)
  PROVE  IInv'
<1> USE DEF IInv, Custody, queueVars, agentVars, Is, Deliver, Serve, Idle
<1>1. TypeOK'
  BY DEF TypeOK, QueueTypeOK, Request, Kind, Place, CommandStatus, NoRow
<1>2. OneCopy'
  BY DEF TypeOK, QueueTypeOK, Request, OneCopy, Carrying, CopyIsClaimed
<1>3. CopyIsClaimed'
  BY DEF TypeOK, QueueTypeOK, Request, CopyIsClaimed, Carrying, HasRow, NoRow
<1>4. CarriedIsFaithful'
  BY DEF TypeOK, QueueTypeOK, Request, OneCopy, CopyIsClaimed, CarriedIsFaithful, LocalIsFaithful, UnclaimedIsUntouched, Carrying
<1>5. LocalIsFaithful'
  BY DEF TypeOK, Request, OneCopy, CarriedIsFaithful, LocalIsFaithful, Carrying
<1>6. DeleteScope'
  BY DEF TypeOK, QueueTypeOK, Request, DeleteScope, HasRow, NoRow
<1>7. UnclaimedIsUntouched' /\ StatusIsReal' /\ AtMostOnce'
  BY DEF UnclaimedIsUntouched, StatusIsReal, AtMostOnce, HasRow
<1>. QED  BY <1>1, <1>2, <1>3, <1>4, <1>5, <1>6, <1>7

\* The copy in hand has never been started, so this start is the first.
LEMMA StartKeepsIInv ==
  ASSUME IInv, NEW a \in Agent, NEW c \in Command, Start(a, c)
  PROVE  IInv'
<1> USE DEF IInv, Custody, queueVars, agentVars, Is, Start, Move
<1>1. TypeOK'
  BY DEF TypeOK, QueueTypeOK, Request, Kind, Place, CommandStatus, NoRow
<1>2. OneCopy'
  BY DEF TypeOK, QueueTypeOK, Request, OneCopy, Carrying, CopyIsClaimed
<1>3. CopyIsClaimed'
  BY DEF TypeOK, QueueTypeOK, Request, CopyIsClaimed, Carrying, HasRow, NoRow
<1>4. CarriedIsFaithful'
  BY DEF TypeOK, QueueTypeOK, Request, OneCopy, CopyIsClaimed, CarriedIsFaithful, LocalIsFaithful, UnclaimedIsUntouched, Carrying
<1>5. LocalIsFaithful'
  BY DEF TypeOK, Request, OneCopy, CarriedIsFaithful, LocalIsFaithful, Carrying
<1>6. UnclaimedIsUntouched'
  BY DEF TypeOK, QueueTypeOK, CopyIsClaimed, UnclaimedIsUntouched, Carrying, HasRow, NoRow
<1>7. AtMostOnce'
  BY DEF TypeOK, LocalIsFaithful, AtMostOnce
<1>8. StatusIsReal' /\ DeleteScope'
  BY DEF StatusIsReal, DeleteScope, HasRow
<1>. QED  BY <1>1, <1>2, <1>3, <1>4, <1>5, <1>6, <1>7, <1>8

\* A refused command is reported as one that did not run.
LEMMA RefuseKeepsIInv ==
  ASSUME IInv, NEW a \in Agent, NEW c \in Command, Refuse(a, c)
  PROVE  IInv'
<1> USE DEF IInv, Custody, queueVars, agentVars, Is, Refuse, Move
<1>1. TypeOK'
  BY DEF TypeOK, QueueTypeOK, Request, Kind, Place, CommandStatus, NoRow
<1>2. OneCopy'
  BY DEF TypeOK, QueueTypeOK, Request, OneCopy, Carrying, CopyIsClaimed
<1>3. CopyIsClaimed'
  BY DEF TypeOK, QueueTypeOK, Request, CopyIsClaimed, Carrying, HasRow, NoRow
<1>4. CarriedIsFaithful'
  BY DEF TypeOK, QueueTypeOK, Request, OneCopy, CopyIsClaimed, CarriedIsFaithful, LocalIsFaithful, UnclaimedIsUntouched, Carrying
<1>5. LocalIsFaithful'
  BY DEF TypeOK, Request, OneCopy, CarriedIsFaithful, LocalIsFaithful, Carrying
<1>6. UnclaimedIsUntouched'
  BY DEF TypeOK, QueueTypeOK, CopyIsClaimed, UnclaimedIsUntouched, Carrying, HasRow, NoRow
<1>7. StatusIsReal'
  BY DEF TypeOK, QueueTypeOK, Request, CopyIsClaimed, CarriedIsFaithful, UnclaimedIsUntouched, StatusIsReal, Carrying, HasRow, NoRow, DeleteScope
<1>8. AtMostOnce' /\ DeleteScope'
  BY DEF AtMostOnce, DeleteScope
<1>. QED  BY <1>1, <1>2, <1>3, <1>4, <1>5, <1>6, <1>7, <1>8

\* The outcome is recorded once, by the one running copy.
LEMMA FinishKeepsIInv ==
  ASSUME IInv, NEW a \in Agent, NEW c \in Command, NEW ok \in BOOLEAN, Finish(a, c, ok)
  PROVE  IInv'
<1> USE DEF IInv, Custody, queueVars, agentVars, Is, Finish, Move
<1>1. TypeOK'
  BY DEF TypeOK, QueueTypeOK, Request, Kind, Place, CommandStatus, NoRow
<1>2. OneCopy'
  BY DEF TypeOK, QueueTypeOK, Request, OneCopy, Carrying, CopyIsClaimed
<1>3. CopyIsClaimed'
  BY DEF TypeOK, QueueTypeOK, Request, CopyIsClaimed, Carrying, HasRow, NoRow
<1>4. CarriedIsFaithful'
  BY DEF TypeOK, QueueTypeOK, Request, OneCopy, CopyIsClaimed, CarriedIsFaithful, LocalIsFaithful, UnclaimedIsUntouched, Carrying
<1>5. LocalIsFaithful'
  BY DEF TypeOK, Request, OneCopy, CarriedIsFaithful, LocalIsFaithful, Carrying
<1>6. UnclaimedIsUntouched'
  BY DEF TypeOK, QueueTypeOK, CopyIsClaimed, UnclaimedIsUntouched, Carrying, HasRow, NoRow
<1>7. StatusIsReal'
  BY DEF TypeOK, QueueTypeOK, Request, CopyIsClaimed, CarriedIsFaithful, UnclaimedIsUntouched, StatusIsReal, Carrying, HasRow, NoRow, DeleteScope
<1>8. AtMostOnce' /\ DeleteScope'
  BY DEF AtMostOnce, DeleteScope
<1>. QED  BY <1>1, <1>2, <1>3, <1>4, <1>5, <1>6, <1>7, <1>8

\* The copy moves from the agent into the report, with its outcome.
LEMMA ReportKeepsIInv ==
  ASSUME IInv, NEW a \in Agent, NEW c \in Command, NEW w \in Worker, Report(a, c, w)
  PROVE  IInv'
<1> USE DEF IInv, Custody, queueVars, agentVars, Is, Report, Move, Serve, Idle
<1>1. TypeOK'
  <2>1. QueueTypeOK'
    BY DEF TypeOK, QueueTypeOK
  <2>2. [Idle EXCEPT !.kind = "result", !.agent = a, !.cmds = {c}, !.ok = outcome[c] = "ok"]
           \in Request
    BY DEF Request, Kind
  <2>3. work' \in [Worker -> Request]
    BY <2>2 DEF TypeOK
  <2>4. local' \in [Agent -> [Command -> Place]]
    BY DEF TypeOK, Place
  <2>. QED  BY <2>1, <2>3, <2>4 DEF TypeOK
<1>2. OneCopy'
  BY DEF TypeOK, QueueTypeOK, Request, OneCopy, Carrying, CopyIsClaimed
<1>3. CopyIsClaimed'
  BY DEF TypeOK, QueueTypeOK, Request, CopyIsClaimed, Carrying, HasRow, NoRow
<1>4. CarriedIsFaithful'
  <2>1. \A d \in Command, v \in Worker : Carrying(v, d)' =>
          \/ v # w /\ Carrying(v, d) /\ work'[v] = work[v]
          \/ v = w /\ d = c
    BY DEF TypeOK, Carrying
  <2>2. outcome[c] # "none"
    BY DEF LocalIsFaithful
  <2>3. work'[w].kind = "result" /\ (work'[w].ok <=> outcome[c] = "ok")
    BY DEF TypeOK
  <2>. QED  BY <2>1, <2>2, <2>3 DEF CarriedIsFaithful
<1>5. LocalIsFaithful'
  BY DEF TypeOK, Request, OneCopy, CarriedIsFaithful, LocalIsFaithful, Carrying
<1>6. DeleteScope'
  BY DEF TypeOK, QueueTypeOK, Request, DeleteScope, HasRow, NoRow
<1>7. UnclaimedIsUntouched' /\ StatusIsReal' /\ AtMostOnce'
  BY DEF UnclaimedIsUntouched, StatusIsReal, AtMostOnce, HasRow
<1>. QED  BY <1>1, <1>2, <1>3, <1>4, <1>5, <1>6, <1>7

\* A lost report loses the copy.
LEMMA ReportLostKeepsIInv ==
  ASSUME IInv, NEW a \in Agent, NEW c \in Command, ReportLost(a, c)
  PROVE  IInv'
<1> USE DEF IInv, Custody, queueVars, agentVars, Is, ReportLost, Move
<1>1. TypeOK'
  BY DEF TypeOK, QueueTypeOK, Request, Kind, Place, CommandStatus, NoRow
<1>2. OneCopy'
  BY DEF TypeOK, QueueTypeOK, Request, OneCopy, Carrying, CopyIsClaimed
<1>3. CopyIsClaimed'
  BY DEF TypeOK, QueueTypeOK, Request, CopyIsClaimed, Carrying, HasRow, NoRow
<1>4. LocalIsFaithful'
  BY DEF TypeOK, Request, OneCopy, CarriedIsFaithful, LocalIsFaithful, Carrying
<1>5. CarriedIsFaithful' /\ UnclaimedIsUntouched' /\ StatusIsReal' /\ AtMostOnce' /\ DeleteScope'
  BY DEF CarriedIsFaithful, UnclaimedIsUntouched, StatusIsReal, AtMostOnce, DeleteScope, Carrying, HasRow
<1>. QED  BY <1>1, <1>2, <1>3, <1>4, <1>5

\* The check keeps the copy in the request or drops it.
LEMMA CheckResultKeepsIInv ==
  ASSUME IInv, NEW w \in Worker, CheckResult(w)
  PROVE  IInv'
<1> USE DEF IInv, Custody, queueVars, agentVars, Is, CheckResult, Accepts, Serve, Idle
<1>1. TypeOK'
  <2>1. work[w] \in Request
    BY DEF TypeOK
  <2>2. [work[w] EXCEPT !.kind = "record"] \in Request
    BY <2>1 DEF Request, Kind
  <2>3. Idle \in Request
    BY DEF Request, Kind
  <2>4. work' \in [Worker -> Request]
    BY <2>2, <2>3 DEF TypeOK
  <2>. QED  BY <2>4 DEF TypeOK, QueueTypeOK
<1>2. OneCopy'
  BY DEF TypeOK, QueueTypeOK, Request, OneCopy, Carrying, CopyIsClaimed
<1>3. CopyIsClaimed'
  BY DEF TypeOK, QueueTypeOK, Request, CopyIsClaimed, Carrying, HasRow, NoRow
<1>4. CarriedIsFaithful'
  BY DEF TypeOK, QueueTypeOK, Request, OneCopy, CopyIsClaimed, CarriedIsFaithful, LocalIsFaithful, UnclaimedIsUntouched, Carrying
<1>5. DeleteScope'
  BY DEF TypeOK, QueueTypeOK, Request, DeleteScope, HasRow, NoRow
<1>6. LocalIsFaithful' /\ UnclaimedIsUntouched' /\ StatusIsReal' /\ AtMostOnce'
  BY DEF LocalIsFaithful, UnclaimedIsUntouched, StatusIsReal, AtMostOnce, HasRow
<1>. QED  BY <1>1, <1>2, <1>3, <1>4, <1>5, <1>6

\* The result written is the outcome the copy carried.
LEMMA WriteResultKeepsIInv ==
  ASSUME IInv, NEW w \in Worker, WriteResult(w)
  PROVE  IInv'
<1> USE DEF IInv, Custody, queueVars, agentVars, Is, WriteResult, RecordResult, Serve, Idle
<1>1. TypeOK'
  BY DEF TypeOK, QueueTypeOK, Request, Kind, Place, CommandStatus, NoRow
<1>2. OneCopy'
  BY DEF TypeOK, QueueTypeOK, Request, OneCopy, Carrying, CopyIsClaimed
<1>3. CopyIsClaimed'
  <2>1. PICK c \in work[w].cmds : RecordResult(c, work[w].ok)
    BY DEF TypeOK
  <2>2. c \in Command /\ Carrying(w, c)
    BY DEF TypeOK, Request, Carrying
  <2>3. \A v \in Worker : ~Carrying(v, c)'
    BY <2>2 DEF TypeOK, OneCopy, Carrying
  <2>4. \A a \in Agent : local[a][c] = "none"
    BY <2>2 DEF OneCopy
  <2>5. \A d \in Command \ {c} : status'[d] = status[d]
    BY <2>1 DEF TypeOK, QueueTypeOK, RecordResult
  <2>6. \A d \in Command, v \in Worker : Carrying(v, d)' => Carrying(v, d)
    BY DEF TypeOK, Carrying
  <2>. QED  BY <2>3, <2>4, <2>5, <2>6 DEF CopyIsClaimed
<1>4. CarriedIsFaithful'
  BY DEF TypeOK, QueueTypeOK, Request, OneCopy, CopyIsClaimed, CarriedIsFaithful, LocalIsFaithful, UnclaimedIsUntouched, Carrying
<1>5. UnclaimedIsUntouched'
  BY DEF TypeOK, QueueTypeOK, CopyIsClaimed, UnclaimedIsUntouched, Carrying, HasRow, NoRow
<1>6. StatusIsReal'
  BY DEF TypeOK, QueueTypeOK, Request, CopyIsClaimed, CarriedIsFaithful, UnclaimedIsUntouched, StatusIsReal, Carrying, HasRow, NoRow, DeleteScope
<1>7. DeleteScope'
  BY DEF TypeOK, QueueTypeOK, Request, DeleteScope, HasRow, NoRow
<1>8. LocalIsFaithful' /\ AtMostOnce'
  BY DEF LocalIsFaithful, AtMostOnce
<1>. QED  BY <1>1, <1>2, <1>3, <1>4, <1>5, <1>6, <1>7, <1>8

\* An agent that restarts loses the copies it held.
LEMMA AgentRestartKeepsIInv ==
  ASSUME IInv, NEW a \in Agent, AgentRestart(a)
  PROVE  IInv'
<1> USE DEF IInv, Custody, queueVars, agentVars, Is, AgentRestart
<1>1. TypeOK'
  BY DEF TypeOK, QueueTypeOK, Request, Kind, Place, CommandStatus, NoRow
<1>2. OneCopy'
  BY DEF TypeOK, QueueTypeOK, Request, OneCopy, Carrying, CopyIsClaimed
<1>3. CopyIsClaimed'
  BY DEF TypeOK, QueueTypeOK, Request, CopyIsClaimed, Carrying, HasRow, NoRow
<1>4. LocalIsFaithful'
  BY DEF TypeOK, Request, OneCopy, CarriedIsFaithful, LocalIsFaithful, Carrying
<1>5. CarriedIsFaithful' /\ UnclaimedIsUntouched' /\ StatusIsReal' /\ AtMostOnce' /\ DeleteScope'
  BY DEF CarriedIsFaithful, UnclaimedIsUntouched, StatusIsReal, AtMostOnce, DeleteScope, Carrying, HasRow
<1>. QED  BY <1>1, <1>2, <1>3, <1>4, <1>5

\* A hub that restarts loses the copies its threads held.
LEMMA HubRestartKeepsIInv ==
  ASSUME IInv, HubRestart
  PROVE  IInv'
<1> USE DEF IInv, Custody, queueVars, agentVars, Is, HubRestart, Idle
<1>1. TypeOK'
  BY DEF TypeOK, QueueTypeOK, Request, Kind, Place, CommandStatus, NoRow
<1>2. OneCopy'
  BY DEF TypeOK, QueueTypeOK, Request, OneCopy, Carrying, CopyIsClaimed
<1>3. CopyIsClaimed'
  BY DEF TypeOK, QueueTypeOK, Request, CopyIsClaimed, Carrying, HasRow, NoRow
<1>4. CarriedIsFaithful'
  BY DEF TypeOK, QueueTypeOK, Request, OneCopy, CopyIsClaimed, CarriedIsFaithful, LocalIsFaithful, UnclaimedIsUntouched, Carrying
<1>5. DeleteScope'
  BY DEF TypeOK, QueueTypeOK, Request, DeleteScope, HasRow, NoRow
<1>6. LocalIsFaithful' /\ UnclaimedIsUntouched' /\ StatusIsReal' /\ AtMostOnce'
  BY DEF LocalIsFaithful, UnclaimedIsUntouched, StatusIsReal, AtMostOnce, HasRow
<1>. QED  BY <1>1, <1>2, <1>3, <1>4, <1>5, <1>6

-------------------------------------------------------------------------------
(* The invariant is inductive: it holds initially and every step keeps it, *)
(* by the lemma of the action taken.                                       *)

\* The empty queue satisfies the invariant.
LEMMA InitIInv == Init => IInv
<1> SUFFICES ASSUME Init PROVE IInv  OBVIOUS
<1> USE DEF Init, QueueInit, Idle
<1>1. TypeOK
  BY DEF TypeOK, QueueTypeOK, Request, Kind, Place, CommandStatus, NoRow
<1>2. \A w \in Worker, c \in Command : ~Carrying(w, c)
  BY DEF Carrying
<1>3. Custody
  BY <1>2 DEF Custody, OneCopy, CopyIsClaimed, CarriedIsFaithful, LocalIsFaithful,
              UnclaimedIsUntouched
<1>4. StatusIsReal /\ AtMostOnce /\ DeleteScope
  BY DEF StatusIsReal, AtMostOnce, DeleteScope, HasRow, NoRow, Is
<1>. QED  BY <1>1, <1>3, <1>4 DEF IInv

\* Every step of the system preserves the invariant.
LEMMA NextIInv == IInv /\ [Next]_vars => IInv'
<1> SUFFICES ASSUME IInv, [Next]_vars PROVE IInv'  OBVIOUS
<1>1. ASSUME NEW c \in Command, NEW m \in Machine, Issue(c, m) PROVE IInv'
  BY <1>1, IssueKeepsIInv
<1>2. ASSUME NEW c \in Command, Cancel(c) PROVE IInv'
  BY <1>2, CancelKeepsIInv
<1>3. ASSUME Sweep PROVE IInv'
  BY <1>3, SweepKeepsIInv
<1>4. ASSUME NEW c \in Command, Expire(c) PROVE IInv'
  BY <1>4, ExpireKeepsIInv
<1>5. ASSUME NEW a \in Agent, Enroll(a) PROVE IInv'
  BY <1>5, EnrollKeepsIInv
<1>6. ASSUME NEW w \in Worker, NEW m \in Machine, DeleteRead(w, m) PROVE IInv'
  BY <1>6, DeleteReadKeepsIInv
<1>7. ASSUME NEW w \in Worker, DeleteCommit(w) PROVE IInv'
  BY <1>7, DeleteCommitKeepsIInv
<1>8. ASSUME NEW a \in Agent, NEW w \in Worker, Poll(a, w) PROVE IInv'
  BY <1>8, PollKeepsIInv
<1>9. ASSUME NEW a \in Agent, PollGivenUp(a) PROVE IInv'
  BY <1>9, PollGivenUpKeepsIInv
<1>10. ASSUME NEW w \in Worker, ServePoll(w) PROVE IInv'
  BY <1>10, ServePollKeepsIInv
<1>11. ASSUME NEW w \in Worker, Deliver(w) PROVE IInv'
  BY <1>11, DeliverKeepsIInv
<1>12. ASSUME NEW a \in Agent, NEW c \in Command, Start(a, c) PROVE IInv'
  BY <1>12, StartKeepsIInv
<1>13. ASSUME NEW a \in Agent, NEW c \in Command, Refuse(a, c) PROVE IInv'
  BY <1>13, RefuseKeepsIInv
<1>14. ASSUME NEW a \in Agent, NEW c \in Command, NEW ok \in BOOLEAN, Finish(a, c, ok) PROVE IInv'
  BY <1>14, FinishKeepsIInv
<1>15. ASSUME NEW a \in Agent, NEW c \in Command, NEW w \in Worker, Report(a, c, w) PROVE IInv'
  BY <1>15, ReportKeepsIInv
<1>16. ASSUME NEW a \in Agent, NEW c \in Command, ReportLost(a, c) PROVE IInv'
  BY <1>16, ReportLostKeepsIInv
<1>17. ASSUME NEW w \in Worker, CheckResult(w) PROVE IInv'
  BY <1>17, CheckResultKeepsIInv
<1>18. ASSUME NEW w \in Worker, WriteResult(w) PROVE IInv'
  BY <1>18, WriteResultKeepsIInv
<1>19. ASSUME NEW a \in Agent, AgentRestart(a) PROVE IInv'
  BY <1>19, AgentRestartKeepsIInv
<1>20. ASSUME HubRestart PROVE IInv'
  BY <1>20, HubRestartKeepsIInv
<1>21. CASE UNCHANGED vars
  BY <1>21 DEF vars, queueVars, agentVars, IInv, TypeOK, QueueTypeOK, Custody, OneCopy,
     CopyIsClaimed, CarriedIsFaithful, LocalIsFaithful, UnclaimedIsUntouched, StatusIsReal,
     AtMostOnce, DeleteScope, Carrying, Is, HasRow
<1>. QED
  BY <1>1, <1>2, <1>3, <1>4, <1>5, <1>6, <1>7, <1>8, <1>9, <1>10, <1>11, <1>12, <1>13, <1>14, <1>15, <1>16, <1>17, <1>18, <1>19, <1>20, <1>21 DEF Next, HubStep, AgentStep

(* Every reachable state satisfies the inductive invariant.                *)
THEOREM Invariance == Spec => []IInv
  BY InitIInv, NextIInv, PTL DEF Spec

(* The rows, the requests and the agents' memories keep their types.       *)
THEOREM TypeCorrect == Spec => []TypeOK
<1>1. IInv => TypeOK  BY DEF IInv
<1>. QED  BY <1>1, Invariance, PTL

(* No command is ever started twice, whatever is lost or restarted.        *)
THEOREM Delivery == Spec => []AtMostOnce
<1>1. IInv => AtMostOnce  BY DEF IInv
<1>. QED  BY <1>1, Invariance, PTL

(* At every moment a claimed command has at most one copy, and the copy,   *)
(* the row and what really happened agree.                                 *)
THEOREM Custodianship == Spec => []Custody
<1>1. IInv => Custody  BY DEF IInv
<1>. QED  BY <1>1, Invariance, PTL

(* The status the console shows is what happened on the machine.           *)
THEOREM StatusSoundness == Spec => []StatusIsReal
<1>1. IInv => StatusIsReal  BY DEF IInv
<1>. QED  BY <1>1, Invariance, PTL

(* A settled command is never settled again: a result is written only from *)
(* the one copy, and while there is a copy the row is claimed or gone.     *)
THEOREM Finality == Spec => SettledIsFinal
<1>1. IInv /\ [Next]_vars =>
        [\A c \in Command : status[c] \in Settled => status'[c] \in {status[c], "deleted"}]_vars
  <2> SUFFICES ASSUME IInv, Next, NEW c \in Command, status[c] \in Settled
               PROVE  status'[c] \in {status[c], "deleted"}
    OBVIOUS
  <2>1. ASSUME NEW w \in Worker PROVE ~Carrying(w, c)
    BY DEF IInv, Custody, CopyIsClaimed, Settled
  <2>2. ASSUME NEW w \in Worker, WriteResult(w) PROVE status'[c] = status[c]
    <3>1. PICK d \in work[w].cmds : RecordResult(d, work[w].ok)
      BY <2>2 DEF WriteResult
    <3>2. Carrying(w, d)
      BY <2>2 DEF WriteResult, Is, Carrying
    <3>3. d # c
      BY <2>1, <3>2
    <3>. QED  BY <3>1, <3>3 DEF RecordResult, IInv, TypeOK, QueueTypeOK
  <2>3. ASSUME NEW w \in Worker, HubStep(w) PROVE status'[c] \in {status[c], "deleted"}
    BY <2>2, <2>3 DEF HubStep, ServePoll, Claim, Claimable, PendingOf, Deliver, CheckResult,
       DeleteCommit, DeleteRows, queueVars, Settled
  <2>4. ASSUME NEW a \in Agent, Enroll(a) \/ AgentStep(a) \/ PollGivenUp(a) \/ AgentRestart(a)
        PROVE  status'[c] = status[c]
    BY <2>4 DEF Enroll, AgentStep, Poll, PollGivenUp, Start, Refuse, Finish, Report, ReportLost,
       AgentRestart, queueVars
  <2>5. ASSUME NEW d \in Command, Cancel(d) \/ Expire(d) \/ \E m \in Machine : Issue(d, m)
        PROVE  status'[c] = status[c]
    BY <2>5 DEF Cancel, CancelIfPending, Expire, Lapse, Issue, Create, Settled, IInv, TypeOK,
       QueueTypeOK
  <2>6. ASSUME Sweep \/ HubRestart \/ \E w \in Worker, m \in Machine : DeleteRead(w, m)
        PROVE  status'[c] = status[c]
    BY <2>6 DEF Sweep, ExpireStale, HubRestart, DeleteRead, queueVars, Settled
  <2>. QED  BY <2>3, <2>4, <2>5, <2>6 DEF Next
<1>. QED  BY <1>1, Invariance, PTL DEF Spec, SettledIsFinal

-------------------------------------------------------------------------------
(* Refinement.  A step of the delivery moves every order by one step of    *)
(* WorkOrder or leaves it alone.                                           *)

OrderStep(c) ==
    Order!Keep(c) \/ Order!Queue(c) \/ Order!Hand(c) \/ Order!Start(c) \/ Order!Void(c)

\* Where the phases come from, in the terms the actions change.
LEMMA PhaseDef ==
  ASSUME NEW c \in Command
  PROVE  /\ phaseOf[c] = IF runs[c] > 0 THEN "started"
                         ELSE IF status[c] = "unissued" THEN "unissued"
                         ELSE IF status[c] = "pending" THEN "queued"
                         ELSE IF Held(c) THEN "handed" ELSE "void"
         /\ phaseOf'[c] = IF runs'[c] > 0 THEN "started"
                          ELSE IF status'[c] = "unissued" THEN "unissued"
                          ELSE IF status'[c] = "pending" THEN "queued"
                          ELSE IF Held(c)' THEN "handed" ELSE "void"
  BY DEF phaseOf

\* A step that neither starts c, issues it, nor gives it a new holder.
LEMMA QuietStep ==
  ASSUME IInv, NEW c \in Command, runs'[c] = runs[c],
         Held(c)' => Held(c),
         \/ status'[c] = status[c]
         \/ status[c] # "unissued" /\ status'[c] \notin {"unissued", "pending"}
  PROVE  OrderStep(c)
<1>1. status[c] \in {"unissued", "pending"} => ~Held(c)
  BY DEF IInv, Custody, CopyIsClaimed, Held, CarriedBy, Is, Carrying
<1>. QED
  BY <1>1, PhaseDef DEF OrderStep, Order!Keep, Order!Void, Order!Move

\* A claim moves pending commands to handed, lapsed ones to void.
LEMMA ServeStep ==
  ASSUME IInv, NEW w \in Worker, ServePoll(w), NEW c \in Command
  PROVE  OrderStep(c)
<1>1. runs'[c] = runs[c] /\ local' = local
  BY DEF ServePoll, agentVars
<1>2. CASE c \in Claimable(AgentMachine[work[w].agent])
  <2>1. status[c] = "pending" /\ status'[c] = "claimed"
    BY <1>2 DEF ServePoll, Claim, Claimable, PendingOf
  <2>2. Held(c)'
    <3>1. Is(w, "reply")' /\ c \in work'[w].cmds
      BY <1>2 DEF ServePoll, Serve, Is, IInv, TypeOK, Request
    <3>. QED  BY <3>1 DEF Held, CarriedBy
  <2>3. runs[c] = 0
    BY <2>1 DEF IInv, Custody, UnclaimedIsUntouched
  <2>. QED  BY <1>1, <2>1, <2>2, <2>3, PhaseDef DEF OrderStep, Order!Hand, Order!Move
<1>3. CASE c \notin Claimable(AgentMachine[work[w].agent])
  <2>1. status'[c] = status[c] \/ (status[c] = "pending" /\ status'[c] = "expired")
    BY <1>3 DEF ServePoll, Claim, PendingOf
  <2>2. \A v \in Worker : CarriedBy(v, c)' => CarriedBy(v, c)
    BY <1>3 DEF ServePoll, Serve, CarriedBy, Is, IInv, TypeOK
  <2>. QED  BY <1>1, <2>1, <2>2, QuietStep DEF Held
<1>. QED  BY <1>2, <1>3

\* A start is the order's only start.
LEMMA StartStep ==
  ASSUME IInv, NEW a \in Agent, NEW d \in Command, Start(a, d), NEW c \in Command
  PROVE  OrderStep(c)
<1>1. CASE c = d
  <2>1. runs[c] = 0 /\ runs'[c] = 1 /\ status[c] \in {"claimed", "deleted"}
    BY <1>1 DEF Start, IInv, Custody, LocalIsFaithful, CopyIsClaimed, TypeOK
  <2>2. Held(c)
    BY <1>1 DEF Start, Held
  <2>. QED  BY <2>1, <2>2, PhaseDef DEF OrderStep, Order!Start, Order!Move
<1>2. CASE c # d
  <2>1. runs'[c] = runs[c] /\ status'[c] = status[c]
    BY <1>2 DEF Start, queueVars, IInv, TypeOK
  <2>2. \A b \in Agent : local'[b][c] = local[b][c]
    BY <1>2 DEF Start, Move, IInv, TypeOK
  <2>. QED  BY <2>1, <2>2, QuietStep DEF Start, Held, CarriedBy, Is
<1>. QED  BY <1>1, <1>2

\* A response that arrives keeps its commands held; one that does not voids them.
LEMMA DeliverStep ==
  ASSUME IInv, NEW w \in Worker, Deliver(w), NEW c \in Command
  PROVE  OrderStep(c)
<1>1. runs'[c] = runs[c] /\ status'[c] = status[c]
  BY DEF Deliver, queueVars
<1>2. \A v \in Worker : CarriedBy(v, c)' => CarriedBy(v, c)
  BY DEF Deliver, Serve, Idle, CarriedBy, Is, IInv, TypeOK
<1>3. \A a \in Agent : local'[a][c] = "inHand" =>
        local[a][c] = "inHand" \/ CarriedBy(w, c)
  BY DEF Deliver, CarriedBy, Is, IInv, TypeOK
<1>. QED  BY <1>1, <1>2, <1>3, QuietStep DEF Held

\* Issuing a command issues the order.
LEMMA IssueStep ==
  ASSUME IInv, NEW d \in Command, NEW m \in Machine, Issue(d, m), NEW c \in Command
  PROVE  OrderStep(c)
<1>1. runs'[c] = runs[c] /\ Held(c)' = Held(c)
  BY DEF Issue, agentVars, Held, CarriedBy, Is
<1>2. CASE c = d
  <2>1. status[c] = "unissued" /\ status'[c] = "pending" /\ runs[c] = 0
    BY <1>2 DEF Issue, Create, IInv, TypeOK, QueueTypeOK, Custody, UnclaimedIsUntouched
  <2>. QED  BY <1>1, <2>1, PhaseDef DEF OrderStep, Order!Queue, Order!Move
<1>3. CASE c # d
  <2>1. status'[c] = status[c]
    BY <1>3 DEF Issue, Create, IInv, TypeOK, QueueTypeOK
  <2>. QED  BY <1>1, <2>1, QuietStep
<1>. QED  BY <1>2, <1>3

(* Steps that change rows and touch no copy.                               *)
LEMMA QueueStep ==
  ASSUME IInv, NEW c \in Command, Sweep \/ \E d \in Command : Cancel(d) \/ Expire(d)
  PROVE  OrderStep(c)
<1>1. runs'[c] = runs[c] /\ local' = local /\ work' = work
  BY DEF Sweep, Cancel, Expire, agentVars
<1>2. \/ status'[c] = status[c]
      \/ status[c] # "unissued" /\ status'[c] \notin {"unissued", "pending"}
  BY DEF Sweep, ExpireStale, Cancel, CancelIfPending, Expire, Lapse, IInv, TypeOK, QueueTypeOK
<1>. QED  BY <1>1, <1>2, QuietStep DEF Held, CarriedBy, Is

(* Steps of the request threads that hand nothing out.                     *)
LEMMA ThreadStep ==
  ASSUME IInv, NEW c \in Command,
         \/ \E w \in Worker : DeleteCommit(w) \/ CheckResult(w)
         \/ \E w \in Worker, m \in Machine : DeleteRead(w, m)
         \/ HubRestart
  PROVE  OrderStep(c)
<1>1. runs'[c] = runs[c] /\ local' = local
  BY DEF DeleteCommit, CheckResult, DeleteRead, HubRestart, agentVars
<1>2. ASSUME NEW v \in Worker, CarriedBy(v, c)' PROVE CarriedBy(v, c)
  <2>1. \/ work'[v] = work[v]
        \/ work'[v].kind \in {"idle", "delete", "record"}
    <3>1. ASSUME NEW w \in Worker, NEW r, Serve(w, r), r.kind \in {"idle", "delete", "record"}
          PROVE  work'[v] = work[v] \/ work'[v].kind \in {"idle", "delete", "record"}
      BY <3>1 DEF Serve, IInv, TypeOK
    <3>2. Idle.kind = "idle"
      BY DEF Idle
    <3>3. ASSUME NEW w \in Worker, CheckResult(w)
          PROVE  work'[v] = work[v] \/ work'[v].kind \in {"idle", "delete", "record"}
      <4>1. [work[w] EXCEPT !.kind = "record"].kind = "record"
        BY DEF IInv, TypeOK, Request
      <4>. QED  BY <3>1, <3>2, <3>3, <4>1 DEF CheckResult
    <3>4. ASSUME NEW w \in Worker, NEW m \in Machine, DeleteRead(w, m)
          PROVE  work'[v] = work[v] \/ work'[v].kind \in {"idle", "delete", "record"}
      BY <3>4 DEF DeleteRead, Serve, Idle, IInv, TypeOK
    <3>. QED  BY <3>1, <3>2, <3>3, <3>4 DEF DeleteCommit, HubRestart
  <2>. QED  BY <1>2, <2>1 DEF CarriedBy, Is
<1>3. \/ status'[c] = status[c]
      \/ status[c] # "unissued" /\ status'[c] \notin {"unissued", "pending"}
  <2>1. ASSUME NEW w \in Worker, DeleteCommit(w)
        PROVE  \/ status'[c] = status[c]
               \/ status[c] # "unissued" /\ status'[c] \notin {"unissued", "pending"}
    BY <2>1 DEF DeleteCommit, DeleteRows, HasRow, NoRow, IInv, TypeOK, QueueTypeOK
  <2>2. ASSUME \/ \E w \in Worker : CheckResult(w)
               \/ \E w \in Worker, m \in Machine : DeleteRead(w, m)
               \/ HubRestart
        PROVE  status' = status
    BY <2>2 DEF CheckResult, DeleteRead, HubRestart, queueVars
  <2>. QED  BY <2>1, <2>2
<1>. QED  BY <1>1, <1>2, <1>3, QuietStep DEF Held

\* Recording a result never changes whether the command was started.
LEMMA WriteStep ==
  ASSUME IInv, NEW w \in Worker, WriteResult(w), NEW c \in Command
  PROVE  OrderStep(c)
<1>1. runs'[c] = runs[c] /\ local' = local
  BY DEF WriteResult, agentVars
<1>2. \A v \in Worker : CarriedBy(v, c)' => CarriedBy(v, c)
  BY DEF WriteResult, Serve, Idle, CarriedBy, Is, IInv, TypeOK
<1>3. PICK d \in work[w].cmds : RecordResult(d, work[w].ok)
  BY DEF WriteResult
<1>4. \/ status'[c] = status[c]
      \/ status[c] # "unissued" /\ status'[c] \notin {"unissued", "pending"}
  BY <1>3 DEF RecordResult, HasRow, NoRow, IInv, TypeOK, QueueTypeOK
<1>. QED  BY <1>1, <1>2, <1>4, QuietStep DEF Held

(* Steps of the agent that start nothing.                                  *)
LEMMA AgentQuietStep ==
  ASSUME IInv, NEW c \in Command, NEW a \in Agent,
         \/ Enroll(a) \/ PollGivenUp(a) \/ AgentRestart(a)
         \/ \E w \in Worker : Poll(a, w)
         \/ \E d \in Command : \/ Refuse(a, d) \/ ReportLost(a, d)
                               \/ \E ok \in BOOLEAN : Finish(a, d, ok)
                               \/ \E w \in Worker : Report(a, d, w)
  PROVE  OrderStep(c)
<1>1. runs'[c] = runs[c] /\ status'[c] = status[c]
  BY DEF Enroll, PollGivenUp, AgentRestart, Poll, Refuse, ReportLost, Finish, Report, agentVars,
     queueVars
<1>2. ASSUME NEW v \in Worker, CarriedBy(v, c)' PROVE CarriedBy(v, c)
  <2>1. work'[v] = work[v] \/ work'[v].kind \in {"poll", "result"}
    <3>1. ASSUME NEW w \in Worker, Poll(a, w)
          PROVE  work'[v] = work[v] \/ work'[v].kind \in {"poll", "result"}
      BY <3>1 DEF Poll, Serve, Idle, IInv, TypeOK
    <3>2. ASSUME NEW w \in Worker, NEW d \in Command, Report(a, d, w)
          PROVE  work'[v] = work[v] \/ work'[v].kind \in {"poll", "result"}
      BY <3>2 DEF Report, Serve, Idle, IInv, TypeOK
    <3>. QED  BY <3>1, <3>2
         DEF Enroll, PollGivenUp, AgentRestart, Refuse, ReportLost, Finish
  <2>. QED  BY <1>2, <2>1 DEF CarriedBy, Is
<1>3. ASSUME NEW b \in Agent, local'[b][c] = "inHand" PROVE local[b][c] = "inHand"
  <2>1. CASE Enroll(a) \/ PollGivenUp(a) \/ \E w \in Worker : Poll(a, w)
    BY <1>3, <2>1 DEF Enroll, PollGivenUp, Poll, agentVars
  <2>2. CASE AgentRestart(a)
    BY <1>3, <2>2 DEF AgentRestart, IInv, TypeOK
  <2>3. ASSUME NEW d \in Command, NEW place \in Place \ {"inHand"}, Move(a, d, place)
        PROVE  local[b][c] = "inHand"
    BY <1>3, <2>3 DEF Move, IInv, TypeOK
  <2>. QED  BY <2>1, <2>2, <2>3 DEF Refuse, ReportLost, Finish, Report, Place
<1>. QED  BY <1>1, <1>2, <1>3, QuietStep DEF Held

(* The delivery, with every fault it admits, implements the promise.       *)
THEOREM Refinement == Spec => ImplementsWorkOrder
<1>1. Init => Order!Init
  <2> SUFFICES ASSUME Init PROVE Order!Init  OBVIOUS
  <2>. QED  BY DEF Init, QueueInit, Order!Init, phaseOf
<1>2. IInv /\ [Next]_vars => [Order!Next]_Order!vars
  <2> SUFFICES ASSUME IInv, [Next]_vars PROVE [Order!Next]_Order!vars  OBVIOUS
  <2>1. CASE UNCHANGED vars
    BY <2>1 DEF vars, queueVars, agentVars, Order!vars, phaseOf, Held, CarriedBy, Is
  <2>2. ASSUME Next, NEW c \in Command PROVE OrderStep(c)
    BY <2>2, ServeStep, StartStep, DeliverStep, IssueStep, QueueStep, ThreadStep, WriteStep, AgentQuietStep
    DEF Next, HubStep, AgentStep
  <2>. QED  BY <2>1, <2>2 DEF OrderStep, Order!Next
<1>. QED  BY <1>1, <1>2, Invariance, PTL DEF Spec, ImplementsWorkOrder, Order!Spec
================================================================================
