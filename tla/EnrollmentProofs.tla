----------------------------- MODULE EnrollmentProofs -----------------------------
(***************************************************************************)
(* Who holds a machine's name, for any number of installs, names, codes    *)
(* and request threads.                                                    *)
(*                                                                         *)
(* A request reads and writes in transactions of its own, several          *)
(* connections apart.  What makes it right is what cannot change under it: *)
(* a gate is held by one request, a row that is gone stays gone, and a     *)
(* named row leaves its name only by the delete that holds the gate, or by *)
(* straying, which the model remembers.  Each part below says that of one  *)
(* place of a request.                                                     *)
(***************************************************************************)
EXTENDS Enrollment, FiniteSetTheorems, TLAPS

USE EnrollmentAssumption

-------------------------------------------------------------------------------
(* The invariant.                                                          *)

OfAnAgent == Beating \cup Reply \cup {"report", "authorize", "store"}
OfAName == Minting \cup Gated \cup {"report", "wipe"}

\* What a request has at each of its places.
CallTyped(call) ==
    /\ call \in Call
    /\ call.pc \in Minting \cup OfAnAgent => call.by \in Install
    /\ call.pc \in OfAnAgent \cup {"drop"} => call.agent \in Agent
    /\ call.pc \in OfAName => call.machine \in Machine
    /\ call.pc = "authorize" => call.was \in Machine
    /\ call.pc \in {"redeem", "mark"} => call.code \in Code

Typed == EnrollTypeOK /\ \A w \in Worker : CallTyped(work[w])

Unissued == {a \in Agent : agents[a].state = "unissued"}
Minters == {w \in Worker : work[w].pc \in Minting}

\* Whoever is to be inserted has an id left.
RoomIsKept == IsFiniteSet(Minters) /\ Cardinality(Minters) <= Cardinality(Unissued)

\* Ids are given out in their order.
Numbered == \E n \in 0..MaxAgents : \A a \in Agent : a \in Unissued <=> a > n

\* Nobody refers to an id that was not given out.
Given(a) == a # NoAgent => agents[a].state # "unissued"
AllGiven ==
    /\ \A w \in Worker : Given(work[w].agent) /\ \A a \in work[w].rows : Given(a)
    /\ \A i \in Install : Given(identity[i])
    /\ \A c \in Code : Given(codes[c].agent)
    /\ \A m \in Machine : Given(record[m].by)
    /\ \A a \in strayed \cup tombs : Given(a)

Gone(a) == agents[a].state = "gone"
Holds(a) == Redeemed(a) \/ a \in strayed
OneHolds == \A a, b \in Agent :
    /\ agents[a].state = "live" /\ Holds(a)
    /\ agents[b].state = "live" /\ Holds(b)
    /\ agents[a].machine = agents[b].machine
    => a = b

\* A gate has one holder.
GatesHold == \A v, w \in Worker :
    work[v].pc \in Gated /\ work[w].pc \in Gated /\ work[v].machine = work[w].machine => v = w

\* A report that is authorized for its own name, or has been, is its agent's.
Named(a, m) == a \in strayed \/ (HasRow(a) /\ agents[a].machine = m)
ReportsAreNamed == \A w \in Worker :
    \/ At(w, "authorize") /\ work[w].was = work[w].machine
    \/ At(w, "store")
    => Named(work[w].agent, work[w].machine)

\* So is the record it leaves, until a delete is about to wipe it.
RecordsAreNamed == \A m \in Machine :
    LET a == record[m].by
    IN  \/ a = NoAgent \/ Named(a, m)
        \/ Gone(a) /\ \E w \in Worker : At(w, "wipe") /\ work[w].machine = m

\* The agents a delete is to tell have the name it holds the gate of.
TicksAreNamed == \A w \in Worker :
    At(w, "erase") => \A a \in work[w].rows : Named(a, work[w].machine)

\* An answer that costs a credential: its agent is gone for good.
Finished(a) == Gone(a) /\ (a \in tombs => a \in strayed)
RefusalsAreFinal ==
    /\ \A w \in Worker :
         /\ At(w, "reason") => agents[work[w].agent].state \in {"revoked", "gone"}
         /\ At(w, "tomb") => Gone(work[w].agent)
         /\ At(w, "unknown") => Finished(work[w].agent)
    /\ \A a \in forgotten : Finished(a)

EnrollIInv ==
    /\ Typed /\ RoomIsKept /\ Numbered /\ AllGiven /\ OneHolds /\ GatesHold
    /\ ReportsAreNamed /\ RecordsAreNamed /\ TicksAreNamed /\ RefusalsAreFinal

-------------------------------------------------------------------------------
(* Ids.                                                                    *)

\* An id is a positive number, and none is the id of no agent.
LEMMA AgentIds ==
  /\ NoAgent \notin Agent /\ IsFiniteSet(Agent)
  /\ \A S : S \subseteq Agent => IsFiniteSet(S)
<1>1. NoAgent \notin Agent
  BY DEF NoAgent, Agent
<1>2. IsFiniteSet(Agent)
  BY FS_Interval DEF Agent
<1>. QED  BY <1>1, <1>2, FS_Subset

\* As long as there is room, the next id is one that was not given out.
LEMMA FreshIsUnissued ==
  ASSUME Typed, RoomIsKept, Numbered, NEW w \in Worker, work[w].pc \in Minting
  PROVE  /\ Fresh \in Agent /\ agents[Fresh].state = "unissued"
         /\ \A b \in Agent : agents[b].state = "unissued" => Fresh <= b
<1>1. IsFiniteSet(Unissued) /\ IsFiniteSet(Minters)
  BY AgentIds DEF Unissued, RoomIsKept
<1>2. Cardinality(Minters) # 0
  BY <1>1, FS_EmptySet DEF Minters
<1>3. Unissued # {}
  BY <1>1, <1>2, FS_EmptySet, FS_CardinalityType DEF RoomIsKept
<1>4. PICK n \in 0..MaxAgents : \A a \in Agent : a \in Unissued <=> a > n
  BY DEF Numbered
<1>5. n + 1 \in Unissued /\ \A b \in Unissued : n + 1 <= b
  <2>1. PICK a \in Agent : a > n
    BY <1>3, <1>4 DEF Unissued
  <2>2. n + 1 \in Agent
    BY <2>1 DEF Agent
  <2>3. \A b \in Unissued : b \in Agent /\ b > n
    BY <1>4 DEF Unissued
  <2>. QED  BY <1>4, <2>2, <2>3 DEF Agent
<1>6. \E a \in Agent : agents[a].state = "unissued" /\ \A b \in Agent :
          agents[b].state = "unissued" => a <= b
  BY <1>5 DEF Unissued
<1>. QED  BY <1>6 DEF Fresh

-------------------------------------------------------------------------------
(* What becomes of a request.                                              *)

\* It is let alone, but that nobody may listen any more.
Same(w) ==
    /\ work'[w] \in Call
    /\ work'[w].pc = work[w].pc /\ work'[w].by = work[w].by /\ work'[w].agent = work[w].agent
    /\ work'[w].machine = work[w].machine /\ work'[w].was = work[w].was
    /\ work'[w].code = work[w].code /\ work'[w].rows = work[w].rows

Asked(w) ==
    \E i \in Install : \/ AskToEnroll(i, w) \/ Beat(i, w) \/ Report(i, w)
                       \/ \E c \in Code : AskToRedeem(i, c, w)

Moves(w) ==
    \/ Same(w) \/ work'[w] = Idle \/ Asked(w)
    \/ EnrollAgent(w) \/ RedeemCode(w)
    \/ AuthenticateBeat(w) \/ FindReason(w) \/ FindTomb(w)
    \/ AuthenticateReport(w) \/ AuthorizeReport(w)
    \/ \E m \in Machine, ticked \in BOOLEAN : StartDelete(m, ticked, w)
    \/ EraseMachine(w)
    \/ \E c \in Code : StartRevokeCode(c, w)
    \/ MarkRevoked(w)

LEMMA CallMoves ==
  ASSUME work \in [Worker -> Call], [Next]_enrollVars, NEW w \in Worker
  PROVE  Moves(w)
<1>1. work[w] \in Call
  OBVIOUS
<1>2. ASSUME work'[w] = work[w]  PROVE Moves(w)
  BY <1>1, <1>2 DEF Moves, Same
<1>3. ASSUME NEW v \in Worker, v # w, NEW call, Go(v, call)  PROVE Moves(w)
  BY <1>2, <1>3 DEF Go
<1>4. CASE UNCHANGED work
  BY <1>2, <1>4
<1>5. ASSUME NEW v \in Worker, NEW i \in Install, Ask(i, v) \/ Report(i, v) \/ \E c \in Code : AskToRedeem(i, c, v)
      PROVE  Moves(w)
  <2>1. CASE v = w
    BY <1>5, <2>1 DEF Ask, Asked, Moves
  <2>2. CASE v # w
    BY <1>3, <1>5, <2>2 DEF Ask, AskToEnroll, Beat, Report, AskToRedeem
  <2>. QED  BY <2>1, <2>2
<1>6. ASSUME NEW v \in Worker, Serve(v)  PROVE Moves(w)
  <2>1. CASE RedeemRefused(v) \/ Unheard(v) \/ RefuseName(v) \/ StoreReport(v) \/ WipeRecord(v) \/ DropAgent(v)
    <3>1. Go(v, Idle)
      BY <2>1 DEF RedeemRefused, Unheard, RefuseName, StoreReport, WipeRecord, DropAgent
    <3>2. CASE v = w
      BY <3>1, <3>2 DEF Go, Moves
    <3>. QED  BY <1>3, <3>1, <3>2
  <2>2. CASE EnrollAgent(v) \/ RedeemCode(v)
    <3>1. \E call : Go(v, call)
      BY <2>2 DEF EnrollAgent, RedeemCode, InsertAgent
    <3>. QED  BY <1>3, <2>2, <3>1 DEF Moves
  <2>3. CASE AuthenticateBeat(v) \/ FindReason(v) \/ FindTomb(v)
    <3>1. \E call : Go(v, call)
      BY <2>3 DEF AuthenticateBeat, FindReason, FindTomb, Becomes
    <3>. QED  BY <1>3, <2>3, <3>1 DEF Moves
  <2>4. CASE AuthenticateReport(v) \/ AuthorizeReport(v)
    <3>1. \E call : Go(v, call)
      BY <2>4 DEF AuthenticateReport, AuthorizeReport
    <3>. QED  BY <1>3, <2>4, <3>1 DEF Moves
  <2>5. CASE EraseMachine(v) \/ MarkRevoked(v)
    <3>1. \E call : Go(v, call)
      BY <2>5 DEF EraseMachine, MarkRevoked, Becomes
    <3>. QED  BY <1>3, <2>5, <3>1 DEF Moves
  <2>. QED  BY <1>6, <2>1, <2>2, <2>3, <2>4, <2>5 DEF Serve
<1>7. ASSUME NEW v \in Worker, Minted(v)  PROVE Moves(w)
  <2>1. CASE v = w
    BY <1>7, <2>1 DEF Minted, Deaf, Moves
  <2>2. CASE v # w
    <3>1. work'[w] = [work[w] EXCEPT !.heard = FALSE] \/ work'[w] = work[w]
      BY <1>7, <2>2 DEF Minted, Deaf
    <3>. QED  BY <1>1, <1>2, <3>1 DEF Moves, Same, Call
  <2>. QED  BY <2>1, <2>2
<1>8. ASSUME NEW v \in Worker, Accepted(v) \/ StayDown(v) \/ Forget(v) \/ Strike(v)  PROVE Moves(w)
  <2>1. Go(v, Idle)
    BY <1>8 DEF Accepted, StayDown, Forget, Strike, HearBeat
  <2>2. CASE v = w
    BY <2>1, <2>2 DEF Go, Moves
  <2>. QED  BY <1>3, <2>1, <2>2
<1>9. ASSUME NEW v \in Worker, GiveUp(v)  PROVE Moves(w)
  <2>1. work'[w] = [work[w] EXCEPT !.heard = FALSE] \/ work'[w] = work[w]
    BY <1>9 DEF GiveUp, Go
  <2>. QED  BY <1>1, <1>2, <2>1 DEF Moves, Same, Call
<1>10. CASE Restarts
  <2>1. work'[w] = [work[w] EXCEPT !.heard = FALSE] \/ work'[w] = work[w]
    BY <1>10 DEF Restarts, Restart, Deaf
  <2>. QED  BY <1>1, <1>2, <2>1 DEF Moves, Same, Call
<1>11. ASSUME NEW m \in Machine, NEW ticked \in BOOLEAN, NEW v \in Worker, StartDelete(m, ticked, v)
       PROVE  Moves(w)
  BY <1>3, <1>11 DEF StartDelete, Moves
<1>12. ASSUME NEW c \in Code, CreateCode(c) \/ ExpireCode(c) \/ \E v \in Worker : StartRevokeCode(c, v)
       PROVE  Moves(w)
  BY <1>3, <1>4, <1>12 DEF CreateCode, ExpireCode, StartRevokeCode, Moves
<1>13. ASSUME NEW a \in Agent, RevokeAgent(a) \/ PruneEnrollments(a) \/ PruneTomb(a)  PROVE Moves(w)
  BY <1>4, <1>13 DEF RevokeAgent, PruneEnrollments, PruneTomb
<1>14. CASE UNCHANGED enrollVars
  BY <1>4, <1>14 DEF enrollVars, hubVars
<1>. QED
  BY <1>5, <1>6, <1>7, <1>8, <1>9, <1>10, <1>11, <1>12, <1>13, <1>14 DEF Next, Hear

-------------------------------------------------------------------------------
(* What becomes of an agent's row.                                         *)

AgentStays(a) == agents'[a].state = agents[a].state /\ agents'[a].machine = agents[a].machine
Born(a) ==
    /\ agents[a].state = "unissued" /\ agents'[a].state = "live" /\ a = Fresh
    /\ \E w \in Worker : EnrollAgent(w) \/ RedeemCode(w)
    /\ \A w \in Worker : EnrollAgent(w) \/ RedeemCode(w) => agents'[a].machine = work[w].machine
Strays(a) ==
    /\ HasRow(a) /\ agents'[a].state = agents[a].state /\ a \in strayed'
    /\ \E w \in Worker : /\ AuthorizeReport(w) /\ work[w].was # work[w].machine
                         /\ work[w].agent = a /\ agents'[a].machine = work[w].machine
Leaves(a) == HasRow(a) /\ Gone(a)' /\ agents'[a].machine = NoMachine
Erased(a) == Leaves(a) /\ \E w \in Worker : EraseMachine(w) /\ agents[a].machine = work[w].machine
Pruned(a) == Leaves(a) /\ a \in strayed' /\ \E n \in Agent : PruneEnrollments(n)
Barred(a) ==
    /\ agents[a].state = "live" /\ agents'[a].state = "revoked"
    /\ agents'[a].machine = agents[a].machine

AgentMoves(a) == AgentStays(a) \/ Born(a) \/ Strays(a) \/ Erased(a) \/ Pruned(a) \/ Barred(a)

\* These steps do not write the table.
LEMMA AgentsUntouched ==
  ASSUME [Next]_enrollVars,
         ~ \E w \in Worker : \/ EnrollAgent(w) \/ RedeemCode(w) \/ AuthenticateBeat(w)
                             \/ AuthenticateReport(w) \/ AuthorizeReport(w)
                             \/ EraseMachine(w) \/ DropAgent(w),
         ~ \E a \in Agent : RevokeAgent(a) \/ PruneEnrollments(a)
  PROVE  UNCHANGED agents
<1>1. CASE UNCHANGED enrollVars
  BY <1>1 DEF enrollVars, hubVars
<1>2. CASE \E w \in Worker : Serve(w)
  BY <1>2 DEF Serve, RedeemRefused, FindReason, FindTomb, Unheard, RefuseName, StoreReport, WipeRecord,
              MarkRevoked
<1>3. CASE \E w \in Worker : Hear(w) \/ GiveUp(w)
  BY <1>3 DEF Hear, Minted, Accepted, StayDown, Forget, Strike, HearBeat, GiveUp
<1>4. CASE \E i \in Install, w \in Worker : Ask(i, w) \/ Report(i, w) \/ \E c \in Code : AskToRedeem(i, c, w)
  BY <1>4 DEF Ask, AskToEnroll, Beat, Report, AskToRedeem
<1>5. CASE \/ Restarts
           \/ \E m \in Machine, ticked \in BOOLEAN, w \in Worker : StartDelete(m, ticked, w)
           \/ \E c \in Code : CreateCode(c) \/ ExpireCode(c) \/ \E w \in Worker : StartRevokeCode(c, w)
           \/ \E a \in Agent : PruneTomb(a)
  BY <1>5 DEF Restarts, Restart, StartDelete, CreateCode, ExpireCode, StartRevokeCode, PruneTomb
<1>. QED  BY <1>1, <1>2, <1>3, <1>4, <1>5 DEF Next

LEMMA AgentsMove ==
  ASSUME Typed, RoomIsKept, Numbered, [Next]_enrollVars
  PROVE  agents' \in [Agent -> AgentRow] /\ \A a \in Agent : AgentMoves(a)
<1>0. /\ agents \in [Agent -> AgentRow] /\ work \in [Worker -> Call]
      /\ \A a \in Agent : HasRow(a) <=> agents[a].machine # NoMachine
      /\ \A w \in Worker : CallTyped(work[w])
  BY DEF Typed, EnrollTypeOK
<1>1. CASE UNCHANGED agents
  BY <1>0, <1>1 DEF AgentMoves, AgentStays
<1>2. ASSUME NEW w \in Worker, EnrollAgent(w) \/ RedeemCode(w)
      PROVE  agents' \in [Agent -> AgentRow] /\ \A a \in Agent : AgentMoves(a)
  <2>1. work[w].pc \in Minting /\ work[w].machine \in Machine
    BY <1>0, <1>2 DEF EnrollAgent, RedeemCode, At, Minting, CallTyped, OfAName
  <2>2. Fresh \in Agent /\ agents[Fresh].state = "unissued"
    BY <2>1, FreshIsUnissued
  <2>3. \A v \in Worker : EnrollAgent(v) \/ RedeemCode(v) =>
          agents' = [agents EXCEPT ![Fresh] = [state |-> "live", machine |-> work[v].machine, proven |-> FALSE]]
    BY DEF EnrollAgent, RedeemCode, InsertAgent
  <2>4. agents' = [agents EXCEPT ![Fresh] = [state |-> "live", machine |-> work[w].machine, proven |-> FALSE]]
    BY <1>2, <2>3
  <2> HIDE DEF Fresh
  <2>5. agents' \in [Agent -> AgentRow]
    BY <1>0, <2>1, <2>2, <2>4 DEF AgentRow
  <2>6. \A a \in Agent : a # Fresh => AgentStays(a)
    BY <1>0, <2>2, <2>4 DEF AgentStays
  <2>7. Born(Fresh)
    BY <1>0, <1>2, <2>2, <2>3, <2>4 DEF Born
  <2>. QED  BY <2>5, <2>6, <2>7 DEF AgentMoves
<1>3. ASSUME NEW w \in Worker, AuthenticateBeat(w) \/ AuthenticateReport(w)
      PROVE  agents' \in [Agent -> AgentRow] /\ \A a \in Agent : AgentMoves(a)
  <2>1. UNCHANGED agents \/ agents' = [agents EXCEPT ![work[w].agent].proven = TRUE]
    BY <1>3 DEF AuthenticateBeat, AuthenticateReport, Proven
  <2>2. ASSUME NEW b, agents' = [agents EXCEPT ![b].proven = TRUE]
        PROVE  agents' \in [Agent -> AgentRow] /\ \A a \in Agent : AgentStays(a)
    <3>1. ASSUME NEW a \in Agent  PROVE agents'[a] \in AgentRow /\ AgentStays(a)
      <4>1. agents[a] \in AgentRow
        BY <1>0
      <4>2. agents'[a] = agents[a] \/ agents'[a] = [agents[a] EXCEPT !.proven = TRUE]
        BY <1>0, <2>2
      <4>. QED  BY <4>1, <4>2 DEF AgentRow, AgentStays
    <3>2. agents' \in [Agent -> AgentRow]
      BY <1>0, <2>2, <3>1
    <3>. QED  BY <3>1, <3>2
  <2>. QED  BY <1>1, <2>1, <2>2 DEF AgentMoves
<1>4. ASSUME NEW w \in Worker, AuthorizeReport(w)
      PROVE  agents' \in [Agent -> AgentRow] /\ \A a \in Agent : AgentMoves(a)
  <2>1. work[w].machine \in Machine /\ work[w].agent \in Agent
    BY <1>0, <1>4 DEF AuthorizeReport, At, CallTyped, OfAName, OfAnAgent, Gated
  <2>2. CASE work[w].was # work[w].machine /\ HasRow(work[w].agent)
    <3>1. agents' = [agents EXCEPT ![work[w].agent].machine = work[w].machine]
          /\ work[w].agent \in strayed'
      BY <1>4, <2>2 DEF AuthorizeReport
    <3>2. agents' \in [Agent -> AgentRow]
      BY <1>0, <2>1, <3>1 DEF AgentRow
    <3>3. \A a \in Agent : a # work[w].agent => AgentStays(a)
      BY <1>0, <3>1 DEF AgentStays
    <3>4. Strays(work[w].agent)
      <4>1. /\ agents'[work[w].agent].state = agents[work[w].agent].state
            /\ agents'[work[w].agent].machine = work[w].machine
        BY <1>0, <2>1, <3>1 DEF AgentRow
      <4>. QED  BY <1>4, <2>2, <3>1, <4>1 DEF Strays
    <3>. QED  BY <3>2, <3>3, <3>4 DEF AgentMoves
  <2>3. CASE ~(work[w].was # work[w].machine /\ HasRow(work[w].agent))
    BY <1>1, <1>4, <2>3 DEF AuthorizeReport
  <2>. QED  BY <2>2, <2>3
<1>5. ASSUME NEW w \in Worker, EraseMachine(w)
      PROVE  agents' \in [Agent -> AgentRow] /\ \A a \in Agent : AgentMoves(a)
  <2>1. agents' = [a \in Agent |-> IF a \in RowsOf(work[w].machine)
                                   THEN [state |-> "gone", machine |-> NoMachine, proven |-> FALSE]
                                   ELSE agents[a]]
    BY <1>5 DEF EraseMachine
  <2>2. agents' \in [Agent -> AgentRow]
    BY <1>0, <2>1 DEF AgentRow
  <2>3. \A a \in Agent : a \in RowsOf(work[w].machine) => Erased(a)
    BY <1>5, <2>1 DEF RowsOf, Erased, Leaves, Gone
  <2>4. \A a \in Agent : a \notin RowsOf(work[w].machine) => AgentStays(a)
    BY <2>1 DEF AgentStays
  <2>. QED  BY <2>2, <2>3, <2>4 DEF AgentMoves
<1>6. ASSUME NEW b \in Agent, agents' = Revoked(b)
      PROVE  agents' \in [Agent -> AgentRow] /\ \A a \in Agent : AgentMoves(a)
  <2>1. CASE HasRow(b)
    <3>1. agents' = [agents EXCEPT ![b].state = "revoked"]
      BY <1>6, <2>1 DEF Revoked
    <3>2. agents' \in [Agent -> AgentRow]
      BY <1>0, <3>1 DEF AgentRow
    <3>3. \A a \in Agent : AgentStays(a) \/ Barred(a)
      BY <1>0, <2>1, <3>1 DEF AgentStays, Barred, HasRow, AgentRow
    <3>. QED  BY <3>2, <3>3 DEF AgentMoves
  <2>2. CASE ~HasRow(b)
    BY <1>1, <1>6, <2>2 DEF Revoked
  <2>. QED  BY <2>1, <2>2
<1>7. ASSUME NEW w \in Worker, DropAgent(w)
      PROVE  agents' \in [Agent -> AgentRow] /\ \A a \in Agent : AgentMoves(a)
  BY <1>0, <1>6, <1>7 DEF DropAgent, At, CallTyped
<1>8. ASSUME NEW n \in Agent, PruneEnrollments(n)
      PROVE  agents' \in [Agent -> AgentRow] /\ \A a \in Agent : AgentMoves(a)
  <2>1. /\ agents' = [a \in Agent |-> IF a <= n /\ Superseded(a)
                                      THEN [state |-> "gone", machine |-> NoMachine, proven |-> FALSE]
                                      ELSE agents[a]]
        /\ \A a \in 1..n : Superseded(a) => a \in strayed'
    BY <1>8 DEF PruneEnrollments
  <2>2. agents' \in [Agent -> AgentRow]
    BY <1>0, <2>1 DEF AgentRow
  <2>3. \A a \in Agent : a <= n => a \in 1..n
    BY DEF Agent
  <2>4. \A a \in Agent : a <= n /\ Superseded(a) => Pruned(a)
    BY <1>8, <2>1, <2>3 DEF Superseded, HasRow, Pruned, Leaves, Gone
  <2>5. \A a \in Agent : ~(a <= n /\ Superseded(a)) => AgentStays(a)
    BY <2>1 DEF AgentStays
  <2>. QED  BY <2>2, <2>4, <2>5 DEF AgentMoves
<1>9. ASSUME NEW a \in Agent, RevokeAgent(a)
      PROVE  agents' \in [Agent -> AgentRow] /\ \A b \in Agent : AgentMoves(b)
  BY <1>6, <1>9 DEF RevokeAgent
<1>. QED
  BY <1>1, <1>2, <1>3, <1>4, <1>5, <1>7, <1>8, <1>9, AgentsUntouched

\* A row is a row of a name, and stays one.
LEMMA RowsHaveNames ==
  ASSUME Typed, RoomIsKept, Numbered, [Next]_enrollVars
  PROVE  \A a \in Agent : HasRow(a)' <=> agents'[a].machine # NoMachine
<1> SUFFICES ASSUME NEW a \in Agent  PROVE HasRow(a)' <=> agents'[a].machine # NoMachine
  OBVIOUS
<1>1. AgentMoves(a) /\ agents'[a] \in AgentRow
  BY AgentsMove
<1>2. HasRow(a) <=> agents[a].machine # NoMachine
  BY DEF Typed, EnrollTypeOK
<1>3. \A w \in Worker : /\ EnrollAgent(w) \/ RedeemCode(w) \/ AuthorizeReport(w)
                        => work[w].machine \in Machine
  BY DEF Typed, CallTyped, EnrollAgent, RedeemCode, AuthorizeReport, At, OfAName, Minting, Gated
<1>. QED
  BY <1>1, <1>2, <1>3 DEF AgentMoves, AgentStays, Born, Strays, Erased, Pruned, Leaves, Gone, Barred, HasRow

-------------------------------------------------------------------------------
(* Types.                                                                  *)

\* A thread that is idle, and one that has just been asked.
LEMMA IdleTyped == CallTyped(Idle) /\ Idle \in Call
<1>1. Idle \in Call
  BY DEF Idle, Call, Pc
<1>2. Idle.pc = "idle"
  BY DEF Idle
<1>. QED
  BY <1>1, <1>2 DEF CallTyped, OfAnAgent, OfAName, Minting, Beating, Reply, Gated

\* A request stays one, wherever it goes.
LEMMA CallsStayTyped ==
  ASSUME Typed, RoomIsKept, Numbered, [Next]_enrollVars, NEW w \in Worker
  PROVE  CallTyped(work'[w])
<1>0. /\ CallTyped(work[w]) /\ work[w] \in Call /\ work \in [Worker -> Call]
      /\ identity \in [Install -> Agent \cup {NoAgent}] /\ host \in [Install -> Machine]
      /\ agents \in [Agent -> AgentRow]
      /\ codes \in [Code -> [state : {"unmade", "live", "spent", "dead"}, agent : Agent \cup {NoAgent}]]
      /\ \A a \in Agent : HasRow(a) <=> agents[a].machine # NoMachine
  BY DEF Typed, EnrollTypeOK, CallTyped
<1> USE DEF OfAnAgent, OfAName, Minting, Beating, Reply, Gated
<1>1. Moves(w)
  BY <1>0, CallMoves
<1>2. CASE Same(w)
  BY <1>0, <1>2 DEF Same, CallTyped
<1>3. CASE work'[w] = Idle
  BY <1>3, IdleTyped
<1>4. CASE Asked(w)
  <2>1. PICK i \in Install : \/ AskToEnroll(i, w) \/ Beat(i, w) \/ Report(i, w)
                             \/ \E c \in Code : AskToRedeem(i, c, w)
    BY <1>4 DEF Asked
  <2>2. host[i] \in Machine
    BY <1>0
  <2>3. CASE AskToEnroll(i, w)
    <3>1. work'[w] = [Idle EXCEPT !.pc = "enroll", !.by = i, !.machine = host[i], !.heard = TRUE]
      BY <1>0, <2>3 DEF AskToEnroll, Go
    <3>. QED  BY <2>2, <3>1 DEF Idle, CallTyped, Call, Pc
  <2>4. CASE \E c \in Code : AskToRedeem(i, c, w)
    <3>1. PICK c \in Code : work'[w] = [Idle EXCEPT !.pc = "redeem", !.by = i, !.machine = host[i],
                                                    !.code = c, !.heard = TRUE]
      BY <1>0, <2>4 DEF AskToRedeem, Go
    <3>. QED  BY <2>2, <3>1 DEF Idle, CallTyped, Call, Pc
  <2>5. CASE Beat(i, w)
    <3>1. /\ work'[w] = [Idle EXCEPT !.pc = "beat", !.by = i, !.agent = identity[i], !.heard = TRUE]
          /\ identity[i] \in Agent
      BY <1>0, <2>5 DEF Beat, Go
    <3>. QED  BY <3>1 DEF Idle, CallTyped, Call, Pc
  <2>6. CASE Report(i, w)
    <3>1. /\ work'[w] = [Idle EXCEPT !.pc = "report", !.by = i, !.agent = identity[i], !.machine = host[i]]
          /\ identity[i] \in Agent
      BY <1>0, <2>6 DEF Report, Go
    <3>. QED  BY <2>2, <3>1 DEF Idle, CallTyped, Call, Pc
  <2>. QED  BY <2>1, <2>3, <2>4, <2>5, <2>6
<1>5. CASE EnrollAgent(w) \/ RedeemCode(w)
  <2>1. work[w].pc \in Minting
    BY <1>5 DEF EnrollAgent, RedeemCode, At
  <2>2. Fresh \in Agent
    BY <2>1, FreshIsUnissued
  <2>3. work'[w] = [work[w] EXCEPT !.pc = "minted", !.agent = Fresh, !.machine = NoMachine]
    BY <1>0, <1>5 DEF EnrollAgent, RedeemCode, InsertAgent, Go
  <2>4. work[w].by \in Install
    BY <1>0, <2>1 DEF CallTyped
  <2> HIDE DEF Fresh
  <2>5. work'[w] \in Call
    BY <1>0, <2>2, <2>3 DEF Call, Pc
  <2>6. work'[w].pc = "minted" /\ work'[w].agent = Fresh /\ work'[w].by = work[w].by
    BY <1>0, <2>3 DEF Call
  <2>. QED  BY <2>2, <2>4, <2>5, <2>6 DEF CallTyped
<1>6. CASE AuthenticateBeat(w) \/ FindReason(w) \/ FindTomb(w)
  <2>1. /\ \E pc \in {"ok", "reason", "tomb", "revoked", "unknown", "decommissioned"} :
              work'[w] = [work[w] EXCEPT !.pc = pc]
        /\ work[w].pc \in Beating
    <3>1. CASE AuthenticateBeat(w)
      BY <1>0, <3>1 DEF AuthenticateBeat, Becomes, Go, At
    <3>2. CASE FindReason(w)
      BY <1>0, <3>2 DEF FindReason, Becomes, Go, At
    <3>3. CASE FindTomb(w)
      BY <1>0, <3>3 DEF FindTomb, Becomes, Go, At
    <3>. QED  BY <1>6, <3>1, <3>2, <3>3
  <2>. QED  BY <1>0, <2>1 DEF CallTyped, Call, Pc
<1>7. CASE AuthenticateReport(w)
  <2>1. work[w].pc = "report" /\ work[w].agent \in Agent
    BY <1>0, <1>7 DEF AuthenticateReport, At, CallTyped
  <2>2. CASE agents[work[w].agent].state = "live"
    <3>1. agents[work[w].agent].machine \in Machine
      BY <1>0, <2>1, <2>2 DEF HasRow, AgentRow
    <3>2. work'[w] = [work[w] EXCEPT !.pc = "authorize", !.was = agents[work[w].agent].machine]
      BY <1>0, <1>7, <2>2 DEF AuthenticateReport, Go
    <3>. QED  BY <1>0, <2>1, <3>1, <3>2 DEF CallTyped, Call, Pc
  <2>3. CASE agents[work[w].agent].state # "live"
    <3>1. work'[w] = Idle
      BY <1>0, <1>7, <2>3 DEF AuthenticateReport, Go
    <3>. QED  BY <3>1, IdleTyped
  <2>. QED  BY <2>2, <2>3
<1>8. CASE AuthorizeReport(w)
  <2>1. work'[w] = [work[w] EXCEPT !.pc = "store", !.was = NoMachine] /\ work[w].pc = "authorize"
    BY <1>0, <1>8 DEF AuthorizeReport, Go, At
  <2>. QED  BY <1>0, <2>1 DEF CallTyped, Call, Pc
<1>9. ASSUME NEW m \in Machine, NEW ticked \in BOOLEAN, StartDelete(m, ticked, w)  PROVE CallTyped(work'[w])
  <2>1. PICK S \in SUBSET Agent : work'[w] = [Idle EXCEPT !.pc = "erase", !.machine = m, !.rows = S]
    BY <1>0, <1>9 DEF StartDelete, Go, RowsOf
  <2>. QED  BY <2>1 DEF Idle, CallTyped, Call, Pc
<1>10. CASE EraseMachine(w)
  <2>1. work'[w] = [work[w] EXCEPT !.pc = "wipe", !.rows = {}] /\ work[w].pc = "erase"
    BY <1>0, <1>10 DEF EraseMachine, Go, At
  <2>. QED  BY <1>0, <2>1 DEF CallTyped, Call, Pc
<1>11. ASSUME NEW c \in Code, StartRevokeCode(c, w)  PROVE CallTyped(work'[w])
  <2>1. /\ work'[w] = [Idle EXCEPT !.pc = "mark", !.code = c, !.agent = codes[c].agent]
        /\ codes[c].agent \in Agent \cup {NoAgent}
    BY <1>0, <1>11 DEF StartRevokeCode, Go
  <2>. QED  BY <2>1 DEF Idle, CallTyped, Call, Pc
<1>12. CASE MarkRevoked(w)
  <2>1. \/ work'[w] = Idle
        \/ work'[w] = [work[w] EXCEPT !.pc = "drop"] /\ work[w].agent # NoAgent
    BY <1>0, <1>12 DEF MarkRevoked, Becomes, Go
  <2>2. work[w].agent # NoAgent => work[w].agent \in Agent
    BY <1>0 DEF Call
  <2>. QED  BY <1>0, <2>1, <2>2, IdleTyped DEF CallTyped, Call, Pc
<1>. QED
  BY <1>1, <1>2, <1>3, <1>4, <1>5, <1>6, <1>7, <1>8, <1>9, <1>10, <1>11, <1>12 DEF Moves

LEMMA WorkStaysTyped ==
  ASSUME Typed, RoomIsKept, Numbered, [Next]_enrollVars
  PROVE  work' \in [Worker -> Call]
<1>0. work \in [Worker -> Call] /\ \A w \in Worker : work'[w] \in Call
  BY CallsStayTyped DEF Typed, EnrollTypeOK, CallTyped
<1> SUFFICES work' = [w \in Worker |-> work'[w]]
  BY <1>0
<1>1. ASSUME NEW v, NEW call, Go(v, call)  PROVE work' = [w \in Worker |-> work'[w]]
  BY <1>0, <1>1 DEF Go
<1>2. CASE UNCHANGED work
  BY <1>0, <1>2
<1>3. CASE \/ \E w \in Worker : Serve(w)
           \/ \E i \in Install, w \in Worker : Ask(i, w) \/ Report(i, w) \/ \E c \in Code : AskToRedeem(i, c, w)
           \/ \E m \in Machine, ticked \in BOOLEAN, w \in Worker : StartDelete(m, ticked, w)
           \/ \E c \in Code, w \in Worker : StartRevokeCode(c, w)
  <2>1. \E v, call : Go(v, call)
    <3>1. CASE \E w \in Worker : Serve(w)
      BY <3>1 DEF Serve, EnrollAgent, RedeemCode, InsertAgent, RedeemRefused, AuthenticateBeat, FindReason,
                  FindTomb, Unheard, AuthenticateReport, AuthorizeReport, RefuseName, StoreReport,
                  EraseMachine, WipeRecord, MarkRevoked, DropAgent, Becomes
    <3>2. CASE \E i \in Install, w \in Worker : Ask(i, w) \/ Report(i, w) \/ \E c \in Code : AskToRedeem(i, c, w)
      BY <3>2 DEF Ask, AskToEnroll, Beat, Report, AskToRedeem
    <3>3. CASE \/ \E m \in Machine, ticked \in BOOLEAN, w \in Worker : StartDelete(m, ticked, w)
               \/ \E c \in Code, w \in Worker : StartRevokeCode(c, w)
      BY <3>3 DEF StartDelete, StartRevokeCode
    <3>. QED  BY <1>3, <3>1, <3>2, <3>3
  <2>. QED  BY <1>1, <2>1
<1>4. ASSUME NEW w \in Worker, Hear(w) \/ GiveUp(w)  PROVE work' = [v \in Worker |-> work'[v]]
  <2>1. CASE Minted(w)
    BY <1>0, <2>1 DEF Minted, Deaf
  <2>2. CASE Accepted(w) \/ StayDown(w) \/ Forget(w) \/ Strike(w) \/ GiveUp(w)
    BY <1>1, <2>2 DEF Accepted, StayDown, Forget, Strike, HearBeat, GiveUp
  <2>. QED  BY <1>4, <2>1, <2>2 DEF Hear
<1>5. CASE Restarts
  BY <1>5 DEF Restarts, Restart, Deaf
<1>6. CASE \/ \E c \in Code : CreateCode(c) \/ ExpireCode(c)
           \/ \E a \in Agent : RevokeAgent(a) \/ PruneEnrollments(a) \/ PruneTomb(a)
  BY <1>2, <1>6 DEF CreateCode, ExpireCode, RevokeAgent, PruneEnrollments, PruneTomb
<1>7. CASE UNCHANGED enrollVars
  BY <1>2, <1>7 DEF enrollVars, hubVars
<1>. QED  BY <1>3, <1>4, <1>5, <1>6, <1>7 DEF Next

\* What the installs keep, and the history.
LEMMA InstallsStayTyped ==
  ASSUME Typed, [Next]_enrollVars
  PROVE  /\ identity' \in [Install -> Agent \cup {NoAgent}] /\ host' \in [Install -> Machine]
         /\ strikes' \in [Install -> 0..Strikes] /\ removed' \subseteq Install
         /\ strayed' \subseteq Agent /\ forgotten' \subseteq Agent
<1> DEFINE Kept == /\ identity' \in [Install -> Agent \cup {NoAgent}] /\ host' \in [Install -> Machine]
                   /\ strikes' \in [Install -> 0..Strikes] /\ removed' \subseteq Install
                   /\ strayed' \subseteq Agent /\ forgotten' \subseteq Agent
<1>0. /\ identity \in [Install -> Agent \cup {NoAgent}] /\ host \in [Install -> Machine]
      /\ strikes \in [Install -> 0..Strikes] /\ removed \subseteq Install
      /\ strayed \subseteq Agent /\ forgotten \subseteq Agent
      /\ \A w \in Worker : work[w].pc \in OfAnAgent => work[w].by \in Install /\ work[w].agent \in Agent
  BY DEF Typed, EnrollTypeOK, CallTyped
<1>1. 0 \in 0..Strikes
  OBVIOUS
<1>2. CASE UNCHANGED <<installVars, history>>
  BY <1>0, <1>2 DEF installVars, history
<1>3. ASSUME NEW w \in Worker, Hear(w)  PROVE Kept
  <2>1. CASE Minted(w)
    <3>1. work[w].by \in Install /\ work[w].agent \in Agent
      BY <1>0, <2>1 DEF Minted, At, OfAnAgent, Reply
    <3>. QED  BY <1>0, <1>1, <2>1, <3>1 DEF Minted, history
  <2>2. CASE Accepted(w) \/ StayDown(w)
    <3>1. work[w].by \in Install
      BY <1>0, <2>2 DEF Accepted, StayDown, HearBeat, At, OfAnAgent, Reply
    <3>2. strikes' = [strikes EXCEPT ![work[w].by] = 0] /\ UNCHANGED <<identity, removed, forgotten, host, strayed>>
      BY <2>2 DEF Accepted, StayDown, HearBeat
    <3>. QED  BY <1>0, <1>1, <3>1, <3>2
  <2>3. CASE Forget(w)
    <3>1. work[w].by \in Install /\ work[w].agent \in Agent
      BY <1>0, <2>3 DEF Forget, HearBeat, At, OfAnAgent, Reply
    <3>. QED  BY <1>0, <1>1, <2>3, <3>1 DEF Forget, HearBeat
  <2>4. CASE Strike(w)
    <3>1. work[w].by \in Install
      BY <1>0, <2>4 DEF Strike, HearBeat, At, OfAnAgent, Reply
    <3>2. strikes[work[w].by] \in 0..Strikes
      BY <1>0, <3>1
    <3>3. (IF strikes[work[w].by] < Strikes THEN strikes[work[w].by] + 1 ELSE strikes[work[w].by]) \in 0..Strikes
      BY <3>2
    <3>4. strikes' \in [Install -> 0..Strikes]
      BY <1>0, <2>4, <3>3 DEF Strike
    <3>. QED  BY <1>0, <2>4, <3>1, <3>4 DEF Strike, HearBeat
  <2>. QED  BY <1>3, <2>1, <2>2, <2>3, <2>4 DEF Hear
<1>4. CASE Restarts
  BY <1>0, <1>1, <1>4 DEF Restarts, Restart, history
<1>5. ASSUME NEW w \in Worker, Serve(w)  PROVE Kept
  <2>1. CASE AuthorizeReport(w)
    <3>1. work[w].agent \in Agent
      BY <1>0, <2>1 DEF AuthorizeReport, At, OfAnAgent
    <3>. QED  BY <1>0, <2>1, <3>1 DEF AuthorizeReport, installVars
  <2>2. CASE ~AuthorizeReport(w)
    BY <1>2, <1>5, <2>2
       DEF Serve, EnrollAgent, RedeemCode, RedeemRefused, AuthenticateBeat, FindReason,
           FindTomb, Unheard, AuthenticateReport, RefuseName, StoreReport,
           EraseMachine, WipeRecord, MarkRevoked, DropAgent
  <2>. QED  BY <2>1, <2>2
<1>6. ASSUME NEW n \in Agent, PruneEnrollments(n)  PROVE Kept
  <2>1. 1..n \subseteq Agent
    BY DEF Agent
  <2>. QED  BY <1>0, <1>6, <2>1 DEF PruneEnrollments, installVars
<1>7. CASE \/ \E i \in Install, w \in Worker : Ask(i, w) \/ Report(i, w) \/ \E c \in Code : AskToRedeem(i, c, w)
           \/ \E m \in Machine, ticked \in BOOLEAN, w \in Worker : StartDelete(m, ticked, w)
           \/ \E c \in Code : CreateCode(c) \/ ExpireCode(c) \/ \E w \in Worker : StartRevokeCode(c, w)
           \/ \E a \in Agent : RevokeAgent(a) \/ PruneTomb(a)
           \/ \E w \in Worker : GiveUp(w)
           \/ UNCHANGED enrollVars
  BY <1>2, <1>7 DEF Ask, AskToEnroll, Beat, Report, AskToRedeem, StartDelete, CreateCode, ExpireCode,
                    StartRevokeCode, RevokeAgent, PruneTomb, GiveUp, enrollVars
<1>. QED  BY <1>3, <1>4, <1>5, <1>6, <1>7 DEF Next

\* What the hub keeps beside its agents.
LEMMA HubStaysTyped ==
  ASSUME Typed, RoomIsKept, Numbered, [Next]_enrollVars
  PROVE  /\ tombs' \subseteq Agent
         /\ codes' \in [Code -> [state : {"unmade", "live", "spent", "dead"}, agent : Agent \cup {NoAgent}]]
         /\ record' \in [Machine -> [pc : Install \cup {NoInstall}, by : Agent \cup {NoAgent}]]
<1> DEFINE Kept == /\ tombs' \subseteq Agent
                   /\ codes' \in [Code -> [state : {"unmade", "live", "spent", "dead"}, agent : Agent \cup {NoAgent}]]
                   /\ record' \in [Machine -> [pc : Install \cup {NoInstall}, by : Agent \cup {NoAgent}]]
<1>0. /\ tombs \subseteq Agent
      /\ codes \in [Code -> [state : {"unmade", "live", "spent", "dead"}, agent : Agent \cup {NoAgent}]]
      /\ record \in [Machine -> [pc : Install \cup {NoInstall}, by : Agent \cup {NoAgent}]]
      /\ \A w \in Worker : CallTyped(work[w])
  BY DEF Typed, EnrollTypeOK
<1>1. CASE UNCHANGED <<tombs, codes, record>>
  BY <1>0, <1>1
<1>2. ASSUME NEW w \in Worker, Serve(w)  PROVE Kept
  <2>1. CASE RedeemCode(w)
    <3>1. work[w].pc \in Minting /\ work[w].code \in Code
      BY <1>0, <2>1 DEF RedeemCode, At, CallTyped, Minting
    <3>2. Fresh \in Agent
      BY <3>1, FreshIsUnissued
    <3> HIDE DEF Fresh
    <3>. QED  BY <1>0, <2>1, <3>1, <3>2 DEF RedeemCode
  <2>2. CASE StoreReport(w)
    <3>1. work[w].by \in Install /\ work[w].agent \in Agent /\ work[w].machine \in Machine
      BY <1>0, <2>2 DEF StoreReport, At, CallTyped, OfAnAgent, OfAName, Gated
    <3>2. record[work[w].machine].pc \in Install \cup {NoInstall}
      BY <1>0, <3>1
    <3>. QED  BY <1>0, <2>2, <3>1, <3>2 DEF StoreReport
  <2>3. CASE EraseMachine(w)
    <3>1. work[w].rows \subseteq Agent
      BY <1>0 DEF CallTyped, Call
    <3>. QED  BY <1>0, <2>3, <3>1 DEF EraseMachine
  <2>4. CASE WipeRecord(w)
    BY <1>0, <2>4 DEF WipeRecord, NoRecord
  <2>5. CASE MarkRevoked(w)
    BY <1>0, <2>5 DEF MarkRevoked
  <2>6. CASE ~(RedeemCode(w) \/ StoreReport(w) \/ EraseMachine(w) \/ WipeRecord(w) \/ MarkRevoked(w))
    BY <1>1, <1>2, <2>6
       DEF Serve, EnrollAgent, RedeemRefused, AuthenticateBeat, FindReason, FindTomb, Unheard,
           AuthenticateReport, AuthorizeReport, RefuseName, DropAgent
  <2>. QED  BY <2>1, <2>2, <2>3, <2>4, <2>5, <2>6
<1>3. ASSUME NEW c \in Code, CreateCode(c) \/ ExpireCode(c) \/ \E w \in Worker : StartRevokeCode(c, w)
      PROVE  Kept
  BY <1>0, <1>3 DEF CreateCode, ExpireCode, StartRevokeCode
<1>4. ASSUME NEW a \in Agent, PruneTomb(a) \/ RevokeAgent(a) \/ PruneEnrollments(a)  PROVE Kept
  BY <1>0, <1>4 DEF PruneTomb, RevokeAgent, PruneEnrollments
<1>5. CASE \/ \E i \in Install, w \in Worker : Ask(i, w) \/ Report(i, w) \/ \E c \in Code : AskToRedeem(i, c, w)
           \/ \E w \in Worker : Hear(w) \/ GiveUp(w)
           \/ \E m \in Machine, ticked \in BOOLEAN, w \in Worker : StartDelete(m, ticked, w)
           \/ Restarts \/ UNCHANGED enrollVars
  BY <1>1, <1>5 DEF Ask, AskToEnroll, Beat, Report, AskToRedeem, Hear, Minted, Accepted, StayDown, Forget,
                    Strike, HearBeat, GiveUp, StartDelete, Restarts, Restart, enrollVars, hubVars
<1>. QED  BY <1>2, <1>3, <1>4, <1>5 DEF Next

LEMMA EnrollStepTyped ==
  ASSUME Typed, RoomIsKept, Numbered, [Next]_enrollVars
  PROVE  Typed'
BY AgentsMove, RowsHaveNames, CallsStayTyped, WorkStaysTyped, InstallsStayTyped, HubStaysTyped
   DEF Typed, EnrollTypeOK

-------------------------------------------------------------------------------
(* Who writes what.                                                        *)

\* The ids an install, a code, a record and the sets name after a step.
LEMMA WhoIsNamed ==
  ASSUME Typed, [Next]_enrollVars
  PROVE  /\ \A i \in Install : \/ identity'[i] \in {identity[i], NoAgent}
                               \/ \E w \in Worker : Minted(w) /\ identity'[i] = work[w].agent
         /\ \A c \in Code : \/ codes'[c].agent = codes[c].agent
                            \/ \E w \in Worker : /\ RedeemCode(w) /\ c = work[w].code
                                                 /\ codes'[c].agent = Fresh
         /\ \A m \in Machine : \/ record'[m] = record[m]
                               \/ record'[m] = NoRecord
                               \/ \E w \in Worker : /\ StoreReport(w) /\ m = work[w].machine
                                                    /\ record'[m].by = work[w].agent
         /\ strayed \subseteq strayed'
         /\ \A a \in strayed' : \/ a \in strayed
                                \/ \E w \in Worker : /\ AuthorizeReport(w) /\ a = work[w].agent
                                                     /\ work[w].was # work[w].machine
                                \/ \E n \in Agent : PruneEnrollments(n) /\ Gone(a)'
         /\ \A a \in tombs' : a \in tombs \/ \E w \in Worker : EraseMachine(w) /\ a \in work[w].rows
         /\ \A a \in forgotten' : a \in forgotten \/ \E w \in Worker : Forget(w) /\ a = work[w].agent
<1> DEFINE Names ==
         /\ \A i \in Install : \/ identity'[i] \in {identity[i], NoAgent}
                               \/ \E w \in Worker : Minted(w) /\ identity'[i] = work[w].agent
         /\ \A c \in Code : \/ codes'[c].agent = codes[c].agent
                            \/ \E w \in Worker : /\ RedeemCode(w) /\ c = work[w].code
                                                 /\ codes'[c].agent = Fresh
         /\ \A m \in Machine : \/ record'[m] = record[m]
                               \/ record'[m] = NoRecord
                               \/ \E w \in Worker : /\ StoreReport(w) /\ m = work[w].machine
                                                    /\ record'[m].by = work[w].agent
         /\ strayed \subseteq strayed'
         /\ \A a \in strayed' : \/ a \in strayed
                                \/ \E w \in Worker : /\ AuthorizeReport(w) /\ a = work[w].agent
                                                     /\ work[w].was # work[w].machine
                                \/ \E n \in Agent : PruneEnrollments(n) /\ Gone(a)'
         /\ \A a \in tombs' : a \in tombs \/ \E w \in Worker : EraseMachine(w) /\ a \in work[w].rows
         /\ \A a \in forgotten' : a \in forgotten \/ \E w \in Worker : Forget(w) /\ a = work[w].agent
<1>0. /\ identity \in [Install -> Agent \cup {NoAgent}]
      /\ codes \in [Code -> [state : {"unmade", "live", "spent", "dead"}, agent : Agent \cup {NoAgent}]]
      /\ record \in [Machine -> [pc : Install \cup {NoInstall}, by : Agent \cup {NoAgent}]]
  BY DEF Typed, EnrollTypeOK
<1>1. CASE UNCHANGED <<identity, codes, record, strayed, tombs, forgotten>>
  BY <1>1
<1>2. ASSUME NEW w \in Worker, Hear(w)  PROVE Names
  <2>1. CASE Minted(w)
    BY <1>0, <2>1 DEF Minted, history
  <2>2. CASE Accepted(w) \/ StayDown(w)
    BY <1>1, <2>2 DEF Accepted, StayDown, HearBeat
  <2>3. CASE Forget(w)
    BY <1>0, <2>3 DEF Forget, HearBeat
  <2>4. CASE Strike(w)
    BY <1>1, <2>4 DEF Strike, HearBeat
  <2>. QED  BY <1>2, <2>1, <2>2, <2>3, <2>4 DEF Hear
<1>3. ASSUME NEW w \in Worker, Serve(w)  PROVE Names
  <2>1. CASE RedeemCode(w)
    <3>1. /\ codes' = [codes EXCEPT ![work[w].code] = [state |-> "spent", agent |-> Fresh]]
          /\ UNCHANGED <<identity, record, strayed, tombs, forgotten>>
      BY <2>1 DEF RedeemCode, installVars, history
    <3> HIDE DEF Fresh
    <3>. QED  BY <1>0, <2>1, <3>1
  <2>2. CASE StoreReport(w)
    <3>1. /\ UNCHANGED <<identity, codes, strayed, tombs, forgotten>>
          /\ \A m \in Machine : m # work[w].machine => record'[m] = record[m]
          /\ \A m \in Machine : m = work[w].machine => record'[m].by = work[w].agent
      BY <1>0, <2>2 DEF StoreReport, installVars, history
    <3>. QED  BY <2>2, <3>1
  <2>3. CASE EraseMachine(w)
    BY <2>3 DEF EraseMachine, installVars, history
  <2>4. CASE WipeRecord(w)
    BY <1>0, <2>4 DEF WipeRecord, installVars, history
  <2>5. CASE MarkRevoked(w)
    BY <1>0, <2>5 DEF MarkRevoked, installVars, history
  <2>6. CASE AuthorizeReport(w)
    BY <2>6 DEF AuthorizeReport, installVars
  <2>7. CASE ~(RedeemCode(w) \/ StoreReport(w) \/ EraseMachine(w) \/ WipeRecord(w) \/ MarkRevoked(w)
               \/ AuthorizeReport(w))
    BY <1>1, <1>3, <2>7
       DEF Serve, EnrollAgent, RedeemRefused, AuthenticateBeat, FindReason, FindTomb, Unheard,
           AuthenticateReport, RefuseName, DropAgent, installVars, history
  <2>. QED  BY <2>1, <2>2, <2>3, <2>4, <2>5, <2>6, <2>7
<1>4. ASSUME NEW c \in Code, CreateCode(c) \/ ExpireCode(c) \/ \E w \in Worker : StartRevokeCode(c, w)
      PROVE  Names
  BY <1>0, <1>4 DEF CreateCode, ExpireCode, StartRevokeCode, installVars, history
<1>5. ASSUME NEW a \in Agent, PruneTomb(a) \/ RevokeAgent(a) \/ PruneEnrollments(a)  PROVE Names
  <2>1. CASE PruneEnrollments(a)
    <3>1. ASSUME NEW b \in strayed', b \notin strayed  PROVE Gone(b)'
      <4>1. b \in 1..a /\ Superseded(b)
        BY <2>1, <3>1 DEF PruneEnrollments
      <4>2. b \in Agent /\ b <= a
        BY <4>1 DEF Agent
      <4>. QED  BY <2>1, <4>1, <4>2 DEF PruneEnrollments, Gone
    <3>. QED  BY <2>1, <3>1 DEF PruneEnrollments, installVars
  <2>2. CASE PruneTomb(a) \/ RevokeAgent(a)
    BY <2>2 DEF PruneTomb, RevokeAgent, installVars, history
  <2>. QED  BY <1>5, <2>1, <2>2
<1>6. CASE \/ \E i \in Install, w \in Worker : Ask(i, w) \/ Report(i, w) \/ \E c \in Code : AskToRedeem(i, c, w)
           \/ \E w \in Worker : GiveUp(w)
           \/ \E m \in Machine, ticked \in BOOLEAN, w \in Worker : StartDelete(m, ticked, w)
           \/ Restarts \/ UNCHANGED enrollVars
  <2>1. UNCHANGED <<identity, codes, record, history, tombs>>
    <3>1. CASE \E i \in Install, w \in Worker : Ask(i, w) \/ Report(i, w) \/ \E c \in Code : AskToRedeem(i, c, w)
      BY <3>1 DEF Ask, AskToEnroll, Beat, Report, AskToRedeem, installVars
    <3>2. CASE \/ \E w \in Worker : GiveUp(w)
               \/ \E m \in Machine, ticked \in BOOLEAN, w \in Worker : StartDelete(m, ticked, w)
      BY <3>2 DEF GiveUp, StartDelete, installVars
    <3>3. CASE Restarts \/ UNCHANGED enrollVars
      BY <3>3 DEF Restarts, Restart, enrollVars, hubVars, installVars
    <3>. QED  BY <1>6, <3>1, <3>2, <3>3
  <2>. QED  BY <1>1, <2>1 DEF history
<1>. QED  BY <1>2, <1>3, <1>4, <1>5, <1>6 DEF Next

-------------------------------------------------------------------------------
(* Where a request arrives.                                                *)

Keeps(w) ==
    work'[w].agent = work[w].agent /\ work'[w].machine = work[w].machine /\ work'[w].rows = work[w].rows
Alone(w) == \A v \in Worker : v # w => work'[v] = work[v]

Starts(w) ==
    /\ work'[w].pc \in Minting \cup {"beat", "report", "mark"} /\ work'[w].rows = {}
    /\ \/ work'[w].agent = NoAgent
       \/ \E i \in Install : work'[w].agent = identity[i]
       \/ \E c \in Code : work'[w].agent = codes[c].agent
    /\ work'[w].pc \in Minting => Asked(w)
Mints(w) ==
    /\ EnrollAgent(w) \/ RedeemCode(w)
    /\ work'[w].pc = "minted" /\ work'[w].agent = Fresh /\ work'[w].rows = work[w].rows
Answers(w) ==
    /\ Keeps(w) /\ (At(w, "beat") \/ At(w, "reason") \/ At(w, "tomb") \/ At(w, "mark"))
    /\ work'[w].pc \in {"ok", "revoked", "decommissioned", "drop"}
Wonders(w) ==
    /\ At(w, "beat") /\ Keeps(w) /\ work'[w].pc = "reason" /\ agents[work[w].agent].state # "live"
Digs(w) ==
    /\ At(w, "reason") /\ Keeps(w) /\ work'[w].pc = "tomb" /\ ~HasRow(work[w].agent)
Doubts(w) ==
    /\ At(w, "reason") /\ Keeps(w) /\ work'[w].pc = "unknown"
    /\ HasRow(work[w].agent) /\ agents[work[w].agent].state # "revoked"
FindsNone(w) ==
    /\ At(w, "tomb") /\ Keeps(w) /\ work'[w].pc = "unknown" /\ work[w].agent \notin tombs
TakesGate(w) ==
    /\ At(w, "report") /\ Keeps(w) /\ Alone(w) /\ work'[w].pc = "authorize"
    /\ ~GateTaken(work[w].machine) /\ agents[work[w].agent].state = "live"
    /\ work'[w].was = agents[work[w].agent].machine
Authorizes(w) ==
    /\ AuthorizeReport(w) /\ Keeps(w) /\ Alone(w) /\ work'[w].pc = "store"
Deletes(w) ==
    /\ At(w, "idle") /\ Alone(w) /\ work'[w].pc = "erase" /\ UNCHANGED agents
    /\ work'[w].machine \in Machine /\ ~GateTaken(work'[w].machine)
    /\ work'[w].rows \subseteq RowsOf(work'[w].machine) /\ work'[w].agent = NoAgent
Erases(w) ==
    /\ EraseMachine(w) /\ work'[w].pc = "wipe" /\ work'[w].machine = work[w].machine
    /\ work'[w].agent = work[w].agent /\ work'[w].rows = {}

Arrives(w) ==
    \/ Same(w) \/ work'[w] = Idle \/ Starts(w) \/ Mints(w) \/ Answers(w)
    \/ Wonders(w) \/ Digs(w) \/ Doubts(w) \/ FindsNone(w)
    \/ TakesGate(w) \/ Authorizes(w) \/ Deletes(w) \/ Erases(w)

LEMMA CallArrives ==
  ASSUME Typed, [Next]_enrollVars, NEW w \in Worker
  PROVE  Arrives(w)
<1>0. /\ CallTyped(work[w]) /\ work[w] \in Call /\ work \in [Worker -> Call]
  BY DEF Typed, EnrollTypeOK, CallTyped
<1>1. Moves(w)
  BY <1>0, CallMoves
<1>2. ASSUME NEW call, Go(w, call)  PROVE work'[w] = call /\ Alone(w)
  BY <1>0, <1>2 DEF Go, Alone
<1>3. ASSUME NEW pc, work'[w] = [work[w] EXCEPT !.pc = pc]  PROVE work'[w].pc = pc /\ Keeps(w)
  BY <1>0, <1>3 DEF Keeps, Call
<1>4. CASE Asked(w)
  <2>1. PICK i \in Install : \/ AskToEnroll(i, w) \/ Beat(i, w) \/ Report(i, w)
                             \/ \E c \in Code : AskToRedeem(i, c, w)
    BY <1>4 DEF Asked
  <2>2. CASE AskToEnroll(i, w)
    <3>1. work'[w] = [Idle EXCEPT !.pc = "enroll", !.by = i, !.machine = host[i], !.heard = TRUE]
      BY <1>2, <2>2 DEF AskToEnroll
    <3>. QED  BY <1>4, <3>1 DEF Idle, Minting, Starts, Arrives
  <2>3. CASE \E c \in Code : AskToRedeem(i, c, w)
    <3>1. PICK c \in Code : work'[w] = [Idle EXCEPT !.pc = "redeem", !.by = i, !.machine = host[i],
                                                    !.code = c, !.heard = TRUE]
      BY <1>2, <2>3 DEF AskToRedeem
    <3>. QED  BY <1>4, <3>1 DEF Idle, Minting, Starts, Arrives
  <2>4. CASE Beat(i, w)
    <3>1. work'[w] = [Idle EXCEPT !.pc = "beat", !.by = i, !.agent = identity[i], !.heard = TRUE]
      BY <1>2, <2>4 DEF Beat
    <3>. QED  BY <3>1 DEF Idle, Minting, Starts, Arrives
  <2>5. CASE Report(i, w)
    <3>1. work'[w] = [Idle EXCEPT !.pc = "report", !.by = i, !.agent = identity[i], !.machine = host[i]]
      BY <1>2, <2>5 DEF Report
    <3>. QED  BY <3>1 DEF Idle, Minting, Starts, Arrives
  <2>. QED  BY <2>1, <2>2, <2>3, <2>4, <2>5
<1>5. CASE EnrollAgent(w) \/ RedeemCode(w)
  <2>1. work'[w] = [work[w] EXCEPT !.pc = "minted", !.agent = Fresh, !.machine = NoMachine]
    BY <1>2, <1>5 DEF EnrollAgent, RedeemCode, InsertAgent
  <2> HIDE DEF Fresh
  <2>. QED  BY <1>0, <1>5, <2>1 DEF Call, Mints, Arrives
<1>6. CASE AuthenticateBeat(w)
  <2>1. CASE agents[work[w].agent].state = "live"
    <3>1. work'[w].pc = "ok" /\ Keeps(w)
      BY <1>2, <1>3, <1>6, <2>1 DEF AuthenticateBeat, Becomes
    <3>. QED  BY <1>6, <3>1 DEF AuthenticateBeat, Answers, Arrives
  <2>2. CASE agents[work[w].agent].state # "live"
    <3>1. work'[w].pc = "reason" /\ Keeps(w)
      BY <1>2, <1>3, <1>6, <2>2 DEF AuthenticateBeat, Becomes
    <3>. QED  BY <1>6, <2>2, <3>1 DEF AuthenticateBeat, Wonders, Arrives
  <2>. QED  BY <2>1, <2>2
<1>7. CASE FindReason(w)
  <2>1. CASE ~HasRow(work[w].agent)
    <3>1. work'[w].pc = "tomb" /\ Keeps(w)
      BY <1>2, <1>3, <1>7, <2>1 DEF FindReason, Becomes
    <3>. QED  BY <1>7, <2>1, <3>1 DEF FindReason, Digs, Arrives
  <2>2. CASE HasRow(work[w].agent) /\ agents[work[w].agent].state = "revoked"
    <3>1. work'[w].pc = "revoked" /\ Keeps(w)
      BY <1>2, <1>3, <1>7, <2>2 DEF FindReason, Becomes
    <3>. QED  BY <1>7, <2>2, <3>1 DEF FindReason, Answers, Arrives
  <2>3. CASE HasRow(work[w].agent) /\ agents[work[w].agent].state # "revoked"
    <3>1. work'[w].pc = "unknown" /\ Keeps(w)
      BY <1>2, <1>3, <1>7, <2>3 DEF FindReason, Becomes
    <3>. QED  BY <1>7, <2>3, <3>1 DEF FindReason, Doubts, Arrives
  <2>. QED  BY <2>1, <2>2, <2>3
<1>8. CASE FindTomb(w)
  <2>1. CASE work[w].agent \in tombs
    <3>1. work'[w].pc = "decommissioned" /\ Keeps(w)
      BY <1>2, <1>3, <1>8, <2>1 DEF FindTomb, Becomes
    <3>. QED  BY <1>8, <3>1 DEF FindTomb, Answers, Arrives
  <2>2. CASE work[w].agent \notin tombs
    <3>1. work'[w].pc = "unknown" /\ Keeps(w)
      BY <1>2, <1>3, <1>8, <2>2 DEF FindTomb, Becomes
    <3>. QED  BY <1>8, <2>2, <3>1 DEF FindTomb, FindsNone, Arrives
  <2>. QED  BY <2>1, <2>2
<1>9. CASE AuthenticateReport(w)
  <2>1. CASE agents[work[w].agent].state = "live"
    <3>1. /\ work'[w] = [work[w] EXCEPT !.pc = "authorize", !.was = agents[work[w].agent].machine]
          /\ Alone(w)
      BY <1>2, <1>9, <2>1 DEF AuthenticateReport
    <3>2. /\ work'[w].pc = "authorize" /\ work'[w].was = agents[work[w].agent].machine /\ Keeps(w)
      BY <1>0, <3>1 DEF Call, Keeps
    <3>. QED  BY <1>9, <2>1, <3>1, <3>2 DEF AuthenticateReport, TakesGate, Arrives
  <2>2. CASE agents[work[w].agent].state # "live"
    BY <1>2, <1>9, <2>2 DEF AuthenticateReport, Arrives
  <2>. QED  BY <2>1, <2>2
<1>10. CASE AuthorizeReport(w)
  <2>1. work'[w] = [work[w] EXCEPT !.pc = "store", !.was = NoMachine] /\ Alone(w)
    BY <1>2, <1>10 DEF AuthorizeReport
  <2>2. work'[w].pc = "store" /\ Keeps(w)
    BY <1>0, <2>1 DEF Call, Keeps
  <2>. QED  BY <1>10, <2>1, <2>2 DEF Authorizes, Arrives
<1>11. ASSUME NEW m \in Machine, NEW ticked \in BOOLEAN, StartDelete(m, ticked, w)  PROVE Arrives(w)
  <2> DEFINE S == IF ticked THEN RowsOf(m) ELSE {}
  <2>1. work'[w] = [Idle EXCEPT !.pc = "erase", !.machine = m, !.rows = S] /\ Alone(w)
    BY <1>2, <1>11 DEF StartDelete
  <2>3. S \subseteq RowsOf(m)
    OBVIOUS
  <2> HIDE DEF S
  <2>2. work'[w].pc = "erase" /\ work'[w].machine = m /\ work'[w].rows = S /\ work'[w].agent = NoAgent
    BY <2>1 DEF Idle
  <2>. QED  BY <1>11, <2>1, <2>2, <2>3 DEF StartDelete, Deletes, Arrives
<1>12. CASE EraseMachine(w)
  <2>1. work'[w] = [work[w] EXCEPT !.pc = "wipe", !.rows = {}]
    BY <1>2, <1>12 DEF EraseMachine
  <2>. QED  BY <1>0, <1>12, <2>1 DEF Call, Erases, Arrives
<1>13. ASSUME NEW c \in Code, StartRevokeCode(c, w)  PROVE Arrives(w)
  <2>1. work'[w] = [Idle EXCEPT !.pc = "mark", !.code = c, !.agent = codes[c].agent]
    BY <1>2, <1>13 DEF StartRevokeCode
  <2>2. work'[w].pc = "mark" /\ work'[w].rows = {} /\ work'[w].agent = codes[c].agent
    BY <2>1 DEF Idle
  <2>. QED  BY <2>2 DEF Minting, Starts, Arrives
<1>14. CASE MarkRevoked(w)
  <2>1. CASE work[w].agent = NoAgent
    BY <1>2, <1>14, <2>1 DEF MarkRevoked, Arrives
  <2>2. CASE work[w].agent # NoAgent
    <3>1. work'[w].pc = "drop" /\ Keeps(w)
      BY <1>2, <1>3, <1>14, <2>2 DEF MarkRevoked, Becomes
    <3>. QED  BY <1>14, <3>1 DEF MarkRevoked, Answers, Arrives
  <2>. QED  BY <2>1, <2>2
<1>. QED
  BY <1>1, <1>4, <1>5, <1>6, <1>7, <1>8, <1>9, <1>10, <1>11, <1>12, <1>13, <1>14 DEF Moves, Arrives

-------------------------------------------------------------------------------
(* Ids run out in order.                                                   *)

\* An id is given out by the two steps that insert a row.
LEMMA IdsAreGivenOut ==
  ASSUME Typed, RoomIsKept, Numbered, [Next]_enrollVars
  PROVE  \/ Unissued' = Unissued /\ ~ \E w \in Worker : EnrollAgent(w) \/ RedeemCode(w)
         \/ Fresh \in Unissued /\ Unissued' = Unissued \ {Fresh} /\ \E w \in Worker : EnrollAgent(w) \/ RedeemCode(w)
<1>1. \A a \in Agent : AgentMoves(a)
  BY AgentsMove
<1>2. \A a \in Agent : a \in Unissued' <=> a \in Unissued /\ ~Born(a)
  BY <1>1 DEF AgentMoves, AgentStays, Born, Strays, Erased, Pruned, Leaves, Gone, Barred, HasRow, Unissued
<1>3. \A a \in Agent : Born(a) => a = Fresh /\ \E w \in Worker : EnrollAgent(w) \/ RedeemCode(w)
  BY DEF Born
<1>4. ASSUME NEW w \in Worker, EnrollAgent(w) \/ RedeemCode(w)  PROVE Fresh \in Unissued /\ Fresh \notin Unissued'
  <2>1. work[w].pc \in Minting
    BY <1>4 DEF EnrollAgent, RedeemCode, At, Minting
  <2>2. Fresh \in Agent /\ agents[Fresh].state = "unissued"
    BY <2>1, FreshIsUnissued
  <2>3. agents' = [agents EXCEPT ![Fresh] = [state |-> "live", machine |-> work[w].machine, proven |-> FALSE]]
    BY <1>4 DEF EnrollAgent, RedeemCode, InsertAgent
  <2> HIDE DEF Fresh
  <2>. QED  BY <2>2, <2>3 DEF Unissued, Typed, EnrollTypeOK
<1> HIDE DEF Fresh
<1>5. Unissued \subseteq Agent /\ Unissued' \subseteq Agent
  BY DEF Unissued
<1>6. CASE \E w \in Worker : EnrollAgent(w) \/ RedeemCode(w)
  <2>1. Fresh \in Unissued /\ Fresh \notin Unissued'
    BY <1>4, <1>6
  <2>2. Unissued' = Unissued \ {Fresh}
    BY <1>2, <1>3, <1>5, <2>1
  <2>. QED  BY <1>6, <2>1, <2>2
<1>7. CASE ~ \E w \in Worker : EnrollAgent(w) \/ RedeemCode(w)
  <2>1. Unissued' = Unissued
    BY <1>2, <1>3, <1>5, <1>7
  <2>. QED  BY <1>7, <2>1
<1>. QED  BY <1>6, <1>7

LEMMA NumberedStays ==
  ASSUME Typed, RoomIsKept, Numbered, [Next]_enrollVars
  PROVE  Numbered'
<1>1. PICK n \in 0..MaxAgents : \A a \in Agent : a \in Unissued <=> a > n
  BY DEF Numbered
<1>2. CASE Unissued' = Unissued
  BY <1>1, <1>2 DEF Numbered
<1>3. ASSUME Fresh \in Unissued, Unissued' = Unissued \ {Fresh},
             NEW w \in Worker, EnrollAgent(w) \/ RedeemCode(w)
      PROVE  Numbered'
  <2>1. work[w].pc \in Minting
    BY <1>3 DEF EnrollAgent, RedeemCode, At, Minting
  <2>2. Fresh \in Agent /\ \A b \in Unissued : Fresh <= b
    BY <2>1, FreshIsUnissued DEF Unissued
  <2> HIDE DEF Fresh
  <2>3. Fresh > n /\ n + 1 \in Agent
    BY <1>1, <1>3, <2>2 DEF Agent
  <2>4. Fresh = n + 1
    BY <1>1, <2>2, <2>3 DEF Agent
  <2>5. \A a \in Agent : a \in Unissued' <=> a > n + 1
    BY <1>1, <1>3, <2>4 DEF Agent
  <2>6. n + 1 \in 0..MaxAgents
    BY <2>3 DEF Agent
  <2>. QED  BY <2>5, <2>6 DEF Numbered
<1>. QED  BY <1>2, <1>3, IdsAreGivenOut

LEMMA RoomStays ==
  ASSUME Typed, RoomIsKept, Numbered, [Next]_enrollVars
  PROVE  RoomIsKept'
<1>0. /\ work \in [Worker -> Call] /\ IsFiniteSet(Minters) /\ Cardinality(Minters) <= Cardinality(Unissued)
      /\ IsFiniteSet(Unissued) /\ Cardinality(Minters) \in Nat /\ Cardinality(Unissued) \in Nat
  <2>1. IsFiniteSet(Unissued)
    BY AgentIds DEF Unissued
  <2>. QED  BY <2>1, FS_CardinalityType DEF Typed, EnrollTypeOK, RoomIsKept
<1>1. \A w \in Worker : w \in Minters' => w \in Minters \/ Asked(w)
  <2> SUFFICES ASSUME NEW w \in Worker, work'[w].pc \in Minting  PROVE work[w].pc \in Minting \/ Asked(w)
    BY DEF Minters
  <2>1. Arrives(w)
    BY CallArrives
  <2>. QED
    BY <2>1 DEF Arrives, Same, Idle, Starts, Mints, Answers, Wonders, Digs, Doubts, FindsNone, TakesGate,
                Authorizes, Deletes, Erases, Minting
\* Somebody asks.
<1>2. ASSUME NEW i \in Install, NEW w \in Worker, AskToEnroll(i, w) \/ \E c \in Code : AskToRedeem(i, c, w)
      PROVE  RoomIsKept'
  <2>1. /\ Cardinality(Unissued) > Cardinality(Minters) /\ UNCHANGED agents /\ work[w].pc = "idle"
        /\ \E call : work' = [work EXCEPT ![w] = call]
    BY <1>2 DEF AskToEnroll, AskToRedeem, Room, Unissued, Minters, At, Go
  <2>2. Minters' \subseteq Minters \cup {w} /\ Unissued' = Unissued
    BY <1>0, <2>1 DEF Minters, Unissued
  <2>3. IsFiniteSet(Minters \cup {w}) /\ Cardinality(Minters \cup {w}) <= Cardinality(Minters) + 1
    <3>1. IsFiniteSet(Minters) /\ Cardinality(Minters) \in Nat
      BY <1>0
    <3> HIDE DEF Minters
    <3>. QED  BY <3>1, FS_AddElement
  <2>4. IsFiniteSet(Minters') /\ Cardinality(Minters') <= Cardinality(Minters \cup {w})
    BY <2>2, <2>3, FS_Subset
  <2>5. Cardinality(Minters \cup {w}) \in Nat /\ Cardinality(Minters') \in Nat
    BY <2>3, <2>4, FS_CardinalityType
  <2>. QED  BY <1>0, <2>1, <2>2, <2>3, <2>4, <2>5 DEF RoomIsKept
<1>3. ASSUME \A w \in Worker : w \in Minters' => w \in Minters  PROVE RoomIsKept'
  <2>1. Minters' \subseteq Minters
    BY <1>3 DEF Minters
  <2>2. IsFiniteSet(Minters') /\ Cardinality(Minters') <= Cardinality(Minters) /\ Cardinality(Minters') \in Nat
    BY <1>0, <2>1, FS_Subset, FS_CardinalityType
  <2>3. CASE Unissued' = Unissued
    BY <1>0, <2>2, <2>3 DEF RoomIsKept
  <2>4. ASSUME Fresh \in Unissued, Unissued' = Unissued \ {Fresh},
               NEW w \in Worker, EnrollAgent(w) \/ RedeemCode(w)
        PROVE  RoomIsKept'
    <3>1. w \in Minters /\ w \notin Minters'
      <4>1. At(w, "enroll") \/ At(w, "redeem")
        BY <2>4 DEF EnrollAgent, RedeemCode
      <4>2. work'[w] = [work[w] EXCEPT !.pc = "minted", !.agent = Fresh, !.machine = NoMachine]
        BY <1>0, <2>4 DEF EnrollAgent, RedeemCode, InsertAgent, Go
      <4> HIDE DEF Fresh
      <4>. QED  BY <1>0, <4>1, <4>2 DEF Minters, At, Minting, Call
    <3> HIDE DEF Fresh
    <3>2. IsFiniteSet(Minters \ {w}) /\ Cardinality(Minters \ {w}) = Cardinality(Minters) - 1
      BY <1>0, <3>1, FS_RemoveElement
    <3>3. Minters' \subseteq Minters \ {w}
      BY <2>1, <3>1
    <3>4. Cardinality(Minters') <= Cardinality(Minters \ {w})
      BY <3>2, <3>3, FS_Subset
    <3>5. Cardinality(Unissued') = Cardinality(Unissued) - 1
      BY <1>0, <2>4, FS_RemoveElement
    <3>. QED  BY <1>0, <2>2, <3>2, <3>4, <3>5 DEF RoomIsKept
  <2>. QED  BY <2>3, <2>4, IdsAreGivenOut
<1>4. ASSUME NEW w \in Worker, Asked(w), ~ \E i \in Install : AskToEnroll(i, w) \/ \E c \in Code : AskToRedeem(i, c, w)
      PROVE  w \notin Minters'
  <2>1. PICK i \in Install : Beat(i, w) \/ Report(i, w)
    BY <1>4 DEF Asked
  <2>2. work'[w].pc \in {"beat", "report"}
    <3>1. CASE Beat(i, w)
      BY <1>0, <3>1 DEF Beat, Go, Idle
    <3>2. CASE Report(i, w)
      BY <1>0, <3>2 DEF Report, Go, Idle
    <3>. QED  BY <2>1, <3>1, <3>2
  <2>. QED  BY <2>2 DEF Minters, Minting
<1>. QED  BY <1>1, <1>2, <1>3, <1>4

-------------------------------------------------------------------------------
(* Nobody refers to an id that is not given out.                           *)

GivenNext(a) == a # NoAgent => agents'[a].state # "unissued"

\* An id that is given out stays so, and the next one is given out by its row.
LEMMA GivenStays ==
  ASSUME Typed, RoomIsKept, Numbered, [Next]_enrollVars
  PROVE  /\ \A a \in Agent \cup {NoAgent} : Given(a) => GivenNext(a)
         /\ \A w \in Worker : EnrollAgent(w) \/ RedeemCode(w) => GivenNext(Fresh)
<1>1. \A a \in Agent : a \notin Unissued <=> Given(a)
  BY AgentIds DEF Given, Unissued
<1>2. \A a \in Agent : a \notin Unissued' <=> GivenNext(a)
  BY AgentIds DEF GivenNext, Unissued
<1>3. GivenNext(NoAgent)
  BY DEF GivenNext
<1>4. Unissued' \subseteq Unissued
  <2> HIDE DEF Fresh
  <2>. QED  BY IdsAreGivenOut
<1>5. ASSUME NEW w \in Worker, EnrollAgent(w) \/ RedeemCode(w)
      PROVE  Fresh \in Agent /\ Fresh \notin Unissued'
  <2>1. Fresh \in Unissued /\ Unissued' = Unissued \ {Fresh}
    BY <1>5, IdsAreGivenOut
  <2> HIDE DEF Fresh
  <2>. QED  BY <2>1 DEF Unissued
<1> HIDE DEF Fresh
<1>. QED  BY <1>1, <1>2, <1>3, <1>4, <1>5

LEMMA AllGivenStays ==
  ASSUME Typed, RoomIsKept, Numbered, AllGiven, [Next]_enrollVars
  PROVE  AllGiven'
<1>0. /\ work \in [Worker -> Call] /\ identity \in [Install -> Agent \cup {NoAgent}]
      /\ codes \in [Code -> [state : {"unmade", "live", "spent", "dead"}, agent : Agent \cup {NoAgent}]]
      /\ record \in [Machine -> [pc : Install \cup {NoInstall}, by : Agent \cup {NoAgent}]]
      /\ tombs \subseteq Agent /\ strayed \subseteq Agent
  BY DEF Typed, EnrollTypeOK
<1>1. \A w \in Worker : work[w].agent \in Agent \cup {NoAgent} /\ work[w].rows \subseteq Agent
  BY <1>0 DEF Call
<1>2. /\ \A a \in Agent \cup {NoAgent} : Given(a) => GivenNext(a)
      /\ \A w \in Worker : EnrollAgent(w) \/ RedeemCode(w) => GivenNext(Fresh)
  BY GivenStays
<1>3. GivenNext(NoAgent) /\ NoRecord.by = NoAgent
  BY DEF GivenNext, NoRecord
<1>4. /\ \A w \in Worker : Given(work[w].agent) /\ \A a \in work[w].rows : Given(a)
      /\ \A i \in Install : Given(identity[i])
      /\ \A c \in Code : Given(codes[c].agent)
      /\ \A m \in Machine : Given(record[m].by)
      /\ \A a \in strayed \cup tombs : Given(a)
  BY DEF AllGiven
<1>5. /\ \A w \in Worker : GivenNext(work[w].agent) /\ \A a \in work[w].rows : GivenNext(a)
      /\ \A i \in Install : GivenNext(identity[i])
      /\ \A c \in Code : GivenNext(codes[c].agent)
      /\ \A m \in Machine : GivenNext(record[m].by)
      /\ \A a \in strayed \cup tombs : GivenNext(a)
  <2> HIDE DEF Given, GivenNext
  <2>1. \A w \in Worker : GivenNext(work[w].agent) /\ \A a \in work[w].rows : GivenNext(a)
    BY <1>1, <1>2, <1>4
  <2>2. /\ \A i \in Install : GivenNext(identity[i])
        /\ \A c \in Code : GivenNext(codes[c].agent)
        /\ \A m \in Machine : GivenNext(record[m].by)
    BY <1>0, <1>2, <1>4
  <2>3. \A a \in strayed \cup tombs : GivenNext(a)
    BY <1>0, <1>2, <1>4
  <2>. QED  BY <2>1, <2>2, <2>3
<1>6. ASSUME NEW w \in Worker
      PROVE  GivenNext(work'[w].agent) /\ \A a \in work'[w].rows : GivenNext(a)
  <2>1. Arrives(w)
    BY CallArrives
  <2>2. \A m : \A a \in RowsOf(m) : GivenNext(a)
    <3>1. \A m : \A a \in RowsOf(m) : a \in Agent /\ Given(a)
      BY DEF RowsOf, HasRow, Given
    <3>. QED  BY <1>2, <3>1
  <2> HIDE DEF Fresh, Given, GivenNext
  <2>3. CASE Mints(w)
    BY <1>2, <1>5, <2>3 DEF Mints
  <2>4. CASE Deletes(w)
    BY <1>3, <2>2, <2>4 DEF Deletes
  <2>5. CASE Starts(w)
    BY <1>3, <1>5, <2>5 DEF Starts
  <2>6. CASE work'[w] = Idle
    BY <1>3, <2>6 DEF Idle
  <2>7. CASE ~(Mints(w) \/ Deletes(w) \/ Starts(w) \/ work'[w] = Idle)
    BY <1>5, <2>1, <2>7 DEF Arrives, Same, Answers, Wonders, Digs, Doubts, FindsNone, TakesGate, Authorizes,
                            Erases, Keeps
  <2>. QED  BY <2>3, <2>4, <2>5, <2>6, <2>7
<1>7. /\ \A i \in Install : GivenNext(identity'[i])
      /\ \A c \in Code : GivenNext(codes'[c].agent)
      /\ \A m \in Machine : GivenNext(record'[m].by)
  <2> HIDE DEF Fresh, Given, GivenNext, NoRecord
  <2>1. ASSUME NEW i \in Install  PROVE GivenNext(identity'[i])
    BY <1>3, <1>5, WhoIsNamed
  <2>2. ASSUME NEW c \in Code  PROVE GivenNext(codes'[c].agent)
    BY <1>2, <1>5, WhoIsNamed
  <2>3. ASSUME NEW m \in Machine  PROVE GivenNext(record'[m].by)
    BY <1>3, <1>5, WhoIsNamed
  <2>. QED  BY <2>1, <2>2, <2>3
<1>8. \A a \in strayed' \cup tombs' : GivenNext(a)
  <2>1. \A a : Gone(a)' => GivenNext(a)
    BY DEF Gone, GivenNext
  <2> HIDE DEF Fresh, Given, GivenNext
  <2>2. \A a \in strayed' : GivenNext(a)
    BY <1>5, <2>1, WhoIsNamed
  <2>3. \A a \in tombs' : GivenNext(a)
    BY <1>5, WhoIsNamed
  <2>. QED  BY <2>2, <2>3
<1>. QED  BY <1>6, <1>7, <1>8 DEF AllGiven, Given, GivenNext

-------------------------------------------------------------------------------
(* One holder of a name.                                                   *)

\* Who is live and holds after a step that inserts and renames nobody, was before.
LEMMA HoldersStay ==
  ASSUME Typed, RoomIsKept, Numbered, [Next]_enrollVars,
         ~ \E w \in Worker : RedeemCode(w) \/ (AuthorizeReport(w) /\ work[w].was # work[w].machine),
         NEW a \in Agent, agents'[a].state = "live", Holds(a)'
  PROVE  /\ Holds(a)
         /\ \/ agents[a].state = "live" /\ agents[a].machine = agents'[a].machine
            \/ agents[a].state = "unissued"
<1>1. Holds(a)
  <2>1. CASE a \in strayed'
    <3>1. ~Gone(a)'
      BY DEF Gone
    <3>2. a \in strayed
      BY <2>1, <3>1, WhoIsNamed
    <3>. QED  BY <3>2 DEF Holds
  <2>2. CASE \E c \in Code : codes'[c].agent = a
    <3>1. \E c \in Code : codes[c].agent = a
      BY <2>2, WhoIsNamed
    <3>. QED  BY <3>1 DEF Holds, Redeemed
  <2>. QED  BY <2>1, <2>2 DEF Holds, Redeemed
<1>2. AgentMoves(a)
  BY AgentsMove
<1>3. ~Strays(a)
  BY DEF Strays
<1>. QED  BY <1>1, <1>2, <1>3 DEF AgentMoves, AgentStays, Born, Erased, Pruned, Leaves, Gone, Barred

LEMMA OneHoldsStays ==
  ASSUME Typed, RoomIsKept, Numbered, AllGiven, OneHolds, [Next]_enrollVars
  PROVE  OneHolds'
<1>0. /\ agents \in [Agent -> AgentRow] /\ work \in [Worker -> Call]
      /\ \A w \in Worker : CallTyped(work[w])
  BY DEF Typed, EnrollTypeOK
<1>1. \A a \in Agent : Holds(a) => agents[a].state # "unissued"
  BY AgentIds DEF Holds, Redeemed, AllGiven, Given
<1>2. CASE ~ \E w \in Worker : RedeemCode(w) \/ (AuthorizeReport(w) /\ work[w].was # work[w].machine)
  <2>1. \A a \in Agent : agents'[a].state = "live" /\ Holds(a)' =>
             Holds(a) /\ agents[a].state = "live" /\ agents[a].machine = agents'[a].machine
    BY <1>1, <1>2, HoldersStay
  <2>. QED  BY <2>1 DEF OneHolds
\* The code's agent finds no live agent of the name.
<1>3. ASSUME NEW w \in Worker, RedeemCode(w)  PROVE OneHolds'
  <2>1. LiveOf(work[w].machine) = {}
    BY <1>3 DEF RedeemCode, MayRedeem
  <2>2. agents' = [agents EXCEPT ![Fresh] = [state |-> "live", machine |-> work[w].machine, proven |-> FALSE]]
        /\ strayed' = strayed
    BY <1>3 DEF RedeemCode, InsertAgent, history
  <2>3. work[w].pc \in Minting
    BY <1>3 DEF RedeemCode, At, Minting
  <2>4. Fresh \in Agent
    BY <2>3, FreshIsUnissued
  <2>5. \A c \in Code : codes'[c].agent = codes[c].agent \/ codes'[c].agent = Fresh
    BY WhoIsNamed
  <2> HIDE DEF Fresh
  <2>6. \A b \in Agent : b # Fresh => agents'[b] = agents[b] /\ (Holds(b)' => Holds(b))
    BY <1>0, <2>2, <2>5 DEF Holds, Redeemed
  <2>7. agents'[Fresh].machine = work[w].machine
    BY <1>0, <2>2, <2>4
  <2>8. \A b \in Agent : b # Fresh /\ agents'[b].state = "live" => agents'[b].machine # work[w].machine
    BY <2>1, <2>6 DEF LiveOf, RowsOf, HasRow
  <2>. QED  BY <2>6, <2>7, <2>8 DEF OneHolds
\* The renamed agent finds no other agent of the name.
<1>4. ASSUME NEW w \in Worker, AuthorizeReport(w), work[w].was # work[w].machine  PROVE OneHolds'
  <2> DEFINE r == work[w].agent
  <2>1. r \in Agent
    BY <1>0, <1>4 DEF AuthorizeReport, At, CallTyped, OfAnAgent
  <2>2. RowsOf(work[w].machine) \ {r} = {}
    BY <1>4 DEF AuthorizeReport, NameTaken
  <2>3. /\ codes' = codes /\ strayed' = strayed \cup {r}
        /\ agents' = IF HasRow(r) THEN [agents EXCEPT ![r].machine = work[w].machine] ELSE agents
    BY <1>4 DEF AuthorizeReport
  <2> HIDE DEF r
  <2>4. \A b \in Agent : b # r => agents'[b] = agents[b] /\ (Holds(b)' => Holds(b))
    BY <1>0, <2>3 DEF Holds, Redeemed
  <2>5. CASE HasRow(r)
    <3>1. agents'[r].machine = work[w].machine
      BY <1>0, <2>1, <2>3, <2>5 DEF AgentRow
    <3>2. \A b \in Agent : b # r /\ agents'[b].state = "live" => agents'[b].machine # work[w].machine
      BY <2>2, <2>4 DEF RowsOf, HasRow
    <3>. QED  BY <2>4, <3>1, <3>2 DEF OneHolds
  <2>6. CASE ~HasRow(r)
    <3>1. agents'[r].state # "live"
      BY <2>3, <2>6 DEF HasRow
    <3>. QED  BY <2>4, <3>1 DEF OneHolds
  <2>. QED  BY <2>5, <2>6
<1>. QED  BY <1>2, <1>3, <1>4

-------------------------------------------------------------------------------
(* Gates.                                                                  *)

\* Who holds a gate held it, or found it free and was the only one to move.
LEMMA GateIsTaken ==
  ASSUME Typed, [Next]_enrollVars, NEW w \in Worker, work'[w].pc \in Gated
  PROVE  \/ work[w].pc \in Gated /\ work[w].machine = work'[w].machine
         \/ ~GateTaken(work'[w].machine) /\ Alone(w)
<1>1. Arrives(w)
  BY CallArrives
<1>2. CASE Authorizes(w)
  BY <1>2 DEF Authorizes, AuthorizeReport, At, Gated, Keeps
<1>. QED
  BY <1>1, <1>2 DEF Arrives, Same, Idle, Starts, Mints, Answers, Wonders, Digs, Doubts, FindsNone, TakesGate,
                    Deletes, Erases, Gated, Minting, Keeps

LEMMA GatesStay ==
  ASSUME Typed, GatesHold, [Next]_enrollVars
  PROVE  GatesHold'
<1> SUFFICES ASSUME NEW v \in Worker, NEW w \in Worker, work'[v].pc \in Gated, work'[w].pc \in Gated,
                    work'[v].machine = work'[w].machine, v # w
             PROVE  FALSE
  BY DEF GatesHold
<1>1. \/ work[v].pc \in Gated /\ work[v].machine = work'[v].machine
      \/ ~GateTaken(work'[v].machine) /\ Alone(v)
  BY GateIsTaken
<1>2. \/ work[w].pc \in Gated /\ work[w].machine = work'[w].machine
      \/ ~GateTaken(work'[w].machine) /\ Alone(w)
  BY GateIsTaken
<1>3. CASE work[v].pc \in Gated /\ work[v].machine = work'[v].machine
           /\ work[w].pc \in Gated /\ work[w].machine = work'[w].machine
  BY <1>3 DEF GatesHold
<1>4. CASE ~GateTaken(work'[v].machine) /\ Alone(v)
  BY <1>4 DEF GateTaken, Alone
<1>5. CASE ~GateTaken(work'[w].machine) /\ Alone(w)
  BY <1>5 DEF GateTaken, Alone
<1>. QED  BY <1>1, <1>2, <1>3, <1>4, <1>5

\* Nobody but the holder of a name's gate erases the name.
LEMMA GateKeepsOut ==
  ASSUME Typed, GatesHold, NEW v \in Worker, EraseMachine(v)
  PROVE  /\ GateTaken(work[v].machine)
         /\ \A w \in Worker : work[w].pc \in Gated /\ work[w].machine = work[v].machine => w = v
<1>1. work[v].pc \in Gated
  BY DEF EraseMachine, At, Gated
<1>. QED  BY <1>1 DEF GateTaken, GatesHold

-------------------------------------------------------------------------------
(* Names.                                                                  *)

NamedNext(a, m) == a \in strayed' \/ (agents'[a].state \in {"live", "revoked"} /\ agents'[a].machine = m)

\* A named row leaves its name when the name is erased, or by straying.
LEMMA NamedStays ==
  ASSUME Typed, RoomIsKept, Numbered, [Next]_enrollVars, NEW a \in Agent, NEW m, Named(a, m)
  PROVE  \/ NamedNext(a, m)
         \/ Gone(a)' /\ \E v \in Worker : EraseMachine(v) /\ work[v].machine = m
<1>1. AgentMoves(a)
  BY AgentsMove
<1>2. strayed \subseteq strayed'
  BY WhoIsNamed
<1>. QED
  BY <1>1, <1>2 DEF AgentMoves, AgentStays, Born, Strays, Erased, Pruned, Leaves, Barred, Named, NamedNext, HasRow

\* What is gone stays gone.
LEMMA GoneStays ==
  ASSUME Typed, RoomIsKept, Numbered, [Next]_enrollVars, NEW a \in Agent, Gone(a)
  PROVE  Gone(a)'
<1>1. AgentMoves(a)
  BY AgentsMove
<1>. QED
  BY <1>1 DEF AgentMoves, AgentStays, Born, Strays, Erased, Pruned, Leaves, Barred, HasRow, Gone

\* Under the gate of a name, nobody but the delete that holds it takes a row.
LEMMA NamedUnderGate ==
  ASSUME Typed, RoomIsKept, Numbered, GatesHold, [Next]_enrollVars,
         NEW w \in Worker, work[w].pc \in Gated, ~EraseMachine(w), NEW a \in Agent, Named(a, work[w].machine)
  PROVE  NamedNext(a, work[w].machine)
<1>1. PICK m : m = work[w].machine
  OBVIOUS
<1>2. ~ \E v \in Worker : EraseMachine(v) /\ work[v].machine = m
  BY <1>1, GateKeepsOut
<1>. QED  BY <1>1, <1>2, NamedStays

LEMMA ReportsStayNamed ==
  ASSUME Typed, RoomIsKept, Numbered, GatesHold, ReportsAreNamed, [Next]_enrollVars
  PROVE  ReportsAreNamed'
<1> SUFFICES ASSUME NEW w \in Worker,
                    \/ work'[w].pc = "authorize" /\ work'[w].was = work'[w].machine
                    \/ work'[w].pc = "store"
             PROVE  NamedNext(work'[w].agent, work'[w].machine)
  BY DEF ReportsAreNamed, Named, NamedNext, HasRow, At
<1>0. CallTyped(work[w]) /\ CallTyped(work'[w])
  BY CallsStayTyped DEF Typed
<1>1. Arrives(w)
  BY CallArrives
<1>2. CASE Same(w)
  <2>1. work[w].pc \in Gated /\ work[w].agent \in Agent /\ ~EraseMachine(w)
    BY <1>0, <1>2 DEF Same, Gated, CallTyped, OfAnAgent, EraseMachine, At
  <2>2. Named(work[w].agent, work[w].machine)
    BY <1>2 DEF Same, ReportsAreNamed, At
  <2>. QED  BY <1>2, <2>1, <2>2, NamedUnderGate DEF Same
<1>3. CASE TakesGate(w)
  <2>1. work[w].agent \in Agent
    BY <1>0, <1>3 DEF TakesGate, At, CallTyped, OfAnAgent
  <2>2. /\ work'[w].was = work'[w].machine /\ work'[w].machine = work[w].machine
        /\ work'[w].agent = work[w].agent
    BY <1>3 DEF TakesGate, Keeps
  <2>3. PICK a, m : a \in Agent /\ a = work[w].agent /\ m = work[w].machine
    BY <2>1
  <2>4. Named(a, m)
    BY <1>3, <2>2, <2>3 DEF TakesGate, Named, HasRow
  <2>5. ~ \E v \in Worker : EraseMachine(v) /\ work[v].machine = m
    BY <1>3, <2>3, GateKeepsOut DEF TakesGate
  <2>. QED  BY <2>2, <2>3, <2>4, <2>5, NamedStays
<1>4. CASE Authorizes(w)
  <2>1. work[w].pc \in Gated /\ work[w].agent \in Agent /\ ~EraseMachine(w)
    BY <1>0, <1>4 DEF Authorizes, AuthorizeReport, At, Gated, CallTyped, OfAnAgent, EraseMachine
  <2>2. CASE work[w].was = work[w].machine
    <3>1. Named(work[w].agent, work[w].machine)
      BY <1>4, <2>2 DEF Authorizes, AuthorizeReport, ReportsAreNamed, At
    <3>. QED  BY <1>4, <2>1, <3>1, NamedUnderGate DEF Authorizes, Keeps
  <2>3. CASE work[w].was # work[w].machine
    BY <1>4, <2>3 DEF Authorizes, AuthorizeReport, Keeps, NamedNext
  <2>. QED  BY <2>2, <2>3
<1>. QED
  BY <1>1, <1>2, <1>3, <1>4 DEF Arrives, Idle, Starts, Mints, Answers, Wonders, Digs, Doubts, FindsNone,
                                Deletes, Erases, Minting

LEMMA TicksStayNamed ==
  ASSUME Typed, RoomIsKept, Numbered, GatesHold, TicksAreNamed, [Next]_enrollVars
  PROVE  TicksAreNamed'
<1> SUFFICES ASSUME NEW w \in Worker, work'[w].pc = "erase", NEW a \in work'[w].rows
             PROVE  NamedNext(a, work'[w].machine)
  BY DEF TicksAreNamed, Named, NamedNext, HasRow, At
<1>0. CallTyped(work[w])
  BY DEF Typed
<1>1. Arrives(w)
  BY CallArrives
<1>2. CASE Same(w)
  <2>1. work[w].pc \in Gated /\ a \in Agent /\ Named(a, work[w].machine)
    BY <1>0, <1>2 DEF Same, Gated, CallTyped, Call, TicksAreNamed, At
  <2>2. ~EraseMachine(w)
    <3>1. ASSUME EraseMachine(w)  PROVE work'[w].pc = "wipe"
      BY <3>1 DEF EraseMachine, Go, Typed, EnrollTypeOK, Call
    <3>. QED  BY <3>1
  <2>. QED  BY <1>2, <2>1, <2>2, NamedUnderGate DEF Same
<1>3. CASE Deletes(w)
  BY <1>3, WhoIsNamed DEF Deletes, RowsOf, HasRow, NamedNext
<1>. QED
  BY <1>1, <1>2, <1>3 DEF Arrives, Idle, Starts, Mints, Answers, Wonders, Digs, Doubts, FindsNone,
                          TakesGate, Authorizes, Erases, Minting

\* Who is about to wipe a record goes on, or wipes it.
LEMMA WipesComeToAnEnd ==
  ASSUME Typed, [Next]_enrollVars, NEW w \in Worker, At(w, "wipe")
  PROVE  \/ work'[w].pc = "wipe" /\ work'[w].machine = work[w].machine
         \/ WipeRecord(w)
<1>0. work \in [Worker -> Call]
  BY DEF Typed, EnrollTypeOK
<1>1. work'[w] = work[w] \/ work'[w] = [work[w] EXCEPT !.heard = FALSE] \/ WipeRecord(w)
  <2> DEFINE Goal == work'[w] = work[w] \/ work'[w] = [work[w] EXCEPT !.heard = FALSE] \/ WipeRecord(w)
  <2>1. ASSUME NEW v \in Worker, NEW call, Go(v, call), work[v].pc # "wipe"  PROVE Goal
    BY <1>0, <2>1 DEF Go, At
  <2>2. ASSUME NEW v \in Worker, Serve(v)  PROVE Goal
    <3>1. CASE WipeRecord(v)
      BY <1>0, <3>1 DEF WipeRecord, Go
    <3>2. CASE ~WipeRecord(v)
      <4>1. work[v].pc # "wipe" /\ \E call : Go(v, call)
        <5>1. CASE EnrollAgent(v) \/ RedeemCode(v) \/ RedeemRefused(v)
          BY <5>1 DEF EnrollAgent, RedeemCode, InsertAgent, RedeemRefused, At
        <5>2. CASE AuthenticateBeat(v) \/ FindReason(v) \/ FindTomb(v) \/ Unheard(v)
          BY <5>2 DEF AuthenticateBeat, FindReason, FindTomb, Unheard, At, Becomes, Reply
        <5>3. CASE AuthenticateReport(v) \/ AuthorizeReport(v) \/ RefuseName(v) \/ StoreReport(v)
          BY <5>3 DEF AuthenticateReport, AuthorizeReport, RefuseName, StoreReport, At
        <5>4. CASE EraseMachine(v) \/ MarkRevoked(v) \/ DropAgent(v)
          BY <5>4 DEF EraseMachine, MarkRevoked, DropAgent, At, Becomes
        <5>. QED  BY <2>2, <3>2, <5>1, <5>2, <5>3, <5>4 DEF Serve
      <4>. QED  BY <2>1, <4>1
    <3>. QED  BY <3>1, <3>2
  <2>3. ASSUME NEW v \in Worker, Hear(v) \/ GiveUp(v)  PROVE Goal
    <3>1. CASE Minted(v)
      BY <1>0, <3>1 DEF Minted, Deaf, At
    <3>2. CASE Accepted(v) \/ StayDown(v) \/ Forget(v) \/ Strike(v)
      BY <2>1, <3>2 DEF Accepted, StayDown, Forget, Strike, HearBeat, At
    <3>3. CASE GiveUp(v)
      BY <1>0, <3>3 DEF GiveUp, Go
    <3>. QED  BY <2>3, <3>1, <3>2, <3>3 DEF Hear
  <2>4. CASE \E i \in Install, v \in Worker : Ask(i, v) \/ Report(i, v) \/ \E c \in Code : AskToRedeem(i, c, v)
    BY <2>1, <2>4 DEF Ask, AskToEnroll, Beat, Report, AskToRedeem, At
  <2>5. CASE \/ \E m \in Machine, ticked \in BOOLEAN, v \in Worker : StartDelete(m, ticked, v)
             \/ \E c \in Code, v \in Worker : StartRevokeCode(c, v)
    BY <2>1, <2>5 DEF StartDelete, StartRevokeCode, At
  <2>6. CASE Restarts
    BY <1>0, <2>6 DEF Restarts, Restart, Deaf
  <2>7. CASE \/ \E c \in Code : CreateCode(c) \/ ExpireCode(c)
             \/ \E a \in Agent : RevokeAgent(a) \/ PruneEnrollments(a) \/ PruneTomb(a)
             \/ UNCHANGED enrollVars
    BY <2>7 DEF CreateCode, ExpireCode, RevokeAgent, PruneEnrollments, PruneTomb, enrollVars, hubVars
  <2>. QED  BY <2>2, <2>3, <2>4, <2>5, <2>6, <2>7 DEF Next
<1>. QED  BY <1>0, <1>1 DEF At, Call

LEMMA RecordsStayNamed ==
  ASSUME Typed, RoomIsKept, Numbered, GatesHold, ReportsAreNamed, RecordsAreNamed, [Next]_enrollVars
  PROVE  RecordsAreNamed'
<1>0. /\ record \in [Machine -> [pc : Install \cup {NoInstall}, by : Agent \cup {NoAgent}]]
      /\ work \in [Worker -> Call] /\ \A w \in Worker : CallTyped(work[w])
  BY DEF Typed, EnrollTypeOK
<1> SUFFICES ASSUME NEW m \in Machine, record'[m].by # NoAgent
             PROVE  \/ NamedNext(record'[m].by, m)
                    \/ agents'[record'[m].by].state = "gone"
                       /\ \E w \in Worker : work'[w].pc = "wipe" /\ work'[w].machine = m
  BY DEF RecordsAreNamed, Named, NamedNext, HasRow, Gone, At
<1>1. CASE record'[m] = NoRecord
  BY <1>1 DEF NoRecord
<1>2. ASSUME NEW w \in Worker, StoreReport(w), m = work[w].machine, record'[m].by = work[w].agent
      PROVE  NamedNext(record'[m].by, m)
  <2>1. work[w].pc \in Gated /\ work[w].agent \in Agent /\ ~EraseMachine(w)
    BY <1>0, <1>2 DEF StoreReport, At, Gated, CallTyped, OfAnAgent, EraseMachine
  <2>2. Named(work[w].agent, work[w].machine)
    BY <1>2 DEF StoreReport, ReportsAreNamed
  <2>. QED  BY <1>2, <2>1, <2>2, NamedUnderGate
<1>3. CASE record'[m] = record[m]
  <2>1. PICK a : a = record[m].by
    OBVIOUS
  <2>2. a \in Agent /\ a # NoAgent
    BY <1>0, <1>3, <2>1
  <2>3. CASE Named(a, m)
    <3>1. NamedNext(a, m) \/ (Gone(a)' /\ \E v \in Worker : EraseMachine(v) /\ work[v].machine = m)
      BY <2>2, <2>3, NamedStays
    <3>2. ASSUME NEW v \in Worker, EraseMachine(v)
          PROVE  work'[v].pc = "wipe" /\ work'[v].machine = work[v].machine
      <4>1. work'[v] = [work[v] EXCEPT !.pc = "wipe", !.rows = {}]
        BY <1>0, <3>2 DEF EraseMachine, Go
      <4>. QED  BY <1>0, <4>1 DEF Call
    <3>. QED  BY <1>3, <2>1, <3>1, <3>2 DEF Gone
  <2>4. ASSUME Gone(a), NEW w \in Worker, At(w, "wipe"), work[w].machine = m
        PROVE  agents'[a].state = "gone" /\ work'[w].pc = "wipe" /\ work'[w].machine = m
    <3>1. agents'[a].state = "gone"
      BY <2>2, <2>4, GoneStays DEF Gone
    <3>2. ~WipeRecord(w)
      BY <1>0, <1>3, <2>1, <2>2, <2>4 DEF WipeRecord, NoRecord
    <3>. QED  BY <2>4, <3>1, <3>2, WipesComeToAnEnd
  <2>. QED  BY <1>3, <2>1, <2>2, <2>3, <2>4 DEF RecordsAreNamed
<1>. QED  BY <1>1, <1>2, <1>3, WhoIsNamed

-------------------------------------------------------------------------------
(* Refusals.                                                               *)

FinishedNext(a) == agents'[a].state = "gone" /\ (a \in tombs' => a \in strayed')

\* An agent that is finished is not told to uninstall later on.
LEMMA FinishedStays ==
  ASSUME Typed, RoomIsKept, Numbered, TicksAreNamed, [Next]_enrollVars, NEW a \in Agent, Finished(a)
  PROVE  FinishedNext(a)
<1>1. agents'[a].state = "gone"
  BY GoneStays DEF Finished, Gone
<1>2. strayed \subseteq strayed'
  BY WhoIsNamed
<1>3. ASSUME NEW w \in Worker, EraseMachine(w), a \in work[w].rows  PROVE a \in strayed
  <2>1. Named(a, work[w].machine)
    BY <1>3 DEF TicksAreNamed, EraseMachine
  <2>. QED  BY <2>1 DEF Named, HasRow, Finished, Gone
<1>4. a \in tombs' => a \in strayed'
  BY <1>2, <1>3, WhoIsNamed DEF Finished
<1>. QED  BY <1>1, <1>4 DEF FinishedNext

LEMMA RefusalsStayFinal ==
  ASSUME Typed, RoomIsKept, Numbered, AllGiven, TicksAreNamed, RefusalsAreFinal, [Next]_enrollVars
  PROVE  RefusalsAreFinal'
<1>0. /\ \A w \in Worker : CallTyped(work[w])
      /\ agents \in [Agent -> AgentRow] /\ forgotten \subseteq Agent
  BY DEF Typed, EnrollTypeOK
<1>1. \A a \in Agent : Gone(a) => agents'[a].state = "gone"
  BY GoneStays DEF Gone
<1>2. \A a \in Agent : Finished(a) => FinishedNext(a)
  BY FinishedStays
<1>3. \A a \in Agent : agents[a].state \in {"revoked", "gone"} => agents'[a].state \in {"revoked", "gone"}
  BY AgentsMove DEF AgentMoves, AgentStays, Born, Strays, Erased, Pruned, Leaves, Barred, Gone
<1>4. ASSUME NEW w \in Worker
      PROVE  /\ work'[w].pc = "reason" => agents'[work'[w].agent].state \in {"revoked", "gone"}
             /\ work'[w].pc = "tomb" => agents'[work'[w].agent].state = "gone"
             /\ work'[w].pc = "unknown" => FinishedNext(work'[w].agent)
  <2>1. Arrives(w)
    BY CallArrives
  <2>2. CASE Same(w)
    <3>1. work[w].pc \in {"reason", "tomb", "unknown"} => work[w].agent \in Agent
      BY <1>0 DEF CallTyped, OfAnAgent, Beating, Reply
    <3>. QED  BY <1>1, <1>2, <1>3, <2>2, <3>1 DEF Same, RefusalsAreFinal, At
  <2>3. CASE Wonders(w)
    <3>1. work[w].agent \in Agent /\ work'[w].agent = work[w].agent
      BY <1>0, <2>3 DEF Wonders, Keeps, At, CallTyped, OfAnAgent, Beating
    <3>2. agents[work[w].agent].state # "unissued"
      BY <3>1, AgentIds DEF AllGiven, Given
    <3>3. agents[work[w].agent].state \in {"revoked", "gone"}
      BY <1>0, <2>3, <3>1, <3>2 DEF Wonders, AgentRow
    <3>. QED  BY <1>3, <2>3, <3>1, <3>3 DEF Wonders
  <2>4. CASE Digs(w)
    <3>1. work[w].agent \in Agent /\ work'[w].agent = work[w].agent
      BY <1>0, <2>4 DEF Digs, Keeps, At, CallTyped, OfAnAgent, Beating
    <3>2. Gone(work[w].agent)
      BY <2>4 DEF Digs, RefusalsAreFinal, HasRow, Gone
    <3>. QED  BY <1>1, <2>4, <3>1, <3>2 DEF Digs
  <2>5. CASE Doubts(w)
    BY <2>5 DEF Doubts, RefusalsAreFinal, HasRow
  <2>6. CASE FindsNone(w)
    <3>1. work[w].agent \in Agent /\ work'[w].agent = work[w].agent
      BY <1>0, <2>6 DEF FindsNone, Keeps, At, CallTyped, OfAnAgent, Beating
    <3>2. Finished(work[w].agent)
      BY <2>6 DEF FindsNone, RefusalsAreFinal, Finished
    <3>. QED  BY <1>2, <2>6, <3>1, <3>2 DEF FindsNone
  <2>. QED
    BY <2>1, <2>2, <2>3, <2>4, <2>5, <2>6 DEF Arrives, Idle, Starts, Mints, Answers, TakesGate, Authorizes,
                                              Deletes, Erases, Minting
<1>5. ASSUME NEW a \in forgotten'  PROVE FinishedNext(a)
  <2>1. a \in forgotten \/ \E w \in Worker : Forget(w) /\ a = work[w].agent
    BY WhoIsNamed
  <2>2. CASE a \in forgotten
    BY <1>0, <1>2, <2>2 DEF RefusalsAreFinal
  <2>3. ASSUME NEW w \in Worker, Forget(w), a = work[w].agent  PROVE FinishedNext(a)
    <3>1. At(w, "unknown")
      BY <2>3 DEF Forget, HearBeat
    <3>2. work[w].agent \in Agent /\ Finished(work[w].agent)
      BY <1>0, <3>1 DEF RefusalsAreFinal, At, CallTyped, OfAnAgent, Reply
    <3>. QED  BY <1>2, <2>3, <3>2
  <2>. QED  BY <2>1, <2>2, <2>3
<1>. QED  BY <1>4, <1>5 DEF RefusalsAreFinal, Finished, FinishedNext, Gone, At

-------------------------------------------------------------------------------
(* The theorems.                                                           *)

LEMMA EnrollInitial == Init => EnrollIInv
<1> SUFFICES ASSUME Init  PROVE EnrollIInv
  OBVIOUS
<1> USE DEF Init
<1>1. /\ \A a \in Agent : agents[a].state = "unissued" /\ agents[a].machine = NoMachine
      /\ \A w \in Worker : work[w] = Idle
  OBVIOUS
<1>2. Idle.pc = "idle" /\ Idle.agent = NoAgent /\ Idle.rows = {}
  BY DEF Idle
<1>3. Typed
  BY <1>1, IdleTyped DEF Typed, EnrollTypeOK, AgentRow, NoRecord, HasRow
<1>4. RoomIsKept
  <2>1. Minters = {}
    BY <1>1, <1>2 DEF Minters, Minting
  <2>2. IsFiniteSet(Unissued)
    BY AgentIds DEF Unissued
  <2>. QED  BY <2>1, <2>2, FS_EmptySet, FS_CardinalityType DEF RoomIsKept
<1>5. Numbered
  <2>1. \A a \in Agent : a \in Unissued <=> a > 0
    BY <1>1 DEF Unissued, Agent
  <2>. QED  BY <2>1 DEF Numbered
<1>6. AllGiven
  BY <1>1, <1>2 DEF AllGiven, Given, NoRecord
<1>7. OneHolds /\ GatesHold
  BY <1>1, <1>2 DEF OneHolds, GatesHold, Gated
<1>8. ReportsAreNamed /\ RecordsAreNamed /\ TicksAreNamed /\ RefusalsAreFinal
  BY <1>1, <1>2 DEF ReportsAreNamed, RecordsAreNamed, TicksAreNamed, RefusalsAreFinal, NoRecord, At
<1>. QED  BY <1>3, <1>4, <1>5, <1>6, <1>7, <1>8 DEF EnrollIInv

LEMMA EnrollInductive == EnrollIInv /\ [Next]_enrollVars => EnrollIInv'
BY EnrollStepTyped, RoomStays, NumberedStays, AllGivenStays, OneHoldsStays, GatesStay, ReportsStayNamed,
   RecordsStayNamed, TicksStayNamed, RefusalsStayFinal
   DEF EnrollIInv

LEMMA EnrollInvariant == Spec => []EnrollIInv
BY EnrollInitial, EnrollInductive, PTL DEF Spec

\* The types, and OneHolder: of the live agents of a name at most one came to
\* it by an onboarding code or by a rename (redeem_code and authorize_report
\* look for another inside the transaction that writes).
THEOREM EnrollmentSafety == Spec => []EnrollInv
<1>1. ASSUME EnrollIInv, NEW m \in Machine
      PROVE  Cardinality({a \in LiveOf(m) : Redeemed(a) \/ a \in strayed}) <= 1
  <2> DEFINE H == {a \in LiveOf(m) : Redeemed(a) \/ a \in strayed}
  <2>1. \A a, b \in H : a = b
    BY <1>1 DEF EnrollIInv, OneHolds, Holds, LiveOf, RowsOf
  <2> SUFFICES Cardinality(H) <= 1
    OBVIOUS
  <2> HIDE DEF H
  <2>2. CASE H = {}
    BY <2>2, FS_EmptySet
  <2>3. CASE H # {}
    <3>1. PICK a \in H : TRUE
      BY <2>3
    <3>2. H = {a}
      BY <2>1, <3>1
    <3>3. Cardinality({a}) = 1
      BY FS_Singleton
    <3>. QED  BY <3>2, <3>3
  <2>. QED  BY <2>2, <2>3
<1>2. EnrollIInv => EnrollInv
  BY <1>1 DEF EnrollIInv, Typed, EnrollInv, OneHolder
<1>. QED  BY <1>2, EnrollInvariant, PTL

\* A record outlives its agent only until the delete that took the agent wipes
\* it: the ingest gate keeps reports of a name and deletes of it apart.
THEOREM DeletedMachinesStayGone == Spec => []DeletedStaysGone
<1>1. EnrollIInv => DeletedStaysGone
  BY DEF EnrollIInv, RecordsAreNamed, DeletedStaysGone, Named, HasRow
<1>. QED  BY <1>1, EnrollInvariant, PTL

\* A credential is thrown away only when the hub is through with its agent,
\* though the refusal takes three reads and the answer comes when it may.
THEOREM ForgettingIsFinal == Spec => []ForgetIsFinal
<1>1. EnrollIInv => ForgetIsFinal
  BY DEF EnrollIInv, RefusalsAreFinal, Finished, Gone, ForgetIsFinal
<1>. QED  BY <1>1, EnrollInvariant, PTL
=============================================================================
