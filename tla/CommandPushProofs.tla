--------------------------- MODULE CommandPushProofs ---------------------------
(***************************************************************************)
(* The doorbell's safety for any number of threads, slots and machines.    *)
(***************************************************************************)
EXTENDS CommandPush, FiniteSetTheorems, TLAPS

USE QueueAssumption, PushAssumption

\* The threads that hold a slot.
Holders == {w \in Worker : req[w].pc \in Holding}

\* A thread that starts to hold makes one holder more.
LEMMA OneMore ==
  ASSUME NEW w \in Worker, req[w].pc \notin Holding, req'[w].pc \in Holding,
         \A v \in Worker \ {w} : req'[v].pc \in Holding <=> req[v].pc \in Holding
  PROVE  Cardinality(Holders') = Cardinality(Holders) + 1
<1>1. Holders' = Holders \cup {w} /\ w \notin Holders  BY DEF Holders
<1>2. IsFiniteSet(Holders)  BY FS_Subset DEF Holders
<1>. QED  BY <1>1, <1>2, FS_AddElement

\* A thread that stops holding makes one holder less.
LEMMA OneLess ==
  ASSUME NEW w \in Worker, req[w].pc \in Holding, req'[w].pc \notin Holding,
         \A v \in Worker \ {w} : req'[v].pc \in Holding <=> req[v].pc \in Holding
  PROVE  Cardinality(Holders') = Cardinality(Holders) - 1 /\ Cardinality(Holders) > 0
<1>1. Holders' = Holders \ {w} /\ w \in Holders  BY DEF Holders
<1>2. IsFiniteSet(Holders)  BY FS_Subset DEF Holders
<1>3. Cardinality(Holders') = Cardinality(Holders) - 1  BY <1>1, <1>2, FS_RemoveElement
<1>4. Cardinality(Holders) \in Nat /\ Cardinality(Holders') \in Nat
  <2>1. IsFiniteSet(Holders')  BY <1>1, <1>2, FS_RemoveElement
  <2>. QED  BY <1>2, <2>1, FS_CardinalityType
<1>. QED  BY <1>3, <1>4

\* When nobody starts or stops holding, the holders are the same.
LEMMA SameHolders ==
  ASSUME \A v \in Worker : req'[v].pc \in Holding <=> req[v].pc \in Holding
  PROVE  Holders' = Holders
BY DEF Holders

\* What an idle thread's record is.
LEMMA IdleRequest == Idle \in Request /\ Idle.pc = "idle"
BY DEF Idle, Request, Pc

\* A step that leaves the queue alone leaves it typed.
LEMMA QueueStaysTyped ==
  ASSUME QueueTypeOK, UNCHANGED queueVars
  PROVE  QueueTypeOK'
BY DEF QueueTypeOK, queueVars

\* The row is there before the bell, and its thread is about to ring it.
LEMMA IssueKeepsPushIInv ==
  ASSUME PushIInv, NEW w \in Worker, NEW c \in Command, NEW m \in Machine, Issue(w, c, m)
  PROVE  PushIInv'
<1> USE DEF PushIInv, queueVars, pushVars, At, On, Idle, Issue, Create
<1>1. PushTypeOK'
  BY DEF PushTypeOK, QueueTypeOK, Request, Pc, CommandStatus, NoRow
<1>2. HasMachine'
  BY DEF PushTypeOK, HasMachine, Request, Pc, Holding
<1>3. SlotsAreHeld'
  BY SameHolders DEF PushTypeOK, Request, SlotsAreHeld, Holders, Holding
<1>4. NobodySleepsThroughTheBell'
  BY DEF PushTypeOK, QueueTypeOK, Request, HasMachine, NobodySleepsThroughTheBell
<1>5. NoLostWakeup'
  BY DEF PushTypeOK, QueueTypeOK, Request, HasMachine, NobodySleepsThroughTheBell, NoLostWakeup, Waiting, Claimable, PendingOf
<1>. QED  BY <1>1, <1>2, <1>3, <1>4, <1>5

\* The bell wakes whoever is blocked and stays set for whoever is about to block.
LEMMA RingKeepsPushIInv ==
  ASSUME PushIInv, NEW w \in Worker, Ring(w)
  PROVE  PushIInv'
<1> USE IdleRequest DEF PushIInv, queueVars, pushVars, At, On, Ring
<1>1. PushTypeOK'
  <2>1. \A v \in Worker : [req[v] EXCEPT !.pc = "reclear"] \in Request
    <3>1. \A v \in Worker : req[v] \in Request  BY DEF PushTypeOK
    <3>. QED  BY <3>1 DEF Request, Pc
  <2>2. req' \in [Worker -> Request]
    BY <2>1, SMTT(30) DEF PushTypeOK
  <2>3. bell' \in [Machine -> BOOLEAN]
    BY DEF PushTypeOK
  <2>. QED  BY <2>2, <2>3, QueueStaysTyped DEF PushTypeOK
<1>2. HasMachine'
  BY DEF PushTypeOK, HasMachine, Request, Pc, Holding
<1>3. SlotsAreHeld'
  BY SameHolders DEF PushTypeOK, Request, SlotsAreHeld, Holders, Holding
<1>4. NobodySleepsThroughTheBell'
  BY DEF PushTypeOK, QueueTypeOK, Request, HasMachine, NobodySleepsThroughTheBell
<1>5. NoLostWakeup'
  <2>1. SUFFICES ASSUME NEW m \in Machine \ Locked, NEW v \in Worker, req'[v].machine = m,
                        req'[v].pc \in Waiting, Claimable(m)' # {}
                 PROVE  \/ bell'[m]
                        \/ \E u \in Worker : req'[u].machine = m /\ req'[u].pc \in {"ring", "claim", "reclaim"}
    BY DEF NoLostWakeup
  <2>2. CASE req[w].machine = m
    BY <2>2 DEF PushTypeOK
  <2>3. CASE req[w].machine # m
    <3>1. req'[v] = req[v] /\ Claimable(m) # {}
      BY <2>1, <2>3 DEF PushTypeOK, Request, Waiting, Claimable, PendingOf
    <3>2. \/ bell[m]
          \/ \E u \in Worker : req[u].machine = m /\ req[u].pc \in {"ring", "claim", "reclaim"}
      BY <2>1, <3>1 DEF NoLostWakeup
    <3>. QED  BY <2>3, <3>2 DEF PushTypeOK
  <2>. QED  BY <2>2, <2>3
<1>. QED  BY <1>1, <1>2, <1>3, <1>4, <1>5

\* Time takes commands away from the claimable ones and adds none.
LEMMA ExpireKeepsPushIInv ==
  ASSUME PushIInv, NEW c \in Command, Expire(c)
  PROVE  PushIInv'
<1> USE DEF PushIInv, queueVars, pushVars, At, On, Expire, Lapse
<1>1. PushTypeOK'
  BY DEF PushTypeOK, QueueTypeOK, Request, Pc, CommandStatus, NoRow
<1>2. HasMachine'
  BY DEF PushTypeOK, HasMachine, Request, Pc, Holding
<1>3. SlotsAreHeld'
  BY SameHolders DEF PushTypeOK, Request, SlotsAreHeld, Holders, Holding
<1>4. NobodySleepsThroughTheBell'
  BY DEF PushTypeOK, QueueTypeOK, Request, HasMachine, NobodySleepsThroughTheBell
<1>5. NoLostWakeup'
  BY DEF PushTypeOK, QueueTypeOK, Request, HasMachine, NobodySleepsThroughTheBell, NoLostWakeup, Waiting, Claimable, PendingOf
<1>. QED  BY <1>1, <1>2, <1>3, <1>4, <1>5

\* A command that is retired is not claimable any more, and none becomes so.
LEMMA RetireKeepsPushIInv ==
  ASSUME PushIInv, Retire
  PROVE  PushIInv'
<1> USE DEF PushIInv, queueVars, pushVars, At, On, Retire, ExpireStale, CancelIfPending
<1>1. PushTypeOK'
  BY DEF PushTypeOK, QueueTypeOK, Request, Pc, CommandStatus, NoRow
<1>2. HasMachine'
  BY DEF PushTypeOK, HasMachine, Request, Pc, Holding
<1>3. SlotsAreHeld'
  BY SameHolders DEF PushTypeOK, Request, SlotsAreHeld, Holders, Holding
<1>4. NobodySleepsThroughTheBell'
  BY DEF PushTypeOK, QueueTypeOK, Request, HasMachine, NobodySleepsThroughTheBell
<1>5. NoLostWakeup'
  BY DEF PushTypeOK, QueueTypeOK, Request, HasMachine, NobodySleepsThroughTheBell, NoLostWakeup, Waiting, Claimable, PendingOf
<1>. QED  BY <1>1, <1>2, <1>3, <1>4, <1>5

\* A request that arrives has not looked yet, so it cannot have missed anything.
LEMMA AskKeepsPushIInv ==
  ASSUME PushIInv, NEW a \in Agent, NEW w \in Worker, NEW hold \in BOOLEAN, Ask(a, w, hold)
  PROVE  PushIInv'
<1> USE DEF PushIInv, queueVars, pushVars, At, On, Idle, Ask
<1>1. PushTypeOK'
  BY DEF PushTypeOK, QueueTypeOK, Request, Pc, CommandStatus, NoRow
<1>2. HasMachine'
  BY DEF PushTypeOK, HasMachine, Request, Pc, Holding
<1>3. SlotsAreHeld'
  BY SameHolders DEF PushTypeOK, Request, SlotsAreHeld, Holders, Holding
<1>4. NobodySleepsThroughTheBell'
  BY DEF PushTypeOK, QueueTypeOK, Request, HasMachine, NobodySleepsThroughTheBell
<1>5. NoLostWakeup'
  BY DEF PushTypeOK, QueueTypeOK, Request, HasMachine, NobodySleepsThroughTheBell, NoLostWakeup, Waiting, Claimable, PendingOf
<1>. QED  BY <1>1, <1>2, <1>3, <1>4, <1>5

\* Whoever clears the bell is about to claim.
LEMMA ClearKeepsPushIInv ==
  ASSUME PushIInv, NEW w \in Worker, Clear(w)
  PROVE  PushIInv'
<1> USE DEF PushIInv, queueVars, pushVars, At, On, Clear, Go
<1>1. /\ req' \in [Worker -> Request] /\ \A v \in Worker \ {w} : req'[v] = req[v]
      /\ At(w, "clear") => req'[w] = [req[w] EXCEPT !.pc = "claim"]
      /\ At(w, "reclear") => req'[w] = [req[w] EXCEPT !.pc = "reclaim"]
  <2>1. CASE At(w, "clear")
    BY <2>1 DEF PushTypeOK, QueueTypeOK, Request, Pc, CommandStatus, NoRow
  <2>2. CASE At(w, "reclear")
    BY <2>2 DEF PushTypeOK, QueueTypeOK, Request, Pc, CommandStatus, NoRow
  <2>. QED  BY <2>1, <2>2 DEF Claimable
<1>2. PushTypeOK'
  <2>1. QueueTypeOK'
    BY DEF PushTypeOK, QueueTypeOK, CommandStatus, NoRow, Claimable, HasMachine, Request
  <2>2. slots' \in 0..MaxWaiting /\ bell' \in [Machine -> BOOLEAN]
    BY DEF PushTypeOK
  <2>. QED  BY <1>1, <2>1, <2>2 DEF PushTypeOK
<1>3. HasMachine'
  BY <1>1 DEF PushTypeOK, HasMachine, Request, Holding
<1>4. SlotsAreHeld'
  <2>1. \A v \in Worker : req'[v].pc \in Holding <=> req[v].pc \in Holding
    <3>1. req'[w].pc \in Holding <=> req[w].pc \in Holding
      <4>1. CASE At(w, "clear")
        BY <1>1, <4>1 DEF PushTypeOK, Request, Holding
      <4>2. CASE At(w, "reclear")
        BY <1>1, <4>2 DEF PushTypeOK, Request, Holding
      <4>. QED  BY <4>1, <4>2
    <3>. QED  BY <1>1, <3>1
  <2>2. Holders' = Holders  BY <2>1, SameHolders
  <2>. QED  BY <2>2 DEF SlotsAreHeld, Holders
<1>5. NobodySleepsThroughTheBell'
  <2>1. \A v \in Worker \ {w} : req'[v].pc = "wait" => ~bell'[req'[v].machine]
    BY <1>1 DEF NobodySleepsThroughTheBell
  <2>2. req'[w].pc = "wait" => ~bell'[req'[w].machine]
    BY <1>1 DEF PushTypeOK, Request
  <2>. QED  BY <2>1, <2>2 DEF NobodySleepsThroughTheBell
<1>6. NoLostWakeup'
  <2>1. \A m \in Machine : Claimable(m)' = Claimable(m)  BY DEF Claimable, PendingOf
  <2>2. SUFFICES ASSUME NEW m \in Machine \ Locked, NEW v \in Worker, req'[v].machine = m,
                        req'[v].pc \in Waiting, Claimable(m)' # {}
                 PROVE  \/ bell'[m]
                        \/ \E u \in Worker : req'[u].machine = m /\ req'[u].pc \in {"ring", "claim", "reclaim"}
    BY DEF NoLostWakeup
  <2>3. req[v].machine = m /\ req[v].pc \in Waiting
    BY <1>1, <2>2 DEF Waiting, PushTypeOK, Request
  <2>4. \/ bell[m]
        \/ \E u \in Worker : req[u].machine = m /\ req[u].pc \in {"ring", "claim", "reclaim"}
    BY <2>1, <2>2, <2>3 DEF NoLostWakeup
  <2>. QED  BY <1>1, <2>2, <2>3, <2>4 DEF PushTypeOK, Request, Waiting
<1>. QED  BY <1>2, <1>3, <1>4, <1>5, <1>6

\* After a claim there is nothing left to claim for the machine.
LEMMA FirstClaimKeepsPushIInv ==
  ASSUME PushIInv, NEW w \in Worker, FirstClaim(w)
  PROVE  PushIInv'
<1> USE IdleRequest DEF PushIInv, queueVars, pushVars, At, On, FirstClaim, Claim, Go, Answer
<1>1. /\ req' \in [Worker -> Request] /\ \A v \in Worker \ {w} : req'[v] = req[v]
      /\ Claimable(req[w].machine) = {} /\ req[w].hold => req'[w] = [req[w] EXCEPT !.pc = "slot"]
      /\ ~(Claimable(req[w].machine) = {} /\ req[w].hold) => req'[w] = Idle
  <2>1. CASE Claimable(req[w].machine) = {} /\ req[w].hold
    BY <2>1 DEF PushTypeOK, QueueTypeOK, Request, Pc, CommandStatus, NoRow
  <2>2. CASE ~(Claimable(req[w].machine) = {} /\ req[w].hold)
    BY <2>2, SMTT(30) DEF PushTypeOK
  <2>. QED  BY <2>1, <2>2 DEF Claimable
<1>2. PushTypeOK'
  <2>1. QueueTypeOK'
    BY DEF PushTypeOK, QueueTypeOK, CommandStatus, NoRow, Claimable, HasMachine, Request
  <2>2. slots' \in 0..MaxWaiting /\ bell' \in [Machine -> BOOLEAN]
    BY DEF PushTypeOK
  <2>. QED  BY <1>1, <2>1, <2>2 DEF PushTypeOK
<1>3. HasMachine'
  BY <1>1 DEF PushTypeOK, HasMachine, Request, Holding
<1>4. SlotsAreHeld'
  BY <1>1, SameHolders DEF PushTypeOK, Request, SlotsAreHeld, Holders, Holding
<1>5. NobodySleepsThroughTheBell'
  BY <1>1 DEF PushTypeOK, QueueTypeOK, Request, HasMachine, NobodySleepsThroughTheBell
<1>6. NoLostWakeup'
  <2>1. \A m \in Machine : /\ Claimable(m)' \subseteq Claimable(m)
                           /\ req[w].machine = m => Claimable(m)' = {}
    BY DEF PushTypeOK, QueueTypeOK, Claimable, PendingOf
  <2>2. SUFFICES ASSUME NEW m \in Machine \ Locked, NEW v \in Worker, req'[v].machine = m,
                        req'[v].pc \in Waiting, Claimable(m)' # {}
                 PROVE  \/ bell'[m]
                        \/ \E u \in Worker : req'[u].machine = m /\ req'[u].pc \in {"ring", "claim", "reclaim"}
    BY DEF NoLostWakeup
  <2>3. v # w /\ req'[v] = req[v] /\ req[w].machine # m
    BY <1>1, <2>1, <2>2 DEF Waiting, PushTypeOK, Request
  <2>4. \/ bell[m]
        \/ \E u \in Worker : req[u].machine = m /\ req[u].pc \in {"ring", "claim", "reclaim"}
    BY <2>1, <2>2, <2>3 DEF NoLostWakeup
  <2>. QED  BY <1>1, <2>3, <2>4
<1>. QED  BY <1>2, <1>3, <1>4, <1>5, <1>6

\* A slot is counted as it is taken.
LEMMA TakeSlotKeepsPushIInv ==
  ASSUME PushIInv, NEW w \in Worker, TakeSlot(w)
  PROVE  PushIInv'
<1> USE IdleRequest DEF PushIInv, queueVars, pushVars, At, On, TakeSlot, Go, Answer
<1>1. /\ req' \in [Worker -> Request] /\ \A v \in Worker \ {w} : req'[v] = req[v]
      /\ slots < MaxWaiting => req'[w] = [req[w] EXCEPT !.pc = "check"]
      /\ ~(slots < MaxWaiting) => req'[w] = Idle
  <2>1. CASE slots < MaxWaiting
    BY <2>1, SMTT(30) DEF PushTypeOK, Request, Pc
  <2>2. CASE ~(slots < MaxWaiting)
    BY <2>2, SMTT(30) DEF PushTypeOK, Request, Pc
  <2>. QED  BY <2>1, <2>2 DEF Claimable
<1>2. PushTypeOK'
  <2>1. QueueTypeOK'
    BY DEF PushTypeOK, QueueTypeOK, CommandStatus, NoRow, Claimable, HasMachine, Request
  <2>2. slots' \in 0..MaxWaiting /\ bell' \in [Machine -> BOOLEAN]
    BY DEF PushTypeOK
  <2>. QED  BY <1>1, <2>1, <2>2 DEF PushTypeOK
<1>3. HasMachine'
  BY <1>1 DEF PushTypeOK, HasMachine, Request, Holding
<1>4. SlotsAreHeld'
  <2>1. CASE slots < MaxWaiting
    BY <1>1, <2>1, OneMore DEF PushTypeOK, Request, SlotsAreHeld, Holders, Holding
  <2>2. CASE ~(slots < MaxWaiting)
    BY <1>1, <2>2, SameHolders DEF PushTypeOK, Request, SlotsAreHeld, Holders, Holding
  <2>. QED  BY <2>1, <2>2
<1>5. NobodySleepsThroughTheBell'
  <2>1. \A v \in Worker \ {w} : req'[v].pc = "wait" => ~bell'[req'[v].machine]
    BY <1>1 DEF NobodySleepsThroughTheBell
  <2>2. req'[w].pc = "wait" => ~bell'[req'[w].machine]
    BY <1>1 DEF PushTypeOK, Request
  <2>. QED  BY <2>1, <2>2 DEF NobodySleepsThroughTheBell
<1>6. NoLostWakeup'
  <2>1. \A m \in Machine : Claimable(m)' = Claimable(m)  BY DEF Claimable, PendingOf
  <2>2. SUFFICES ASSUME NEW m \in Machine \ Locked, NEW v \in Worker, req'[v].machine = m,
                        req'[v].pc \in Waiting, Claimable(m)' # {}
                 PROVE  \/ bell'[m]
                        \/ \E u \in Worker : req'[u].machine = m /\ req'[u].pc \in {"ring", "claim", "reclaim"}
    BY DEF NoLostWakeup
  <2>3. req[v].machine = m /\ req[v].pc \in Waiting
    BY <1>1, <2>2 DEF Waiting, PushTypeOK, Request
  <2>4. \/ bell[m]
        \/ \E u \in Worker : req[u].machine = m /\ req[u].pc \in {"ring", "claim", "reclaim"}
    BY <2>1, <2>2, <2>3 DEF NoLostWakeup
  <2>. QED  BY <1>1, <2>2, <2>3, <2>4 DEF PushTypeOK, Request, Waiting
<1>. QED  BY <1>2, <1>3, <1>4, <1>5, <1>6

\* A request blocks only when the bell is silent; giving up returns the slot.
LEMMA CheckKeepsPushIInv ==
  ASSUME PushIInv, NEW w \in Worker, Check(w)
  PROVE  PushIInv'
<1> USE IdleRequest DEF PushIInv, queueVars, pushVars, At, On, Check, Go, Answer, Release
<1>1. /\ req' \in [Worker -> Request] /\ \A v \in Worker \ {w} : req'[v] = req[v]
      /\ req[w].due => req'[w] = Idle
      /\ ~req[w].due /\ bell[req[w].machine] => req'[w] = [req[w] EXCEPT !.pc = "reclear"]
      /\ ~req[w].due /\ ~bell[req[w].machine] => req'[w] = [req[w] EXCEPT !.pc = "wait"]
  <2>1. CASE req[w].due
    BY <2>1 DEF PushTypeOK, QueueTypeOK, Request, Pc, CommandStatus, NoRow
  <2>2. CASE ~req[w].due /\ bell[req[w].machine]
    BY <2>2 DEF PushTypeOK, QueueTypeOK, Request, Pc, CommandStatus, NoRow
  <2>3. CASE ~req[w].due /\ ~bell[req[w].machine]
    BY <2>3 DEF PushTypeOK, QueueTypeOK, Request, Pc, CommandStatus, NoRow
  <2>. QED  BY <2>1, <2>2, <2>3 DEF Claimable
<1>2. PushTypeOK'
  <2>1. QueueTypeOK'
    BY DEF PushTypeOK, QueueTypeOK, CommandStatus, NoRow, Claimable, HasMachine, Request
  <2>2. slots' \in 0..MaxWaiting /\ bell' \in [Machine -> BOOLEAN]
    BY DEF PushTypeOK
  <2>. QED  BY <1>1, <2>1, <2>2 DEF PushTypeOK
<1>3. HasMachine'
  BY <1>1 DEF PushTypeOK, HasMachine, Request, Holding
<1>4. SlotsAreHeld'
  <2>1. CASE req[w].due
    BY <1>1, <2>1, OneLess DEF PushTypeOK, Request, SlotsAreHeld, Holders, Holding
  <2>2. CASE ~req[w].due /\ bell[req[w].machine]
    <3>1. req[w].pc = "check" /\ req'[w].pc = "reclear"
      BY <1>1, <2>2 DEF PushTypeOK, Request
    <3>2. \A v \in Worker : req'[v].pc \in Holding <=> req[v].pc \in Holding
      BY <1>1, <3>1 DEF Holding
    <3>. QED  BY <2>2, <3>2, SameHolders DEF SlotsAreHeld, Holders
  <2>3. CASE ~req[w].due /\ ~bell[req[w].machine]
    <3>1. req[w].pc = "check" /\ req'[w].pc = "wait"
      BY <1>1, <2>3 DEF PushTypeOK, Request
    <3>2. \A v \in Worker : req'[v].pc \in Holding <=> req[v].pc \in Holding
      BY <1>1, <3>1 DEF Holding
    <3>. QED  BY <2>3, <3>2, SameHolders DEF SlotsAreHeld, Holders
  <2>. QED  BY <2>1, <2>2, <2>3
<1>5. NobodySleepsThroughTheBell'
  <2>1. \A v \in Worker \ {w} : req'[v].pc = "wait" => ~bell'[req'[v].machine]
    BY <1>1 DEF NobodySleepsThroughTheBell
  <2>2. req'[w].pc = "wait" => ~bell'[req'[w].machine]
    BY <1>1 DEF PushTypeOK, Request
  <2>. QED  BY <2>1, <2>2 DEF NobodySleepsThroughTheBell
<1>6. NoLostWakeup'
  <2>1. \A m \in Machine : Claimable(m)' = Claimable(m)  BY DEF Claimable, PendingOf
  <2>2. SUFFICES ASSUME NEW m \in Machine \ Locked, NEW v \in Worker, req'[v].machine = m,
                        req'[v].pc \in Waiting, Claimable(m)' # {}
                 PROVE  \/ bell'[m]
                        \/ \E u \in Worker : req'[u].machine = m /\ req'[u].pc \in {"ring", "claim", "reclaim"}
    BY DEF NoLostWakeup
  <2>3. req[v].machine = m /\ req[v].pc \in Waiting
    BY <1>1, <2>2 DEF Waiting, PushTypeOK, Request
  <2>4. \/ bell[m]
        \/ \E u \in Worker : req[u].machine = m /\ req[u].pc \in {"ring", "claim", "reclaim"}
    BY <2>1, <2>2, <2>3 DEF NoLostWakeup
  <2>. QED  BY <1>1, <2>2, <2>3, <2>4 DEF PushTypeOK, Request, Waiting
<1>. QED  BY <1>2, <1>3, <1>4, <1>5, <1>6

\* A slice that ends sends its thread to look again.
LEMMA SliceKeepsPushIInv ==
  ASSUME PushIInv, NEW w \in Worker, Slice(w)
  PROVE  PushIInv'
<1> USE DEF PushIInv, queueVars, pushVars, At, On, Slice, Go
<1>1. PushTypeOK'
  BY DEF PushTypeOK, QueueTypeOK, Request, Pc, CommandStatus, NoRow
<1>2. HasMachine'
  BY DEF PushTypeOK, HasMachine, Request, Pc, Holding
<1>3. SlotsAreHeld'
  BY SameHolders DEF PushTypeOK, Request, SlotsAreHeld, Holders, Holding
<1>4. NobodySleepsThroughTheBell'
  BY DEF PushTypeOK, QueueTypeOK, Request, HasMachine, NobodySleepsThroughTheBell
<1>5. NoLostWakeup'
  BY DEF PushTypeOK, QueueTypeOK, Request, HasMachine, NobodySleepsThroughTheBell, NoLostWakeup, Waiting, Claimable, PendingOf
<1>. QED  BY <1>1, <1>2, <1>3, <1>4, <1>5

\* A deadline that passes changes nothing but that.
LEMMA TimeUpKeepsPushIInv ==
  ASSUME PushIInv, NEW w \in Worker, TimeUp(w)
  PROVE  PushIInv'
<1> USE DEF PushIInv, queueVars, pushVars, At, On, TimeUp
<1>1. PushTypeOK'
  <2>1. [req[w] EXCEPT !.due = TRUE] \in Request
    <3>1. req[w] \in Request  BY DEF PushTypeOK
    <3>. QED  BY <3>1 DEF Request
  <2>2. req' \in [Worker -> Request]
    BY <2>1, SMTT(30) DEF PushTypeOK
  <2>. QED  BY <2>2, QueueStaysTyped DEF PushTypeOK
<1>2. HasMachine'
  BY DEF PushTypeOK, HasMachine, Request, Pc, Holding
<1>3. SlotsAreHeld'
  BY SameHolders DEF PushTypeOK, Request, SlotsAreHeld, Holders, Holding
<1>4. NobodySleepsThroughTheBell'
  BY DEF PushTypeOK, QueueTypeOK, Request, HasMachine, NobodySleepsThroughTheBell
<1>5. NoLostWakeup'
  BY DEF PushTypeOK, QueueTypeOK, Request, HasMachine, NobodySleepsThroughTheBell, NoLostWakeup, Waiting, Claimable, PendingOf
<1>. QED  BY <1>1, <1>2, <1>3, <1>4, <1>5

\* A claim that finds something returns the slot.
LEMMA ReclaimKeepsPushIInv ==
  ASSUME PushIInv, NEW w \in Worker, Reclaim(w)
  PROVE  PushIInv'
<1> USE IdleRequest DEF PushIInv, queueVars, pushVars, At, On, Reclaim, Claim, Go, Answer, Release
<1>1. /\ req' \in [Worker -> Request] /\ \A v \in Worker \ {w} : req'[v] = req[v]
      /\ Claimable(req[w].machine) = {} => req'[w] = [req[w] EXCEPT !.pc = "check"]
      /\ Claimable(req[w].machine) # {} => req'[w] = Idle
  <2>1. CASE Claimable(req[w].machine) = {}
    BY <2>1 DEF PushTypeOK, QueueTypeOK, Request, Pc, CommandStatus, NoRow
  <2>2. CASE Claimable(req[w].machine) # {}
    BY <2>2 DEF PushTypeOK, QueueTypeOK, Request, Pc, CommandStatus, NoRow
  <2>. QED  BY <2>1, <2>2 DEF Claimable
<1>2. PushTypeOK'
  <2>1. QueueTypeOK'
    BY DEF PushTypeOK, QueueTypeOK, CommandStatus, NoRow, Claimable, HasMachine, Request
  <2>2. slots' \in 0..MaxWaiting /\ bell' \in [Machine -> BOOLEAN]
    BY DEF PushTypeOK
  <2>. QED  BY <1>1, <2>1, <2>2 DEF PushTypeOK
<1>3. HasMachine'
  BY <1>1 DEF PushTypeOK, HasMachine, Request, Holding
<1>4. SlotsAreHeld'
  <2>1. CASE Claimable(req[w].machine) = {}
    <3>1. req[w].pc = "reclaim" /\ req'[w].pc = "check"
      BY <1>1, <2>1 DEF PushTypeOK, Request
    <3>2. \A v \in Worker : req'[v].pc \in Holding <=> req[v].pc \in Holding
      BY <1>1, <3>1 DEF Holding
    <3>. QED  BY <2>1, <3>2, SameHolders DEF SlotsAreHeld, Holders
  <2>2. CASE Claimable(req[w].machine) # {}
    BY <1>1, <2>2, OneLess DEF PushTypeOK, Request, SlotsAreHeld, Holders, Holding
  <2>. QED  BY <2>1, <2>2
<1>5. NobodySleepsThroughTheBell'
  BY <1>1 DEF PushTypeOK, QueueTypeOK, Request, HasMachine, NobodySleepsThroughTheBell
<1>6. NoLostWakeup'
  <2>1. \A m \in Machine : /\ Claimable(m)' \subseteq Claimable(m)
                           /\ req[w].machine = m => Claimable(m)' = {}
    BY DEF PushTypeOK, QueueTypeOK, Claimable, PendingOf
  <2>2. SUFFICES ASSUME NEW m \in Machine \ Locked, NEW v \in Worker, req'[v].machine = m,
                        req'[v].pc \in Waiting, Claimable(m)' # {}
                 PROVE  \/ bell'[m]
                        \/ \E u \in Worker : req'[u].machine = m /\ req'[u].pc \in {"ring", "claim", "reclaim"}
    BY DEF NoLostWakeup
  <2>3. v # w /\ req'[v] = req[v] /\ req[w].machine # m
    BY <1>1, <2>1, <2>2 DEF Waiting, PushTypeOK, Request
  <2>4. \/ bell[m]
        \/ \E u \in Worker : req[u].machine = m /\ req[u].pc \in {"ring", "claim", "reclaim"}
    BY <2>1, <2>2, <2>3 DEF NoLostWakeup
  <2>. QED  BY <1>1, <2>3, <2>4
<1>. QED  BY <1>2, <1>3, <1>4, <1>5, <1>6

\* A claim that raises returns the slot it had.
LEMMA ClaimFailsKeepsPushIInv ==
  ASSUME PushIInv, NEW w \in Worker, ClaimFails(w)
  PROVE  PushIInv'
<1> USE IdleRequest DEF PushIInv, queueVars, pushVars, At, On, ClaimFails, Answer, Release
<1>1. PushTypeOK'
  BY DEF PushTypeOK, QueueTypeOK, Request, Pc, CommandStatus, NoRow
<1>2. HasMachine'
  BY DEF PushTypeOK, HasMachine, Request, Pc, Holding
<1>3. SlotsAreHeld'
  <2>1. CASE At(w, "reclaim")
    BY <2>1, OneLess DEF PushTypeOK, Request, SlotsAreHeld, Holders, Holding
  <2>2. CASE At(w, "claim")
    BY <2>2, SameHolders DEF PushTypeOK, Request, SlotsAreHeld, Holders, Holding
  <2>. QED  BY <2>1, <2>2
<1>4. NobodySleepsThroughTheBell'
  BY DEF PushTypeOK, QueueTypeOK, Request, HasMachine, NobodySleepsThroughTheBell
<1>5. NoLostWakeup'
  <2>1. SUFFICES ASSUME NEW m \in Machine \ Locked, NEW v \in Worker, req'[v].machine = m,
                        req'[v].pc \in Waiting, Claimable(m)' # {}
                 PROVE  \/ bell'[m]
                        \/ \E u \in Worker : req'[u].machine = m /\ req'[u].pc \in {"ring", "claim", "reclaim"}
    BY DEF NoLostWakeup
  <2>2. req'[v] = req[v] /\ req[w].machine # m
    BY <2>1 DEF PushTypeOK, Idle, Waiting
  <2>3. \/ bell[m]
        \/ \E u \in Worker : req[u].machine = m /\ req[u].pc \in {"ring", "claim", "reclaim"}
    BY <2>1, <2>2 DEF NoLostWakeup, Claimable, PendingOf
  <2>. QED  BY <2>2, <2>3 DEF PushTypeOK
<1>. QED  BY <1>1, <1>2, <1>3, <1>4, <1>5

\* A new process has no requests, no slots and no bells.
LEMMA HubRestartKeepsPushIInv ==
  ASSUME PushIInv, HubRestart
  PROVE  PushIInv'
<1> USE IdleRequest DEF PushIInv, queueVars, pushVars, At, On, HubRestart
<1>1. PushTypeOK'
  BY DEF PushTypeOK, QueueTypeOK, Request, Pc, CommandStatus, NoRow
<1>2. HasMachine'
  BY DEF PushTypeOK, HasMachine, Request, Pc, Holding
<1>3. SlotsAreHeld'
  <2>1. Holders' = {}  BY DEF Holders, Holding
  <2>. QED  BY <2>1, FS_EmptySet DEF SlotsAreHeld, Holders
<1>4. NobodySleepsThroughTheBell'
  BY DEF PushTypeOK, QueueTypeOK, Request, HasMachine, NobodySleepsThroughTheBell
<1>5. NoLostWakeup'
  BY DEF PushTypeOK, QueueTypeOK, Request, HasMachine, NobodySleepsThroughTheBell, NoLostWakeup, Waiting, Claimable, PendingOf
<1>. QED  BY <1>1, <1>2, <1>3, <1>4, <1>5

-------------------------------------------------------------------------------
\* An idle hub satisfies the invariant.
LEMMA InitPushIInv == Init => PushIInv
<1> SUFFICES ASSUME Init PROVE PushIInv  OBVIOUS
<1> USE DEF Init, QueueInit, At, Idle
<1>1. PushTypeOK
  BY DEF PushTypeOK, QueueTypeOK, Request, Pc, CommandStatus, NoRow
<1>2. HasMachine /\ NobodySleepsThroughTheBell
  BY DEF HasMachine, NobodySleepsThroughTheBell
<1>3. SlotsAreHeld
  <2>1. {w \in Worker : req[w].pc \in Holding} = {}  BY DEF Holding
  <2>. QED  BY <2>1, FS_EmptySet DEF SlotsAreHeld
<1>4. NoLostWakeup  BY DEF NoLostWakeup, Waiting
<1>. QED  BY <1>1, <1>2, <1>3, <1>4 DEF PushIInv

\* Every step preserves the invariant.
LEMMA NextPushIInv == PushIInv /\ [Next]_pushVars => PushIInv'
<1> SUFFICES ASSUME PushIInv, [Next]_pushVars PROVE PushIInv'  OBVIOUS
<1>1. ASSUME NEW w \in Worker, Step(w) PROVE PushIInv'
  BY <1>1, RingKeepsPushIInv, ClearKeepsPushIInv, FirstClaimKeepsPushIInv, TakeSlotKeepsPushIInv,
     CheckKeepsPushIInv, ReclaimKeepsPushIInv DEF Step
<1>2. ASSUME NEW w \in Worker, Slice(w) \/ TimeUp(w) \/ ClaimFails(w) PROVE PushIInv'
  BY <1>2, SliceKeepsPushIInv, TimeUpKeepsPushIInv, ClaimFailsKeepsPushIInv
<1>3. ASSUME NEW w \in Worker, NEW c \in Command, NEW m \in Machine, Issue(w, c, m) PROVE PushIInv'
  BY <1>3, IssueKeepsPushIInv
<1>4. ASSUME NEW w \in Worker, NEW a \in Agent, NEW hold \in BOOLEAN, Ask(a, w, hold) PROVE PushIInv'
  BY <1>4, AskKeepsPushIInv
<1>5. ASSUME NEW c \in Command, Expire(c) PROVE PushIInv'
  BY <1>5, ExpireKeepsPushIInv
<1>6. CASE Retire \/ HubRestart
  BY <1>6, RetireKeepsPushIInv, HubRestartKeepsPushIInv
<1>7. CASE UNCHANGED pushVars
  BY <1>7 DEF pushVars, queueVars, PushIInv, PushTypeOK, QueueTypeOK, HasMachine, SlotsAreHeld,
              NobodySleepsThroughTheBell, NoLostWakeup, Claimable, PendingOf, At, On
<1>. QED  BY <1>1, <1>2, <1>3, <1>4, <1>5, <1>6, <1>7 DEF Next

(* Every reachable state of the push satisfies the inductive invariant.    *)
THEOREM PushInvariance == Spec => []PushIInv
BY InitPushIInv, NextPushIInv, PTL DEF Spec

(* The counter never drifts from the requests that hold a slot, and never  *)
(* passes the setting, whatever fails and in whatever order threads run.   *)
THEOREM SlotAccounting == Spec => []PushInv
<1>1. PushIInv => PushInv  BY DEF PushIInv, PushInv
<1>. QED  BY <1>1, PushInvariance, PTL

(* While claims do not fail, no request waits through a command it could   *)
(* have: the order clear, claim, wait loses no wakeup.                     *)
THEOREM Wakeup == Spec => []NoLostWakeup
<1>1. PushIInv => NoLostWakeup  BY DEF PushIInv
<1>. QED  BY <1>1, PushInvariance, PTL
=============================================================================
