------------------------------ MODULE CommandPush ------------------------------
(***************************************************************************)
(* The doorbell (COMMAND PUSH in hub/fleet.py): an agent's request for     *)
(* commands is held open on a threading.Event of its machine, and          *)
(* create_command rings it after its commit.  A request goes               *)
(*                                                                         *)
(*   clear -> claim -> slot -> check -> wait -> reclear -> reclaim -> ...   *)
(*                                                                         *)
(* and every step of it interleaves with the other request threads.        *)
(* Commands travel on from here as CommandDelivery has them; what is here  *)
(* is when the claim happens.                                              *)
(***************************************************************************)
EXTENDS CommandQueue, Naturals, FiniteSets

CONSTANTS
    Worker,         \* the hub's request threads
    AgentMachine,   \* the machine each agent id was enrolled for
    MaxWaiting,     \* settings: fleet.command_push_max_agents
    Locked          \* bound: the machines whose claims may fail ("database is locked")

ASSUME PushAssumption ==
    /\ IsFiniteSet(Worker)
    /\ AgentMachine \in [Agent -> Machine]
    /\ MaxWaiting \in Nat

ASSUME LockedAssumption == Locked \subseteq Machine

VARIABLES
    bell,       \* _command_bells: the flag of each machine's Event
    slots,      \* _wait_slots_used
    req         \* the request each thread is serving

pushVars == <<queueVars, bell, slots, req>>

Waiting == {"slot", "check", "wait"}                    \* looked, and found nothing
Holding == {"check", "wait", "reclear", "reclaim"}      \* between the slot and its release
Pc == {"idle", "clear", "claim", "slot", "check", "wait", "reclear", "reclaim", "ring"}

Request == [pc : Pc, machine : Machine \cup {NoMachine}, agent : Agent \cup {NoAgent},
            hold : BOOLEAN, due : BOOLEAN]
Idle == [pc |-> "idle", machine |-> NoMachine, agent |-> NoAgent,
         hold |-> FALSE, due |-> FALSE]

PushTypeOK ==
    /\ QueueTypeOK
    /\ bell \in [Machine -> BOOLEAN]
    /\ slots \in 0..MaxWaiting
    /\ req \in [Worker -> Request]

Init ==
    /\ QueueInit
    /\ bell = [m \in Machine |-> FALSE]
    /\ slots = 0
    /\ req = [w \in Worker |-> Idle]

At(w, pc) == req[w].pc = pc
On(w, m) == req[w].machine = m
Go(w, pc) == req' = [req EXCEPT ![w].pc = pc]
Answer(w) == req' = [req EXCEPT ![w] = Idle]
Release == slots' = IF slots = 0 THEN 0 ELSE slots - 1

-------------------------------------------------------------------------------
(* The issuing side: the row, its commit, and then the bell.               *)

Issue(w, c, m) ==
    /\ At(w, "idle")
    /\ Create(c, m)
    /\ req' = [req EXCEPT ![w] = [Idle EXCEPT !.pc = "ring", !.machine = m]]
    /\ UNCHANGED <<bell, slots>>

(* notify_commands: Event.set also wakes everyone blocked in wait().       *)
Ring(w) ==
    LET m == req[w].machine
    IN  /\ At(w, "ring")
        /\ bell' = [bell EXCEPT ![m] = TRUE]
        /\ req' = [v \in Worker |-> IF v = w THEN Idle
                                    ELSE IF At(v, "wait") /\ On(v, m)
                                         THEN [req[v] EXCEPT !.pc = "reclear"]
                                         ELSE req[v]]
        /\ UNCHANGED <<queueVars, slots>>

Expire(c) == Lapse(c) /\ UNCHANGED <<bell, slots, req>>
Retire == (ExpireStale \/ \E c \in Command : CancelIfPending(c)) /\ UNCHANGED <<bell, slots, req>>

-------------------------------------------------------------------------------
(* wait_for_commands.                                                      *)

(* A request arrives.  An agent that gave up on its last one asks again    *)
(* while the hub still holds that, so nothing keeps it to one thread.      *)
Ask(a, w, hold) ==
    /\ At(w, "idle")
    /\ req' = [req EXCEPT ![w] = [pc |-> "clear", machine |-> AgentMachine[a], agent |-> a,
                                  hold |-> hold, due |-> FALSE]]
    /\ UNCHANGED <<queueVars, bell, slots>>

(* bell.clear(), before the first claim and before every later one.        *)
Clear(w) ==
    /\ At(w, "clear") \/ At(w, "reclear")
    /\ bell' = [bell EXCEPT ![req[w].machine] = FALSE]
    /\ Go(w, IF At(w, "clear") THEN "claim" ELSE "reclaim")
    /\ UNCHANGED <<queueVars, slots>>

ClaimsOnlyWithASlot(w) ==
    LET m == req[w].machine
    IN  /\ At(w, "claim")
        /\ IF slots < MaxWaiting THEN Claim(req[w].agent, m) ELSE UNCHANGED queueVars
        /\ IF req[w].hold /\ (slots < MaxWaiting => Claimable(m) = {})
           THEN Go(w, "slot") ELSE Answer(w)
        /\ UNCHANGED <<bell, slots>>

FirstClaim(w) ==
    LET m == req[w].machine
    IN  /\ At(w, "claim")
        /\ Claim(req[w].agent, m)
        /\ IF Claimable(m) = {} /\ req[w].hold THEN Go(w, "slot") ELSE Answer(w)
        /\ UNCHANGED <<bell, slots>>

ClearsWithTheSlot(w) ==
    /\ At(w, "slot")
    /\ bell' = [bell EXCEPT ![req[w].machine] = FALSE]
    /\ IF slots < MaxWaiting
       THEN slots' = slots + 1 /\ Go(w, "check")
       ELSE Answer(w) /\ UNCHANGED slots
    /\ UNCHANGED queueVars

TakesOneTooMany(w) ==
    /\ At(w, "slot")
    /\ IF slots <= MaxWaiting
       THEN slots' = slots + 1 /\ Go(w, "check")
       ELSE Answer(w) /\ UNCHANGED slots
    /\ UNCHANGED <<queueVars, bell>>

(* _take_wait_slot; refused, the request is answered unheld.               *)
TakeSlot(w) ==
    /\ At(w, "slot")
    /\ IF slots < MaxWaiting
       THEN slots' = slots + 1 /\ Go(w, "check")
       ELSE Answer(w) /\ UNCHANGED slots
    /\ UNCHANGED <<queueVars, bell>>

ForgetsTheDeadline(w) ==
    /\ At(w, "check")
    /\ Go(w, IF bell[req[w].machine] THEN "reclear" ELSE "wait")
    /\ UNCHANGED <<queueVars, bell, slots>>

(* The head of the loop: give up at the deadline, else wait(), which       *)
(* returns at once when the flag is set.                                   *)
Check(w) ==
    /\ At(w, "check")
    /\ IF req[w].due
       THEN Answer(w) /\ Release
       ELSE Go(w, IF bell[req[w].machine] THEN "reclear" ELSE "wait") /\ UNCHANGED slots
    /\ UNCHANGED <<queueVars, bell>>

(* wait() times out: the 5 s slice, or what remained of the hold.          *)
Slice(w) ==
    /\ At(w, "wait")
    /\ Go(w, "reclear")
    /\ UNCHANGED <<queueVars, bell, slots>>

(* The hold's deadline passes.                                             *)
TimeUp(w) ==
    /\ req[w].pc \in Holding /\ ~req[w].due
    /\ req' = [req EXCEPT ![w].due = TRUE]
    /\ UNCHANGED <<queueVars, bell, slots>>

KeepsTheSlotOnSuccess(w) ==
    LET m == req[w].machine
    IN  /\ At(w, "reclaim")
        /\ Claim(req[w].agent, m)
        /\ IF Claimable(m) = {} THEN Go(w, "check") ELSE Answer(w)
        /\ UNCHANGED <<bell, slots>>

Reclaim(w) ==
    LET m == req[w].machine
    IN  /\ At(w, "reclaim")
        /\ Claim(req[w].agent, m)
        /\ IF Claimable(m) = {}
           THEN Go(w, "check") /\ UNCHANGED slots
           ELSE Answer(w) /\ Release
        /\ UNCHANGED bell

(* claim_commands raises: the request fails, and the finally clause gives  *)
(* back the slot if there was one.                                         *)
ClaimFails(w) ==
    /\ req[w].machine \in Locked
    /\ At(w, "claim") \/ At(w, "reclaim")
    /\ Answer(w)
    /\ IF At(w, "reclaim") THEN Release ELSE UNCHANGED slots
    /\ UNCHANGED <<queueVars, bell>>

(* The bells, the slots and the requests are the process's own.            *)
HubRestart ==
    /\ bell' = [m \in Machine |-> FALSE]
    /\ slots' = 0
    /\ req' = [w \in Worker |-> Idle]
    /\ UNCHANGED queueVars

-------------------------------------------------------------------------------
Step(w) == Ring(w) \/ Clear(w) \/ FirstClaim(w) \/ TakeSlot(w) \/ Check(w) \/ Reclaim(w)

Next ==
    \/ \E w \in Worker :
         \/ Step(w) \/ Slice(w) \/ TimeUp(w) \/ ClaimFails(w)
         \/ \E c \in Command, m \in Machine : Issue(w, c, m)
         \/ \E a \in Agent, hold \in BOOLEAN : Ask(a, w, hold)
    \/ \E c \in Command : Expire(c)
    \/ Retire
    \/ HubRestart

Spec == Init /\ [][Next]_pushVars

(***************************************************************************)
(* Fairness.  Threads run, time passes, agents keep asking, and a claim    *)
(* that fails now and then does not fail every time.  The hub does not     *)
(* restart for ever; nothing has to expire or be cancelled.                *)
(***************************************************************************)
FairSpec ==
    /\ Spec
    /\ <>[][~HubRestart]_pushVars
    /\ \A w \in Worker :
         /\ WF_pushVars(Step(w))
         /\ WF_pushVars(Slice(w)) /\ WF_pushVars(TimeUp(w))
         /\ \A a \in Agent :
              SF_pushVars(req[w].agent = a /\ (FirstClaim(w) \/ Reclaim(w)))
    /\ \A a \in Agent : SF_pushVars(\E w \in Worker, hold \in BOOLEAN : Ask(a, w, hold))

-------------------------------------------------------------------------------
(* Properties.                                                             *)

(* The slot counter is the number of requests between taking a slot and    *)
(* giving it back: nothing leaks a slot, so the push never silently turns  *)
(* itself off (_take_wait_slot, _release_wait_slot).                       *)
SlotsAreHeld ==
    slots = Cardinality({w \in Worker : req[w].pc \in Holding})

(* That, and the kinds of values: no more requests hold a slot than the    *)
(* setting allows.                                                         *)
PushInv == PushTypeOK /\ SlotsAreHeld

\* Nobody sleeps through a flag that is set: set() wakes whoever is blocked.
NobodySleepsThroughTheBell ==
    \A w \in Worker : At(w, "wait") => ~bell[req[w].machine]

(* No lost wakeup: when a request has looked, found nothing and is waiting *)
(* or about to, a command that could be claimed means that the bell is     *)
(* set, is about to be rung, or was cleared by a thread that is about to   *)
(* claim (wait_for_commands, "ORDER MATTERS").  Where no claim fails this  *)
(* holds with no help from the slices.                                     *)
NoLostWakeup == \A m \in Machine \ Locked, w \in Worker :
    On(w, m) /\ req[w].pc \in Waiting /\ Claimable(m) # {} =>
        \/ bell[m]
        \/ \E v \in Worker : On(v, m) /\ req[v].pc \in {"ring", "claim", "reclaim"}

\* Every request but an idle thread's is about a machine.
HasMachine == \A w \in Worker : /\ ~At(w, "idle") => req[w].machine \in Machine
                                /\ req[w].pc \notin {"idle", "ring"} => req[w].agent \in Agent

PushIInv == /\ PushTypeOK /\ HasMachine /\ SlotsAreHeld
            /\ NobodySleepsThroughTheBell /\ NoLostWakeup

(* A request that is held is answered: at the latest when its hold is      *)
(* over, whether or not anything is ever issued.                           *)
HeldIsAnswered == \A w \in Worker : (req[w].pc \in Holding) ~> At(w, "idle")

(* Delivery does not depend on the push: a machine whose agent keeps       *)
(* asking gets its command, slots or no slots (the poll is the fallback).  *)
CommandIsServed == \A c \in Command : (status[c] = "pending") ~> (status[c] # "pending")
=============================================================================
