------------------------------- MODULE PtyInput -------------------------------
(***************************************************************************)
(* What an operator types into a remote terminal, on its way to the shell  *)
(* (hub/terminal.py push_input and pull_input, the console's fleet-pty.js, *)
(* the agent's PtySessionRunner).  Tabs post batches, the hub numbers and  *)
(* queues them, the agent polls with a cursor and writes what it is        *)
(* answered.  A batch is known by the order in which the hub accepted it.  *)
(***************************************************************************)
EXTENDS Naturals, FiniteSets, Sequences

CONSTANTS
    Tab,        \* consoles of the session; a tab's resizes are another one's posts
    MaxTyped    \* bound: batches that are accepted

ASSUME PtyInputAssumption == MaxTyped \in Nat

VARIABLES
    session,    \* pty_sessions.status; "live" stands for open as well
    nextIn,     \* pty_sessions.next_input_seq
    queued,     \* pty_input
    posting,    \* the number each tab's push_input has read, if it is in one
    accepted,   \* batches stored so far
    pull,       \* the agent's poll: its cursor, and the hub's answer
    cursorIn,   \* the agent's _inCursor + 1
    typed       \* what the shell was given

ptyInputVars == <<session, nextIn, queued, posting, accepted, pull, cursorIn, typed>>

Seqs == 0..MaxTyped
NotPosting == MaxTyped + 1
Batches == [seq : Seqs, batch : 1..MaxTyped]
NoPull == [pc |-> "idle", next |-> 0, items |-> {}, closing |-> FALSE]

PtyInputTypeOK ==
    /\ session \in {"live", "closing", "closed"}
    /\ nextIn \in Seqs /\ accepted \in Seqs /\ cursorIn \in Seqs
    /\ queued \subseteq Batches
    /\ posting \in [Tab -> Seqs \cup {NotPosting}]
    /\ pull \in [pc : {"idle", "asked", "answered", "over"}, next : Seqs,
                 items : SUBSET Batches, closing : BOOLEAN]
    /\ typed \in Seq(1..MaxTyped)

PtyInputInit ==
    /\ session = "live" /\ nextIn = 0 /\ queued = {}
    /\ posting = [t \in Tab |-> NotPosting]
    /\ accepted = 0 /\ pull = NoPull /\ cursorIn = 0 /\ typed = <<>>

-------------------------------------------------------------------------------
(* The console.  push_input reads the session's next number and then, in   *)
(* the transaction its first UPDATE opens, takes it.                       *)
PostInput(t) ==
    /\ posting[t] = NotPosting /\ session = "live" /\ accepted < MaxTyped
    /\ posting' = [posting EXCEPT ![t] = nextIn]
    /\ UNCHANGED <<session, nextIn, queued, accepted, pull, cursorIn, typed>>

(* The number is the row's key: a second batch under it is an error, and   *)
(* the console says that the input failed.                                 *)
StoreInput(t) ==
    /\ posting[t] # NotPosting /\ accepted < MaxTyped
    /\ posting' = [posting EXCEPT ![t] = NotPosting]
    /\ IF \E q \in queued : q.seq = posting[t] THEN UNCHANGED <<nextIn, queued, accepted>>
       ELSE /\ nextIn' = posting[t] + 1
            /\ accepted' = accepted + 1
            /\ queued' = queued \cup {[seq |-> posting[t], batch |-> accepted']}
    /\ UNCHANGED <<session, pull, cursorIn, typed>>

RequestClose ==
    /\ session = "live" /\ session' = "closing"
    /\ UNCHANGED <<nextIn, queued, posting, accepted, pull, cursorIn, typed>>

-------------------------------------------------------------------------------
(* The agent polls, one request at a time; a request may be given up on    *)
(* (10 seconds) at any time, and repeated from the same cursor.            *)
Poll ==
    /\ pull.pc = "idle"
    /\ pull' = [NoPull EXCEPT !.pc = "asked", !.next = cursorIn]
    /\ UNCHANGED <<session, nextIn, queued, posting, accepted, cursorIn, typed>>

(* Seeded fault: what pull_input would be if it did not look at the cursor *)
(* when it lists the rows.  No specification uses it.                      *)
ListsWhatIsStored ==
    /\ pull.pc = "asked"
    /\ pull' = [pull EXCEPT !.pc = "answered", !.items = queued, !.closing = session # "live",
                    !.next = IF queued = {} THEN @
                             ELSE 1 + (CHOOSE n \in Seqs : /\ \E q \in queued : q.seq = n
                                                           /\ \A q \in queued : q.seq <= n)]
    /\ queued' = {q \in queued : q.seq >= pull.next}
    /\ UNCHANGED <<session, nextIn, posting, accepted, cursorIn, typed>>

(* pull_input: the rows after the cursor, and the ones up to it are gone.  *)
PullInput ==
    /\ pull.pc = "asked"
    /\ LET items == {q \in queued : q.seq >= pull.next}
       IN  pull' = [pull EXCEPT !.pc = "answered", !.items = items,
                                !.closing = session # "live",
                                !.next = IF items = {} THEN @
                                         ELSE 1 + (CHOOSE n \in Seqs :
                                            /\ \E q \in items : q.seq = n
                                            /\ \A q \in items : q.seq <= n)]
    /\ queued' = {q \in queued : q.seq >= pull.next}
    /\ UNCHANGED <<session, nextIn, posting, accepted, cursorIn, typed>>

(* The batches of items in the order of their numbers: the one at place i  *)
(* is the one that i of the numbers do not come after.                     *)
Place(items, n) == Cardinality({q \in items : q.seq <= n})
InOrder(items) ==
    [i \in 1..Cardinality(items) |-> (CHOOSE q \in items : Place(items, q.seq) = i).batch]

HearInput ==
    /\ pull.pc = "answered"
    /\ typed' = typed \o InOrder(pull.items)
    /\ cursorIn' = pull.next
    /\ pull' = [NoPull EXCEPT !.pc = IF pull.closing THEN "over" ELSE "idle"]
    /\ UNCHANGED <<session, nextIn, queued, posting, accepted>>

PollLost ==
    /\ pull.pc \in {"asked", "answered"}
    /\ pull' = NoPull
    /\ UNCHANGED <<session, nextIn, queued, posting, accepted, cursorIn, typed>>

\* The shell ends, or the agent is out of touch for too long.
SessionOver ==
    /\ pull.pc = "idle"
    /\ pull' = [NoPull EXCEPT !.pc = "over"]
    /\ UNCHANGED <<session, nextIn, queued, posting, accepted, cursorIn, typed>>

\* finish_session for the agent, or the reaper for one that is silent or abandoned.
CloseSession ==
    /\ session # "closed"
    /\ session' = "closed" /\ queued' = {}
    /\ UNCHANGED <<nextIn, posting, accepted, pull, cursorIn, typed>>

PtyInputNext ==
    \/ \E t \in Tab : PostInput(t) \/ StoreInput(t)
    \/ RequestClose \/ Poll \/ PullInput \/ HearInput \/ PollLost \/ SessionOver \/ CloseSession

PtyInputSpec == PtyInputInit /\ [][PtyInputNext]_ptyInputVars

-------------------------------------------------------------------------------
(* Until the session is closed, the shell is given batches in the order in *)
(* which the hub accepted them, each once, whoever typed and however often *)
(* a poll is lost ("after_seq only guards against a response the agent     *)
(* never received", pull_input).                                           *)
TypedInOrder == session # "closed" => \A i, j \in DOMAIN typed : i < j => typed[i] < typed[j]

(* That, and the kinds of values in the tables.                            *)
PtyInputInv == PtyInputTypeOK /\ TypedInOrder

(* No keystroke is "filtered out as already delivered" (init_pty_db): what *)
(* the hub accepted is with the shell, or on its way there.                *)
NoneGoesDeaf == session = "live" => \A b \in 1..accepted :
    \/ \E i \in DOMAIN typed : typed[i] = b
    \/ \E q \in queued : q.batch = b /\ q.seq >= cursorIn
    \/ \E q \in pull.items : q.batch = b
=============================================================================
