----------------------------- MODULE OutputStream -----------------------------
(***************************************************************************)
(* Live output of one running command: the agent's OutputStreamer cuts the *)
(* output into numbered chunks and posts them one at a time, the hub       *)
(* stores them (append_command_output) and an operator's console polls for *)
(* what is new (get_command_output, fleet-terminal.js).                    *)
(*                                                                         *)
(* What one flush takes from the buffer is a piece, numbered from 1; how   *)
(* much text it holds does not matter here, and the two caps of the hub    *)
(* (characters and chunks) are one number of chunks.  A POST that the      *)
(* agent gave up on may still be on its way, or in the hands of a handler. *)
(***************************************************************************)
EXTENDS Integers, FiniteSets, SequencesExt

CONSTANTS
    MaxPieces,  \* bound: how much output the command produces
    Retries,    \* AgentConfig.StreamPostRetries
    Cap,        \* STREAM_MAX_CHUNKS and STREAM_MAX_COMMAND_CHARS
    MaxPosts,   \* bound: POSTs under way at a time; one more is lost
    MaxPolls,   \* bound: polls of the console under way at a time
    TabSwitches \* whether the operator hides and shows the tab

ASSUME StreamAssumption ==
    /\ MaxPieces \in Nat \ {0} /\ Retries \in Nat \ {0} /\ Cap \in Nat \ {0}
    /\ MaxPosts \in Nat \ {0} /\ MaxPolls \in Nat \ {0} /\ TabSwitches \in BOOLEAN

VARIABLES
    written,    \* pieces the command has written so far
    taken,      \* how many of them a flush has taken from _buffer
    seq,        \* _seq: the number the next chunk gets
    flush,      \* where the flush loop is, and what it is posting
    completed,  \* _completed; _stop is cancelled in the same breath
    stopped,    \* _stopped: the hub said truncated
    givenUp,    \* pieces abandoned before their last attempt
    net,        \* POSTs on their way to the hub or in a handler
    rows,       \* command_output_chunks
    status,     \* commands.status
    watching,   \* the console's `active`
    timer,      \* pollTimer is set
    cursor,     \* active.cursor
    printed,    \* the scrollback
    polls       \* the console's requests

agentVars == <<written, taken, seq, flush, completed, stopped, givenUp>>
hubVars == <<net, rows, status>>
consoleVars == <<watching, timer, cursor, printed, polls>>
streamVars == <<agentVars, hubVars, consoleVars>>

-------------------------------------------------------------------------------
Piece == 1..MaxPieces
Nothing == 0
Marker == MaxPieces + 1         \* STREAM_TRUNCATION_MARKER
Seqs == 0..MaxPieces * Retries + 1
Poll == 1..MaxPolls
Chunk == Seqs \X (Piece \cup {Marker})

\* A POST, and what its handler has read: "sent" or "checked".
Post == [seq : Seqs, piece : Piece, attempt : 1..Retries, pc : {"sent", "checked"},
         count : Nat]
Request == [pc : {"none", "asked", "status", "rows", "answered"}, after : Seqs \cup {-1},
            over : BOOLEAN, chunks : SUBSET Chunk, next : Seqs]
NoRequest == [pc |-> "none", after |-> -1, over |-> FALSE, chunks |-> {}, next |-> 0]

Stored == {s \in DOMAIN rows : rows[s] # Nothing}
Text == {s \in Stored : rows[s] # Marker}
Capped == \E s \in Stored : rows[s] = Marker

StreamTypeOK ==
    /\ written \in 0..MaxPieces /\ taken \in 0..written
    /\ seq \in Seqs
    /\ flush.by \in {"pump", "final", "over"}
    /\ flush.pc \in {"rest", "next", "post", "backoff"}
    /\ flush.attempt \in 0..Retries
    /\ completed \in BOOLEAN /\ stopped \in BOOLEAN
    /\ givenUp \subseteq Piece
    /\ net \subseteq Post
    /\ rows \in [Seqs -> Piece \cup {Nothing, Marker}]
    /\ status \in {"claimed", "done", "deleted"}
    /\ watching \in BOOLEAN /\ timer \in BOOLEAN
    /\ cursor \in Seqs \cup {-1}
    /\ polls \in [Poll -> Request]

Init ==
    /\ written = 0 /\ taken = 0 /\ seq = 0
    /\ flush = [by |-> "pump", pc |-> "rest", seq |-> 0, piece |-> Nothing, attempt |-> 0, reply |-> "none"]
    /\ completed = FALSE /\ stopped = FALSE /\ givenUp = {}
    /\ net = {} /\ rows = [s \in Seqs |-> Nothing] /\ status = "claimed"
    /\ watching = TRUE /\ timer = TRUE /\ cursor = -1 /\ printed = <<>>
    /\ polls = [p \in Poll |-> NoRequest]

-------------------------------------------------------------------------------
(* The agent.  _stop's token reaches the pump's flush, not the final one.  *)
Cancelled == completed /\ flush.by = "pump"

Add ==
    /\ written < MaxPieces /\ ~stopped /\ ~completed
    /\ written' = written + 1
    /\ UNCHANGED <<taken, seq, flush, completed, stopped, givenUp, hubVars, consoleVars>>

(* CompleteAsync: the executor is done.                                    *)
Complete ==
    /\ ~completed
    /\ completed' = TRUE
    /\ UNCHANGED <<written, taken, seq, flush, stopped, givenUp, hubVars, consoleVars>>

Wake ==
    /\ flush.by = "pump" /\ flush.pc = "rest" /\ ~completed
    /\ flush' = [flush EXCEPT !.pc = "next"]
    /\ UNCHANGED <<written, taken, seq, completed, stopped, givenUp, hubVars, consoleVars>>

(* The pump ends, and CompleteAsync flushes what it left.                  *)
FinalFlush ==
    /\ flush.by = "pump" /\ flush.pc = "rest" /\ completed
    /\ flush' = [flush EXCEPT !.by = "final", !.pc = "next"]
    /\ UNCHANGED <<written, taken, seq, completed, stopped, givenUp, hubVars, consoleVars>>

(* SendAsync: with a cancelled token nothing is sent, and the attempt ends *)
(* as one that failed.                                                     *)
Send(f) ==
    /\ flush' = f
    /\ net' = IF Cancelled \/ Cardinality(net) = MaxPosts THEN net
              ELSE net \cup {[seq |-> f.seq, piece |-> f.piece, attempt |-> f.attempt, pc |-> "sent", count |-> 0]}
    /\ UNCHANGED <<rows, status, written, completed, stopped, givenUp, consoleVars>>

TakeChunk ==
    /\ flush.pc = "next" /\ ~stopped /\ taken < written
    /\ taken' = taken + 1
    /\ seq' = seq + 1
    /\ Send([flush EXCEPT !.pc = "post", !.seq = seq, !.piece = taken + 1, !.attempt = 1, !.reply = "none"])

\* FlushOnceAsync returns to the pump's loop, or to CompleteAsync.
Returned == IF flush.by = "pump" THEN [flush EXCEPT !.pc = "rest"]
            ELSE [flush EXCEPT !.by = "over", !.pc = "rest"]

NothingToSend ==
    /\ flush.pc = "next" /\ (stopped \/ taken = written)
    /\ flush' = Returned
    /\ UNCHANGED <<written, taken, seq, completed, stopped, givenUp, hubVars, consoleVars>>

(* 200: the next chunk.  Truncated, and 403 and 404 which read the same:   *)
(* the buffer is cleared and nothing more is streamed.                     *)
Answered ==
    /\ flush.pc = "post" /\ flush.reply = "ok"
    /\ flush' = [flush EXCEPT !.pc = "next"]
    /\ UNCHANGED <<written, taken, seq, completed, stopped, givenUp, hubVars, consoleVars>>

Stopped ==
    /\ flush.pc = "post" /\ flush.reply = "truncated"
    /\ stopped' = TRUE
    /\ taken' = written
    /\ flush' = Returned
    /\ UNCHANGED <<written, seq, completed, givenUp, hubVars, consoleVars>>

(* Seeded faults, here and below: what a definition would be with a        *)
(* plausible bug in the code it models.  No specification uses them.       *)
RetriesForEver ==
    /\ flush.pc = "post"
    /\ flush' = [flush EXCEPT !.pc = "backoff"]
    /\ UNCHANGED <<written, taken, seq, completed, stopped, givenUp, hubVars, consoleVars>>

(* No answer in time, no hub, a 500, a cancelled call.  After the last     *)
(* attempt the chunk is dropped and the loop goes on.                      *)
AttemptFails ==
    /\ flush.pc = "post"
    /\ flush' = [flush EXCEPT !.pc = IF flush.attempt < Retries THEN "backoff" ELSE "next"]
    /\ UNCHANGED <<written, taken, seq, completed, stopped, givenUp, hubVars, consoleVars>>

RetryAsANewChunk ==
    /\ flush.pc = "backoff" /\ ~Cancelled
    /\ seq' = seq + 1
    /\ Send([flush EXCEPT !.pc = "post", !.seq = seq, !.attempt = @ + 1, !.reply = "none"])
    /\ UNCHANGED taken

(* The same chunk again, under the same seq.                               *)
Retry ==
    /\ flush.pc = "backoff" /\ ~Cancelled
    /\ Send([flush EXCEPT !.pc = "post", !.attempt = IF @ < Retries THEN @ + 1 ELSE @, !.reply = "none"])
    /\ UNCHANGED <<taken, seq>>

(* Task.Delay throws: false, and what was taken is not put back.           *)
BackoffCancelled ==
    /\ flush.pc = "backoff" /\ Cancelled
    /\ flush' = Returned
    /\ givenUp' = givenUp \cup {flush.piece}
    /\ UNCHANGED <<written, taken, seq, completed, stopped, hubVars, consoleVars>>

(* ReportResultAsync, which the hub may or may not hear.                   *)
Report ==
    /\ flush.by = "over" /\ status = "claimed"
    /\ status' = "done"
    /\ UNCHANGED <<agentVars, net, rows, consoleVars>>

-------------------------------------------------------------------------------
(* The hub.  A handler's SELECTs come before its transaction opens.        *)

\* The answer to post q, if the agent still waits for it.
Answer(q, reply) ==
    flush' = IF flush.pc = "post" /\ flush.seq = q.seq /\ flush.attempt = q.attempt
             THEN [flush EXCEPT !.reply = reply] ELSE flush

Lose(q) ==
    /\ net' = net \ {q}
    /\ UNCHANGED <<agentVars, rows, status, consoleVars>>

Refuse(q) ==
    /\ q.pc = "sent" /\ (status # "claimed" \/ Capped)
    /\ net' = net \ {q}
    /\ Answer(q, "truncated")
    /\ UNCHANGED <<written, taken, seq, completed, stopped, givenUp, rows, status, consoleVars>>

ReadStats(q) ==
    /\ q.pc = "sent" /\ status = "claimed" /\ ~Capped
    /\ net' = (net \ {q}) \cup {[q EXCEPT !.pc = "checked", !.count = Cardinality(Stored)]}
    /\ UNCHANGED <<agentVars, rows, status, consoleVars>>

InsertKeepingQuiet(q) ==
    LET fresh == rows[q.seq] = Nothing
        stored == IF fresh THEN [rows EXCEPT ![q.seq] = q.piece] ELSE rows
        full == q.count + (IF fresh THEN 1 ELSE 0) >= Cap
    IN  /\ q.pc = "checked"
        /\ rows' = stored
        /\ net' = net \ {q}
        /\ Answer(q, IF full THEN "truncated" ELSE "ok")
        /\ UNCHANGED <<written, taken, seq, completed, stopped, givenUp, status, consoleVars>>

(* INSERT OR IGNORE, and the marker behind it when the counts as they were *)
(* read reach the cap.                                                     *)
Insert(q) ==
    LET fresh == rows[q.seq] = Nothing
        stored == IF fresh THEN [rows EXCEPT ![q.seq] = q.piece] ELSE rows
        full == q.count + (IF fresh THEN 1 ELSE 0) >= Cap
    IN  /\ q.pc = "checked"
        /\ rows' = IF full /\ stored[q.seq + 1] = Nothing
                   THEN [stored EXCEPT ![q.seq + 1] = Marker] ELSE stored
        /\ net' = net \ {q}
        /\ Answer(q, IF full THEN "truncated" ELSE "ok")
        /\ UNCHANGED <<written, taken, seq, completed, stopped, givenUp, status, consoleVars>>

(* delete_machine: the command and its chunks go.                          *)
DeleteCommand ==
    /\ status # "deleted"
    /\ status' = "deleted"
    /\ rows' = [s \in Seqs |-> Nothing]
    /\ UNCHANGED <<agentVars, net, consoleVars>>

-------------------------------------------------------------------------------
(* The console.  get_command_output reads the status, the chunks after the *)
(* cursor and the highest seq in statements of their own.                  *)

StartPoll(p) ==
    /\ watching /\ timer /\ polls[p].pc = "none"
    /\ timer' = FALSE
    /\ polls' = [polls EXCEPT ![p] = [NoRequest EXCEPT !.pc = "asked", !.after = cursor]]
    /\ UNCHANGED <<agentVars, hubVars, watching, cursor, printed>>

(* visibilitychange: poll at once, whatever is under way.                  *)
ShowTab ==
    /\ TabSwitches /\ watching
    /\ timer' = TRUE
    /\ UNCHANGED <<agentVars, hubVars, watching, cursor, printed, polls>>

ReadStatus(p) ==
    /\ polls[p].pc = "asked" /\ status # "deleted"
    /\ polls' = [polls EXCEPT ![p].pc = "status", ![p].over = (status = "done")]
    /\ UNCHANGED <<agentVars, hubVars, watching, timer, cursor, printed>>

ReadRows(p) ==
    /\ polls[p].pc = "status"
    /\ polls' = [polls EXCEPT ![p].pc = "rows", ![p].chunks = {<<s, rows[s]>> : s \in {x \in Stored : x > polls[p].after}}]
    /\ UNCHANGED <<agentVars, hubVars, watching, timer, cursor, printed>>

ReadHighest(p) ==
    /\ polls[p].pc = "rows"
    /\ polls' = [polls EXCEPT ![p].pc = "answered",
                              ![p].next = IF Stored = {} THEN 0 ELSE Max(Stored) + 1]
    /\ UNCHANGED <<agentVars, hubVars, watching, timer, cursor, printed>>

(* A 404, or no hub: the console gives up on the command.                  *)
PollFails(p) ==
    /\ polls[p].pc # "none"
    /\ polls' = [polls EXCEPT ![p] = NoRequest]
    /\ watching' = FALSE /\ timer' = FALSE
    /\ UNCHANGED <<agentVars, hubVars, cursor, printed>>

\* What the chunks of a poll say, in the order of their numbers.
Place(chunks, s) == Cardinality({c \in chunks : c[1] <= s})
Pieces(chunks) ==
    [i \in 1..Cardinality(chunks) |-> (CHOOSE c \in chunks : Place(chunks, c[1]) = i)[2]]

SchedulesOnlyWhenQuiet(p) ==
    LET r == polls[p]
    IN  /\ r.pc = "answered"
        /\ polls' = [polls EXCEPT ![p] = NoRequest]
        /\ printed' = IF watching THEN printed \o Pieces(r.chunks) ELSE printed
        /\ cursor' = IF watching /\ r.chunks # {} THEN r.next - 1 ELSE cursor
        /\ watching' = (watching /\ ~(r.over /\ r.chunks = {}))
        /\ timer' = (watching' /\ (timer \/ r.chunks = {}))
        /\ UNCHANGED <<agentVars, hubVars>>

(* poll(): print, move the cursor, and stop on the first empty batch of a  *)
(* command that is over, or after a day.                                   *)
PollAnswered(p) ==
    LET r == polls[p]
    IN  /\ r.pc = "answered"
        /\ polls' = [polls EXCEPT ![p] = NoRequest]
        /\ printed' = IF watching THEN printed \o Pieces(r.chunks) ELSE printed
        /\ cursor' = IF watching /\ r.chunks # {} THEN r.next - 1 ELSE cursor
        /\ watching' = (watching /\ ~(r.over /\ r.chunks = {}))
        /\ timer' = watching'
        /\ UNCHANGED <<agentVars, hubVars>>

-------------------------------------------------------------------------------
Flush == Wake \/ FinalFlush \/ TakeChunk \/ NothingToSend \/ Answered \/ Stopped
         \/ AttemptFails \/ Retry \/ BackoffCancelled

Handle(q) == Refuse(q) \/ ReadStats(q) \/ Insert(q)

Watch(p) == StartPoll(p) \/ ReadStatus(p) \/ ReadRows(p) \/ ReadHighest(p) \/ PollAnswered(p)

Next ==
    \/ Add \/ Complete \/ Flush \/ Report
    \/ \E q \in net : Lose(q) \/ Handle(q)
    \/ DeleteCommand \/ ShowTab
    \/ \E p \in Poll : Watch(p) \/ PollFails(p)

Spec == Init /\ [][Next]_streamVars

(***************************************************************************)
(* Fairness: the agent's threads run, its requests time out, and the tab   *)
(* stays open.  Nothing is assumed of the network or of the hub's answers. *)
(***************************************************************************)
FairSpec ==
    /\ Spec
    /\ WF_streamVars(Flush) /\ WF_streamVars(Complete) /\ WF_streamVars(Report)
    /\ \A p \in Poll : WF_streamVars(Watch(p) \/ (status = "deleted" /\ PollFails(p)))

-------------------------------------------------------------------------------
(* Properties.                                                             *)

(* The scrollback shows chunks in the order they were written and none of  *)
(* them twice, however often a POST is retried and however late it lands   *)
(* (OutputStreamer: "ORDERING IS STRUCTURAL", "a POST that actually landed *)
(* before timing out is a free no-op").                                    *)
PrintedInOrder == \A i, j \in DOMAIN printed :
    i < j /\ Marker \notin {printed[i], printed[j]} => printed[i] < printed[j]

(* That, and the kinds of values in the buffers and tables.                *)
StreamInv == StreamTypeOK /\ PrintedInOrder

(* Whenever the agent was told to stop although the command still runs,    *)
(* the marker is there for the console: a cap never looks like silence     *)
(* (append_command_output, "in the SAME transaction").                     *)
CapIsVisible == stopped /\ status = "claimed" => Capped

(* However unreachable the hub is, the streamer ends and the result goes   *)
(* out ("Losing output is acceptable; stalling is not").                   *)
ResultFollows == completed ~> (status # "claimed")

(* A console that is left open stops polling once the command is over.     *)
WatchEnds == (status # "claimed") ~> ~watching

(* What the cursor has passed was printed: "pass back the next_seq to      *)
(* fetch only what's new" (fleet_get_command_output) skips nothing.        *)
NothingSkipped == \A s \in Text : s <= cursor => rows[s] \in ToSet(printed)

(* "seq+1 is safe: the agent stops streaming on this return value, so it   *)
(* will never post that number itself" (append_command_output): no marker  *)
(* sits on a number the agent gave to a chunk.                             *)
MarkerIsBeyond == status = "claimed" => \A s \in Stored : rows[s] = Marker => s >= seq

(* A piece the hub does not have was tried as often as it should, or the   *)
(* stream was stopped ("After StreamPostRetries the chunk is dropped").    *)
DropsAreEarned == \A n \in givenUp :
    \/ \E s \in Text : rows[s] = n
    \/ \E q \in net : q.piece = n
    \/ stopped \/ status # "claimed"
=============================================================================
