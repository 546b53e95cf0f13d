------------------------------- MODULE PtyOutput -------------------------------
(***************************************************************************)
(* What a remote terminal's shell prints, on its way to the operator's     *)
(* screen (the agent's PtySessionRunner, hub/terminal.py push_output and   *)
(* pull_output, the console's fleet-pty.js).  The agent takes what its     *)
(* buffer holds, posts it under a number, and puts it back when the post   *)
(* fails; the hub keeps a window of chunks; the console polls with a       *)
(* cursor.  Bytes are numbered as the shell prints them.                   *)
(***************************************************************************)
EXTENDS Naturals, Sequences, FiniteSets

CONSTANTS
    MaxPrinted,     \* bound: bytes the shell prints
    MaxTake,        \* PtyMaxChunkChars
    Window,         \* PTY_REPLAY_MAX_CHUNKS
    MaxScreens,     \* console polls that can be under way at once
    MaxLate         \* bound: given-up posts that are still on their way

ASSUME PtyOutputAssumption ==
    MaxPrinted \in Nat /\ MaxTake \in Nat \ {0} /\ Window \in Nat \ {0} /\ MaxScreens \in Nat

VARIABLES
    printed,    \* bytes the shell has printed
    buffer,     \* the agent's _buffer
    outSeq,     \* the agent's _outSeq
    flush,      \* the post each of the agent's two flushers waits for
    delayed,    \* posts the agent gave up on, still on their way
    chunks,     \* pty_output
    screens,    \* the console's polls under way
    cursorOut,  \* the console's cursor + 1
    screen,     \* the chunks written to the terminal since it was last reset
    ended,      \* whether RunAsync is in its finally block
    mixedUp     \* history: the terminal was cleared while a poll was under way

ptyOutputVars == <<printed, buffer, outSeq, flush, delayed, chunks, screens, cursorOut, screen, ended, mixedUp>>

Flusher == {"pump", "last"}
Chunk == [seq : Nat, bytes : Seq(1..MaxPrinted)]
ScreenPoll == [pc : {"idle", "asked", "listed", "bounded", "answered"}, from : Nat,
               rows : SUBSET Chunk, lost : BOOLEAN, next : Nat]
NoFlush == [seq |-> 0, bytes |-> <<>>]
NoPoll == [pc |-> "idle", from |-> 0, rows |-> {}, lost |-> FALSE, next |-> 0]
Numbers(rows) == {c.seq : c \in rows}
Highest(rows) == CHOOSE n \in Numbers(rows) : \A k \in Numbers(rows) : k <= n

PtyOutputTypeOK ==
    /\ printed \in 0..MaxPrinted /\ outSeq \in Nat /\ cursorOut \in Nat /\ ended \in BOOLEAN /\ mixedUp \in BOOLEAN
    /\ buffer \in Seq(1..MaxPrinted) /\ screen \in Seq(Chunk)
    /\ flush \in [Flusher -> Chunk] /\ chunks \subseteq Chunk /\ delayed \subseteq Chunk
    /\ screens \in [1..MaxScreens -> ScreenPoll]

PtyOutputInit ==
    /\ printed = 0 /\ buffer = <<>> /\ outSeq = 0 /\ flush = [f \in Flusher |-> NoFlush]
    /\ delayed = {} /\ chunks = {} /\ screens = [k \in 1..MaxScreens |-> NoPoll] /\ cursorOut = 0 /\ screen = <<>>
    /\ ended = FALSE /\ mixedUp = FALSE

-------------------------------------------------------------------------------
(* The agent.  FlushAsync is called by the output pump and, once the       *)
(* session is over, by RunAsync itself, while the pump still runs.         *)
PrintByte ==
    /\ printed < MaxPrinted /\ ~ended
    /\ printed' = printed + 1 /\ buffer' = Append(buffer, printed')
    /\ UNCHANGED <<outSeq, flush, delayed, chunks, screens, cursorOut, screen, ended, mixedUp>>

ShellEnds ==
    /\ ~ended /\ ended' = TRUE
    /\ UNCHANGED <<printed, buffer, outSeq, flush, delayed, chunks, screens, cursorOut, screen, mixedUp>>

Take(f) ==
    /\ flush[f] = NoFlush /\ buffer # <<>> /\ (f = "last" => ended)
    /\ LET n == IF Len(buffer) < MaxTake THEN Len(buffer) ELSE MaxTake
       IN  /\ flush' = [flush EXCEPT ![f] = [seq |-> outSeq, bytes |-> SubSeq(buffer, 1, n)]]
           /\ buffer' = SubSeq(buffer, n + 1, Len(buffer))
    /\ UNCHANGED <<printed, outSeq, delayed, chunks, screens, cursorOut, screen, ended, mixedUp>>

(* push_output: INSERT OR IGNORE, and drop what has left the window.       *)
Store(post) ==
    LET rows == IF post.seq \in Numbers(chunks) THEN chunks ELSE chunks \cup {post}
    IN  chunks' = {c \in rows : c.seq + Window > post.seq}

Posted(f) ==
    /\ flush[f] # NoFlush
    /\ Store(flush[f])
    /\ outSeq' = outSeq + 1 /\ flush' = [flush EXCEPT ![f] = NoFlush]
    /\ UNCHANGED <<printed, buffer, delayed, screens, cursorOut, screen, ended, mixedUp>>

(* Seeded fault: a retry under a fresh number.  No specification uses it.  *)
GivesUpTheNumber(f) ==
    /\ flush[f] # NoFlush
    /\ outSeq' = outSeq + 1
    /\ buffer' = flush[f].bytes \o buffer
    /\ flush' = [flush EXCEPT ![f] = NoFlush]
    /\ delayed' \in {delayed, delayed \cup {flush[f]}} /\ Cardinality(delayed') <= MaxLate
    /\ UNCHANGED <<printed, chunks, screens, cursorOut, screen, ended, mixedUp>>

(* The post fails or times out: the bytes go back to the front of the      *)
(* buffer, under the same number.  It may still arrive.                    *)
NotPosted(f) ==
    /\ flush[f] # NoFlush
    /\ buffer' = flush[f].bytes \o buffer
    /\ flush' = [flush EXCEPT ![f] = NoFlush]
    /\ delayed' \in {delayed, delayed \cup {flush[f]}} /\ Cardinality(delayed') <= MaxLate
    /\ UNCHANGED <<printed, outSeq, chunks, screens, cursorOut, screen, ended, mixedUp>>

ArrivesLate(post) ==
    /\ post \in delayed /\ delayed' = delayed \ {post}
    /\ Store(post)
    /\ UNCHANGED <<printed, buffer, outSeq, flush, screens, cursorOut, screen, ended, mixedUp>>

-------------------------------------------------------------------------------
(* The console.  A poll asks from the cursor; pull_output answers it with  *)
(* three SELECTs.  Typing and showing the tab schedule another poll        *)
(* whether or not one is under way.                                        *)
PollOutput(k) ==
    /\ screens[k].pc = "idle"
    /\ screens' = [screens EXCEPT ![k] = [NoPoll EXCEPT !.pc = "asked", !.from = cursorOut]]
    /\ UNCHANGED <<printed, buffer, outSeq, flush, delayed, chunks, cursorOut, screen, ended, mixedUp>>

ListChunks(k) ==
    /\ screens[k].pc = "asked"
    /\ screens' = [screens EXCEPT ![k].pc = "listed",
                       ![k].rows = {c \in chunks : c.seq >= screens[k].from}]
    /\ UNCHANGED <<printed, buffer, outSeq, flush, delayed, chunks, cursorOut, screen, ended, mixedUp>>

\* An attach, which asks from the start, has missed nothing.
FindOldest(k) ==
    /\ screens[k].pc = "listed"
    /\ screens' = [screens EXCEPT ![k].pc = "bounded", ![k].lost =
                       /\ screens[k].from > 0 /\ chunks # {}
                       /\ \A c \in chunks : c.seq > screens[k].from]
    /\ UNCHANGED <<printed, buffer, outSeq, flush, delayed, chunks, cursorOut, screen, ended, mixedUp>>

FindHighest(k) ==
    /\ screens[k].pc = "bounded"
    /\ screens' = [screens EXCEPT ![k].pc = "answered",
                       ![k].next = IF chunks = {} THEN 0 ELSE Highest(chunks) + 1]
    /\ UNCHANGED <<printed, buffer, outSeq, flush, delayed, chunks, cursorOut, screen, ended, mixedUp>>

\* Rows in the order of their numbers.
Rank(rows, n) == Cardinality({c \in rows : c.seq <= n})
BySeq(rows) == [i \in 1..Cardinality(rows) |-> CHOOSE c \in rows : Rank(rows, c.seq) = i]

(* A hole resets the terminal; then the chunks are written.                *)
Show(k) ==
    /\ screens[k].pc = "answered"
    /\ screen' = IF screens[k].lost THEN BySeq(screens[k].rows)
                 ELSE screen \o BySeq(screens[k].rows)
    /\ cursorOut' = IF screens[k].rows = {} THEN cursorOut ELSE screens[k].next
    /\ screens' = [screens EXCEPT ![k] = NoPoll]
    /\ UNCHANGED <<printed, buffer, outSeq, flush, delayed, chunks, ended, mixedUp>>

PollFails(k) ==
    /\ screens[k].pc # "idle"
    /\ screens' = [screens EXCEPT ![k] = NoPoll]
    /\ UNCHANGED <<printed, buffer, outSeq, flush, delayed, chunks, cursorOut, screen, ended, mixedUp>>

\* The page is left and opened again.
Reattach ==
    /\ cursorOut' = 0 /\ screen' = <<>> /\ mixedUp' = FALSE
    /\ screens' = [k \in 1..MaxScreens |-> NoPoll]
    /\ UNCHANGED <<printed, buffer, outSeq, flush, delayed, chunks, ended>>

ClearReplay ==
    /\ chunks' = {} /\ screen' = <<>>
    /\ mixedUp' = (mixedUp \/ \E k \in 1..MaxScreens : screens[k].pc # "idle")
    /\ UNCHANGED <<printed, buffer, outSeq, flush, delayed, screens, cursorOut, ended>>

PtyOutputNext ==
    \/ PrintByte \/ ShellEnds \/ Reattach \/ ClearReplay
    \/ \E f \in Flusher : Take(f) \/ Posted(f) \/ NotPosted(f)
    \/ \E post \in delayed : ArrivesLate(post)
    \/ \E k \in 1..MaxScreens : \/ PollOutput(k) \/ ListChunks(k) \/ FindOldest(k)
                                \/ FindHighest(k) \/ Show(k) \/ PollFails(k)

PtyOutputSpec == PtyOutputInit /\ [][PtyOutputNext]_ptyOutputVars

-------------------------------------------------------------------------------
Increasing(bytes) == \A i, j \in DOMAIN bytes : i < j => bytes[i] < bytes[j]
Before(bytes, others) == \A i \in DOMAIN bytes, j \in DOMAIN others : bytes[i] < others[j]

\* As the bytes of these chunks read, one chunk after the other.
Reads(text) ==
    /\ \A i \in DOMAIN text : Increasing(text[i].bytes)
    /\ \A i, j \in DOMAIN text : i < j => Before(text[i].bytes, text[j].bytes)

(* While the shell runs and the terminal is not cleared in the middle of a *)
(* poll, it shows the shell's bytes in order and none twice, whatever is   *)
(* retried, arrives late, is lost or leaves the window ("a fresh seq would *)
(* splice duplicate bytes into the middle of an escape sequence",          *)
(* FlushAsync).                                                            *)
ShownInOrder == ~ended /\ ~mixedUp => Reads(screen)

(* That, and the kinds of values in the buffers and tables.                *)
PtyOutputInv == PtyOutputTypeOK /\ ShownInOrder

(* FlushAsync: a retry of "a post that actually landed before timing out"  *)
(* is "a free no-op on the hub".  No byte is missing between two that are  *)
(* shown.                                                                  *)
Shown == UNION {{screen[i].bytes[j] : j \in DOMAIN screen[i].bytes} : i \in DOMAIN screen}
ShownWhole == ~ended => \A b, c \in Shown : b..c \subseteq Shown

(* clear_replay: "safe for a live console mid-poll: its cursor is left     *)
(* where it is".                                                           *)
CursorStays == [][\A k \in 1..MaxScreens : Show(k) => cursorOut' >= cursorOut]_ptyOutputVars

(* RunAsync: "the operator should see the shell's parting words".  What    *)
(* is shown after the end is in order as well.                             *)
PartingWords == ended /\ ~mixedUp => Reads(screen)
=============================================================================
