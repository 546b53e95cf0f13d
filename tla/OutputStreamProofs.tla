-------------------------- MODULE OutputStreamProofs --------------------------
(***************************************************************************)
(* The console shows the output in order, each piece once, and a cap is    *)
(* never silent, for any amount of output, any number of attempts and any  *)
(* number of POSTs under way.                                              *)
(*                                                                         *)
(* A chunk is known when anything still holds it: the flush, a POST, the   *)
(* table or a poll.  A piece has one number for good, given as it leaves   *)
(* the buffer (InOrder, Bounded), so all that can still arrive behind the  *)
(* cursor comes after what is printed (Ahead).                             *)
(***************************************************************************)
EXTENDS OutputStream, FiniteSetTheorems, SequenceTheorems, TLAPS

\* Polls that overlap start from one cursor and print twice (stream_twice):
\* either one is under way at a time, or nothing but an answer sets the timer.
OnePoll == MaxPolls = 1 \/ ~TabSwitches

Flushes == [by : {"pump", "final", "over"}, pc : {"rest", "next", "post", "backoff"},
            seq : Seqs, piece : Piece \cup {Nothing}, attempt : 0..Retries,
            reply : {"none", "ok", "truncated"}]
Posting == flush.pc \in {"post", "backoff"}

\* Piece x is, or may yet arrive, under number s.
Known(s, x) ==
    /\ x \in Piece
    /\ \/ Posting /\ flush.seq = s /\ flush.piece = x
       \/ \E q \in net : q.seq = s /\ q.piece = x
       \/ s \in Seqs /\ rows[s] = x
       \/ \E p \in Poll : <<s, x>> \in polls[p].chunks

Typed ==
    /\ StreamTypeOK
    /\ flush \in Flushes /\ printed \in Seq(Piece \cup {Marker})

\* Numbers are given one after the other, to the piece being posted last.
Numbered ==
    /\ seq <= taken
    /\ Posting => flush.seq + 1 = seq /\ flush.piece \in Piece /\ flush.attempt >= 1
    /\ \A q \in net : q.seq < seq
    /\ \A s \in Stored : s <= seq

Bounded ==
    /\ \A s, x : Known(s, x) => s \in Seqs /\ s < seq /\ x <= taken
    /\ \A i \in DOMAIN printed : printed[i] # Marker => printed[i] <= taken

InOrder == \A s, t, x, y : Known(s, x) /\ Known(t, y) =>
    (s < t => x < y) /\ (s = t => x = y)

\* A poll that read the status of a command may outlive it.
Shown == status # "deleted" \/ \E p \in Poll : polls[p].pc \in {"status", "rows", "answered"}

Ahead == Shown => \A i \in DOMAIN printed : \A s, x :
    printed[i] # Marker /\ Known(s, x) /\ s > cursor => printed[i] < x

Polling ==
    /\ \A p, q \in Poll : p = q \/ polls[p].pc = "none" \/ polls[q].pc = "none"
    /\ ~TabSwitches => \A p \in Poll : timer => polls[p].pc = "none"
    /\ \A p \in Poll : polls[p].pc # "none" => polls[p].after = cursor
    /\ \A p \in Poll : polls[p].pc \in {"none", "asked", "status"} => polls[p].chunks = {}
    /\ \A p \in Poll : \A c \in polls[p].chunks : c[1] > cursor
    /\ \A p \in Poll : \A c, d \in polls[p].chunks : c[1] = d[1] => c = d
    /\ status # "deleted" => \A p \in Poll : \A c \in polls[p].chunks :
        /\ c[1] \in Stored
        /\ polls[p].pc = "answered" => c[1] < polls[p].next

CapIsKnown == flush.pc = "post" /\ flush.reply = "truncated" /\ status = "claimed" => Capped

StreamIInv ==
    /\ Typed /\ Numbered /\ Bounded /\ InOrder /\ Ahead /\ Polling
    /\ CapIsKnown /\ CapIsVisible /\ PrintedInOrder

-------------------------------------------------------------------------------
(* Numbers, and the chunks of a poll.                                      *)

LEMMA SeqsAre ==
    /\ Seqs \subseteq Nat /\ IsFiniteSet(Seqs)
    /\ \A n \in Seqs : n - 1 \in Seqs \cup {-1} /\ n - 1 \in Int
    /\ \A n \in Nat : n <= MaxPieces + 1 => n \in Seqs
    /\ MaxPieces \in Nat /\ MaxPieces >= 1
    /\ Retries \in Nat /\ Retries >= 1
<1>1. /\ MaxPieces \in Nat /\ MaxPieces >= 1 /\ Retries \in Nat /\ Retries >= 1
      /\ 0 \in Int /\ MaxPieces * Retries + 1 \in Int
  BY StreamAssumption
<1>2. IsFiniteSet(Seqs)
  BY <1>1, FS_Interval DEF Seqs
<1>3. MaxPieces <= MaxPieces * Retries
  BY <1>1
<1> DEFINE m == MaxPieces * Retries + 1
<1>4. Seqs = 0..m /\ m \in Int /\ MaxPieces + 1 <= m
  BY <1>1, <1>3 DEF Seqs
<1> HIDE DEF m
<1> QED
  BY <1>1, <1>2, <1>4

\* A set of stored numbers has a highest.
LEMMA HighestNumber ==
    ASSUME NEW S \in SUBSET Seqs, S # {}
    PROVE  Max(S) \in S /\ \A n \in S : n <= Max(S)
<1> DEFINE U == {n \in Nat : \A k \in S : k <= n}
<1>1. Seqs \subseteq Nat
  BY SeqsAre
<1>2. MaxPieces * Retries + 1 \in U
  BY StreamAssumption DEF Seqs
<1>3. PICK n \in U : \A k \in U : ~ (<<k, n>> \in OpToRel(<, Nat))
  BY <1>2, NatLessThanWellFounded, WFMin
<1>4. \A k \in Nat : k < n => <<k, n>> \in OpToRel(<, Nat)
  BY <1>3, Zenon DEF OpToRel
<1>5. \A k \in U : ~(k < n)
  BY <1>3, <1>4
<1>6. n \in S
  <2> SUFFICES ASSUME n \notin S PROVE FALSE
    OBVIOUS
  <2>1. n \in Nat /\ \A k \in S : k \in Nat /\ k <= n /\ k # n
    BY <1>1, <1>3
  <2>2. \A k \in S : k <= n - 1
    BY <2>1
  <2>3. n - 1 \in U
    BY <2>1, <2>2
  <2> QED
    BY <1>5, <2>1, <2>3
<1>7. \E m \in S : \A k \in S : m >= k
  BY <1>1, <1>3, <1>6
<1> QED
  BY <1>1, <1>7 DEF Max

\* Each chunk has a place of its own, and each place a chunk.
LEMMA PlacesAreTaken ==
    ASSUME NEW chunks \in SUBSET Chunk, IsFiniteSet(chunks),
           \A c, d \in chunks : c[1] = d[1] => c = d
    PROVE  /\ Cardinality(chunks) \in Nat
           /\ \A c, d \in chunks : c[1] < d[1] => Place(chunks, c[1]) < Place(chunks, d[1])
           /\ \A i \in 1..Cardinality(chunks) : \E c \in chunks : Place(chunks, c[1]) = i
<1> DEFINE n == Cardinality(chunks)
           UpTo(c) == {d \in chunks : d[1] <= c[1]}
           place == [c \in chunks |-> Place(chunks, c[1])]
<1>1. n \in Nat
  BY FS_CardinalityType
<1>2. \A c \in chunks : c[1] \in Nat
  BY SeqsAre DEF Chunk
<1>3. \A c \in chunks : Place(chunks, c[1]) = Cardinality(UpTo(c))
  BY DEF Place
<1>4. \A c \in chunks : IsFiniteSet(UpTo(c)) /\ Cardinality(UpTo(c)) \in 1..n
  <2> TAKE c \in chunks
  <2>1. UpTo(c) \in SUBSET chunks /\ UpTo(c) # {}
    BY <1>2
  <2> HIDE DEF UpTo
  <2>2. IsFiniteSet(UpTo(c)) /\ Cardinality(UpTo(c)) <= n
    BY <2>1, FS_Subset
  <2>3. Cardinality(UpTo(c)) \in Nat /\ Cardinality(UpTo(c)) # 0
    BY <2>1, <2>2, FS_CardinalityType, FS_EmptySet
  <2> QED
    BY <1>1, <2>2, <2>3
<1>5. ASSUME NEW c \in chunks, NEW d \in chunks, c[1] < d[1]
      PROVE  Place(chunks, c[1]) < Place(chunks, d[1])
  <2>1. UpTo(c) \in SUBSET UpTo(d) /\ d \in UpTo(d) /\ d \notin UpTo(c)
    BY <1>2, <1>5
  <2>2. IsFiniteSet(UpTo(d)) /\ IsFiniteSet(UpTo(c))
    BY <1>4
  <2> HIDE DEF UpTo, n
  <2>3. Cardinality(UpTo(c)) \in Nat /\ Cardinality(UpTo(d)) \in Nat
    BY <1>1, <1>4
  <2>4. /\ Cardinality(UpTo(c)) <= Cardinality(UpTo(d))
        /\ Cardinality(UpTo(d)) = Cardinality(UpTo(c)) => UpTo(d) = UpTo(c)
    BY <2>1, <2>2, FS_Subset
  <2> QED
    BY <1>3, <2>1, <2>3, <2>4
<1>6. place \in Injection(chunks, 1..n)
  <2>1. place \in [chunks -> 1..n]
    BY <1>3, <1>4
  <2>2. ASSUME NEW c \in chunks, NEW d \in chunks, place[c] = place[d]
        PROVE  c = d
    <3>1. Place(chunks, c[1]) = Place(chunks, d[1])
      BY <2>2
    <3>2. Place(chunks, c[1]) \in Nat
      <4> HIDE DEF UpTo
      <4> QED
        BY <1>1, <1>3, <1>4
    <3>3. ~(c[1] < d[1]) /\ ~(d[1] < c[1])
      BY <1>5, <3>1, <3>2
    <3> QED
      BY <1>2, <3>3
  <2> QED
    BY <2>1, <2>2 DEF Injection, IsInjective
<1>7. IsFiniteSet(1..n) /\ Cardinality(1..n) = n
  BY <1>1, FS_Interval
<1> HIDE DEF place
<1>8. place \in Surjection(chunks, 1..n)
  BY <1>6, <1>7, FS_Injection
<1>9. \A i \in 1..n : \E c \in chunks : place[c] = i
  BY <1>8 DEF Surjection
<1> USE DEF place
<1> QED
  BY <1>1, <1>5, <1>9

\* A function on 1..k is a sequence.
LEMMA FunctionsAreSequences ==
    ASSUME NEW S, NEW k \in Nat, NEW s, s \in [1..k -> S]
    PROVE  s \in Seq(S)
  BY SeqDef

\* What a poll says is the text of its chunks, in the order of their numbers.
LEMMA PiecesAreInOrder ==
    ASSUME NEW chunks \in SUBSET Chunk, \A c, d \in chunks : c[1] = d[1] => c = d
    PROVE  /\ Pieces(chunks) \in Seq(Piece \cup {Marker})
           /\ \A i \in DOMAIN Pieces(chunks) : \E c \in chunks : Pieces(chunks)[i] = c[2]
           /\ \A i, j \in DOMAIN Pieces(chunks) : i < j =>
                \E c, d \in chunks : /\ c[1] < d[1]
                                     /\ Pieces(chunks)[i] = c[2] /\ Pieces(chunks)[j] = d[2]
<1> DEFINE n == Cardinality(chunks)
           chosen(i) == CHOOSE c \in chunks : Place(chunks, c[1]) = i
           s == Pieces(chunks)
<1>1. IsFiniteSet(chunks)
  <2>1. /\ IsFiniteSet(Seqs) /\ IsFiniteSet(Piece)
    BY SeqsAre, FS_Interval DEF Piece
  <2>2. IsFiniteSet(Piece \cup {Marker})
    BY <2>1, FS_AddElement
  <2>3. IsFiniteSet(Chunk)
    BY <2>1, <2>2, FS_Product DEF Chunk
  <2> QED
    BY <2>3, FS_Subset
<1>2. /\ n \in Nat
      /\ \A c, d \in chunks : c[1] < d[1] => Place(chunks, c[1]) < Place(chunks, d[1])
      /\ \A i \in 1..n : \E c \in chunks : Place(chunks, c[1]) = i
  BY <1>1, PlacesAreTaken
<1>3. \A i \in 1..n : chosen(i) \in chunks /\ Place(chunks, chosen(i)[1]) = i
  BY <1>2
<1>4. s = [i \in 1..n |-> chosen(i)[2]]
  BY DEF Pieces
<1> HIDE DEF chosen, n, s
<1>5. \A c \in chunks : c[2] \in Piece \cup {Marker} /\ c[1] \in Nat
  BY SeqsAre DEF Chunk
<1>6. s \in [1..n -> Piece \cup {Marker}] /\ DOMAIN s = 1..n
  BY <1>3, <1>4, <1>5
<1>7. s \in Seq(Piece \cup {Marker})
  BY <1>2, <1>6, FunctionsAreSequences
<1>8. ASSUME NEW i \in 1..n, NEW j \in 1..n, i < j
      PROVE  \E c, d \in chunks : c[1] < d[1] /\ s[i] = c[2] /\ s[j] = d[2]
  <2>1. chosen(i) \in chunks /\ chosen(j) \in chunks
    BY <1>3
  <2>2. chosen(i)[1] # chosen(j)[1]
    BY <1>2, <1>3, <1>8
  <2>3. ~(chosen(j)[1] < chosen(i)[1])
    BY <1>2, <1>3, <1>8, <2>1
  <2>4. chosen(i)[1] < chosen(j)[1]
    BY <1>5, <2>1, <2>2, <2>3
  <2>5. s[i] = chosen(i)[2] /\ s[j] = chosen(j)[2]
    BY <1>4
  <2> QED
    BY <2>1, <2>4, <2>5
<1>9. \A i \in DOMAIN s : \E c \in chunks : s[i] = c[2]
  BY <1>3, <1>4, <1>6
<1> USE DEF s
<1> QED
  BY <1>6, <1>7, <1>8, <1>9

-------------------------------------------------------------------------------
(* Types.  A POST and a poll keep their fields' kinds, each step on its own. *)

\* The agent's own steps.
AgentStep == Add \/ Complete \/ Wake \/ FinalFlush \/ NothingToSend \/ Answered \/ Stopped
             \/ AttemptFails \/ BackoffCancelled \/ Report

LEMMA FlushesAre ==
    ASSUME flush \in Flushes
    PROVE  /\ \A pc \in {"rest", "next", "post", "backoff"} : [flush EXCEPT !.pc = pc] \in Flushes
           /\ \A r \in {"none", "ok", "truncated"} : [flush EXCEPT !.reply = r] \in Flushes
           /\ Returned \in Flushes
           /\ [flush EXCEPT !.by = "final", !.pc = "next"] \in Flushes
           /\ \A k \in 0..Retries :
                [flush EXCEPT !.pc = "post", !.attempt = k, !.reply = "none"] \in Flushes
           /\ \A s \in Seqs, x \in Piece, k \in 0..Retries :
                [flush EXCEPT !.pc = "post", !.seq = s, !.piece = x, !.attempt = k,
                              !.reply = "none"] \in Flushes
  BY DEF Flushes, Returned

LEMMA AgentTypes ==
    ASSUME StreamIInv, AgentStep
    PROVE  Typed'
<1> USE DEF StreamIInv, Typed, StreamTypeOK
<1>1. /\ written \in 0..MaxPieces /\ taken \in 0..written
      /\ MaxPieces \in Nat
  BY SeqsAre
<1>2. CASE Add
  BY <1>1, <1>2 DEF Add, hubVars, consoleVars
<1>3. CASE Complete
  BY <1>3 DEF Complete, hubVars, consoleVars
<1>4. CASE Wake \/ FinalFlush \/ NothingToSend \/ Answered \/ AttemptFails
  <2>1. flush' \in Flushes
    BY <1>4, FlushesAre DEF Wake, FinalFlush, NothingToSend, Answered, AttemptFails
  <2>2. UNCHANGED <<written, taken, seq, completed, stopped, givenUp, net, rows, status,
                    watching, timer, cursor, printed, polls>>
    BY <1>4 DEF Wake, FinalFlush, NothingToSend, Answered, AttemptFails, hubVars, consoleVars
  <2>3. /\ flush'.by \in {"pump", "final", "over"}
        /\ flush'.pc \in {"rest", "next", "post", "backoff"}
        /\ flush'.attempt \in 0..Retries
    BY <2>1 DEF Flushes
  <2> QED
    BY <2>1, <2>2, <2>3
<1>5. CASE Stopped
  <2>1. flush' \in Flushes
    BY <1>5, FlushesAre DEF Stopped
  <2>2. UNCHANGED <<written, seq, completed, givenUp, net, rows, status,
                    watching, timer, cursor, printed, polls>>
        /\ taken' = written /\ stopped' = TRUE
    BY <1>5 DEF Stopped, hubVars, consoleVars
  <2>3. /\ flush'.by \in {"pump", "final", "over"}
        /\ flush'.pc \in {"rest", "next", "post", "backoff"}
        /\ flush'.attempt \in 0..Retries
    BY <2>1 DEF Flushes
  <2> QED
    BY <1>1, <2>1, <2>2, <2>3
<1>6. CASE BackoffCancelled
  <2>1. flush' \in Flushes
    BY <1>6, FlushesAre DEF BackoffCancelled
  <2>2. UNCHANGED <<written, taken, seq, completed, stopped, net, rows, status,
                    watching, timer, cursor, printed, polls>>
    BY <1>6 DEF BackoffCancelled, hubVars, consoleVars
  <2>3. /\ flush'.by \in {"pump", "final", "over"}
        /\ flush'.pc \in {"rest", "next", "post", "backoff"}
        /\ flush'.attempt \in 0..Retries
    BY <2>1 DEF Flushes
  <2>4. givenUp' \subseteq Piece
    BY <1>6 DEF BackoffCancelled, Numbered, Posting
  <2> QED
    BY <2>1, <2>2, <2>3, <2>4
<1>7. CASE Report
  BY <1>7 DEF Report, agentVars, consoleVars
<1> QED
  BY <1>2, <1>3, <1>4, <1>5, <1>6, <1>7 DEF AgentStep

\* What is in the agent's hands does not grow.
AgentMoves ==
    /\ UNCHANGED <<net, rows, seq, watching, timer, cursor, printed, polls>>
    /\ taken' >= taken /\ taken' \in Nat
    /\ Posting' => /\ Posting /\ flush'.seq = flush.seq /\ flush'.piece = flush.piece
                   /\ flush'.attempt = flush.attempt
    /\ status' = "deleted" <=> status = "deleted"
    /\ status' = "claimed" => status = "claimed"
    /\ flush'.pc = "post" => flush.pc = "post" /\ flush'.reply = flush.reply
    /\ stopped' => stopped \/ (flush.pc = "post" /\ flush.reply = "truncated")

LEMMA AgentStepsMove ==
    ASSUME StreamIInv, AgentStep
    PROVE  AgentMoves
<1> USE DEF StreamIInv, Typed, StreamTypeOK, AgentMoves, Posting, hubVars, consoleVars
<1>1. /\ written \in Nat /\ taken \in Nat /\ taken <= written
  BY SeqsAre
<1>2. CASE Add \/ Complete
  BY <1>1, <1>2 DEF Add, Complete
<1>3. CASE Wake \/ FinalFlush
  <2>1. flush'.pc = "next"
    BY <1>3 DEF Wake, FinalFlush, Flushes
  <2> QED
    BY <1>1, <1>3, <2>1 DEF Wake, FinalFlush
<1>4. CASE NothingToSend \/ Answered
  <2>1. flush'.pc \in {"rest", "next"}
    BY <1>4 DEF NothingToSend, Answered, Returned, Flushes
  <2> QED
    BY <1>1, <1>4, <2>1 DEF NothingToSend, Answered
<1>5. CASE Stopped
  <2>1. flush'.pc = "rest"
    BY <1>5 DEF Stopped, Returned, Flushes
  <2> QED
    BY <1>1, <1>5, <2>1 DEF Stopped
<1>6. CASE AttemptFails
  <2>1. /\ flush'.pc \in {"backoff", "next"} /\ flush'.seq = flush.seq
        /\ flush'.piece = flush.piece /\ flush'.attempt = flush.attempt /\ flush.pc = "post"
    BY <1>6 DEF AttemptFails, Flushes
  <2> QED
    BY <1>1, <1>6, <2>1 DEF AttemptFails
<1>7. CASE BackoffCancelled
  <2>1. flush'.pc = "rest"
    BY <1>7 DEF BackoffCancelled, Returned, Flushes
  <2> QED
    BY <1>1, <1>7, <2>1 DEF BackoffCancelled
<1>8. CASE Report
  BY <1>1, <1>8 DEF Report, agentVars
<1> QED
  BY <1>2, <1>3, <1>4, <1>5, <1>6, <1>7, <1>8 DEF AgentStep

-------------------------------------------------------------------------------
(* What is known, before and after a step.                                 *)

KnownNext(s, x) ==
    /\ x \in Piece
    /\ \/ Posting' /\ flush'.seq = s /\ flush'.piece = x
       \/ \E q \in net' : q.seq = s /\ q.piece = x
       \/ s \in Seqs /\ rows'[s] = x
       \/ \E p \in Poll : <<s, x>> \in polls'[p].chunks

LEMMA InOrderNext ==
    ASSUME \A s, t, x, y : KnownNext(s, x) /\ KnownNext(t, y) =>
                (s < t => x < y) /\ (s = t => x = y)
    PROVE  InOrder'
  BY DEF InOrder, Known, KnownNext

LEMMA BoundedNext ==
    ASSUME \A s, x : KnownNext(s, x) => s \in Seqs /\ s < seq' /\ x <= taken',
           \A i \in DOMAIN printed' : printed'[i] # Marker => printed'[i] <= taken'
    PROVE  Bounded'
  BY DEF Bounded, Known, KnownNext

LEMMA AheadNext ==
    ASSUME Shown' => \A i \in DOMAIN printed' : \A s, x :
                printed'[i] # Marker /\ KnownNext(s, x) /\ s > cursor' => printed'[i] < x
    PROVE  Ahead'
  BY DEF Ahead, Known, KnownNext

NothingNew == \A s, x : KnownNext(s, x) => Known(s, x)

\* A step that adds nothing, and shows nothing, keeps the order.
LEMMA KnownKeeps ==
    ASSUME StreamIInv, NothingNew, UNCHANGED <<seq, cursor, printed>>,
           taken \in Nat, taken' \in Nat, taken' >= taken, Shown' => Shown
    PROVE  /\ Bounded' /\ InOrder' /\ Ahead' /\ PrintedInOrder'
           /\ \A s \in Seqs : rows'[s] \in Piece => s < seq
<1>1. ASSUME NEW s, NEW x, KnownNext(s, x)
      PROVE  s \in Seqs /\ s < seq' /\ x <= taken'
  <2>1. Known(s, x) /\ x \in Nat
    BY <1>1, SeqsAre DEF NothingNew, KnownNext, Piece
  <2>2. s \in Seqs /\ s < seq /\ x <= taken
    BY <2>1 DEF StreamIInv, Bounded
  <2> QED
    BY <2>1, <2>2
<1>2. Bounded'
  <2>1. ASSUME NEW i \in DOMAIN printed, printed[i] # Marker
        PROVE  printed[i] <= taken'
    <3>1. printed[i] \in Nat /\ printed[i] <= taken
      BY <2>1, SeqsAre DEF StreamIInv, Typed, Bounded, Piece, Marker
    <3> QED
      BY <3>1
  <2> SUFFICES ASSUME NEW s, NEW x, KnownNext(s, x)
               PROVE  s \in Seqs /\ s < seq' /\ x <= taken'
    BY <2>1, BoundedNext
  <2> QED
    BY <1>1
<1>3. InOrder'
  <2> SUFFICES ASSUME NEW s, NEW t, NEW x, NEW y, KnownNext(s, x), KnownNext(t, y)
               PROVE  (s < t => x < y) /\ (s = t => x = y)
    BY InOrderNext
  <2>1. Known(s, x) /\ Known(t, y)
    BY DEF NothingNew
  <2> QED
    BY <2>1 DEF StreamIInv, InOrder
<1>4. Ahead'
  <2> SUFFICES ASSUME Shown', NEW i \in DOMAIN printed, NEW s, NEW x,
                      printed[i] # Marker, KnownNext(s, x), s > cursor
               PROVE  printed[i] < x
    BY AheadNext
  <2>1. Known(s, x) /\ Shown
    BY DEF NothingNew
  <2> QED
    BY <2>1 DEF StreamIInv, Ahead
<1>5. PrintedInOrder'
  BY DEF StreamIInv, PrintedInOrder
<1>6. \A s \in Seqs : rows'[s] \in Piece => s < seq
  <2> TAKE s \in Seqs
  <2> SUFFICES ASSUME rows'[s] \in Piece PROVE s < seq
    OBVIOUS
  <2>1. KnownNext(s, rows'[s])
    BY DEF KnownNext
  <2> QED
    BY <1>1, <2>1
<1> QED
  BY <1>2, <1>3, <1>4, <1>5, <1>6

\* A table that still says what it said is still capped.
LEMMA CapStays ==
    ASSUME Capped, \A s \in Stored : rows'[s] = rows[s], DOMAIN rows' = DOMAIN rows
    PROVE  Capped'
  BY DEF Capped, Stored

LEMMA AgentKeeps ==
    ASSUME StreamIInv, Typed', AgentMoves
    PROVE  StreamIInv'
<1> USE DEF StreamIInv, AgentMoves
<1>1. NothingNew
  BY DEF NothingNew, KnownNext, Known
<1>2. Shown' => Shown
  BY DEF Shown
<1>3. taken \in Nat /\ seq \in Nat /\ seq' = seq
  BY SeqsAre DEF Typed, StreamTypeOK
<1>4. Bounded' /\ InOrder' /\ Ahead' /\ PrintedInOrder'
  BY <1>1, <1>2, <1>3, KnownKeeps
<1>5. Numbered'
  BY <1>3 DEF Numbered, Posting, Stored
<1>6. Polling'
  BY DEF Polling, Stored
<1>7. Capped => Capped'
  BY DEF Capped, Stored
<1>8. CapIsKnown' /\ CapIsVisible'
  BY <1>7 DEF CapIsKnown, CapIsVisible
<1> QED
  BY <1>4, <1>5, <1>6, <1>8

-------------------------------------------------------------------------------
(* The POSTs, and what the hub does of them.                               *)

PostStep == Retry \/ DeleteCommand \/ \E q \in net : Lose(q) \/ Handle(q)

LEMMA PostTypes ==
    ASSUME StreamIInv, PostStep
    PROVE  Typed'
<1> USE DEF StreamIInv, Typed, StreamTypeOK
<1>1. /\ 1 \in 1..Retries /\ Retries \in Nat
  BY SeqsAre
<1>2. ASSUME flush' \in Flushes, net' \subseteq Post, rows' \in [Seqs -> Piece \cup {Nothing, Marker}],
             status' \in {"claimed", "done", "deleted"},
             UNCHANGED <<written, taken, seq, completed, stopped, givenUp, consoleVars>>
      PROVE  Typed'
  <2>1. /\ flush'.by \in {"pump", "final", "over"}
        /\ flush'.pc \in {"rest", "next", "post", "backoff"}
        /\ flush'.attempt \in 0..Retries
    BY <1>2 DEF Flushes
  <2> QED
    BY <1>2, <2>1 DEF consoleVars
<1>3. \A q \in net, reply \in {"ok", "truncated"} : Answer(q, reply) => flush' \in Flushes
  BY FlushesAre DEF Answer
<1>4. CASE Retry
  <2>1. /\ flush.attempt \in 1..Retries /\ flush.seq \in Seqs /\ flush.piece \in Piece
    BY <1>1, <1>4 DEF Retry, Numbered, Posting, Flushes
  <2>2. PICK k \in 1..Retries :
            Send([flush EXCEPT !.pc = "post", !.attempt = k, !.reply = "none"])
    <3>1. (IF flush.attempt < Retries THEN flush.attempt + 1 ELSE flush.attempt) \in 1..Retries
      BY <1>1, <2>1
    <3> QED
      BY <1>4, <3>1 DEF Retry
  <2>3. k \in 0..Retries
    BY <1>1
  <2>4. flush' = [flush EXCEPT !.pc = "post", !.attempt = k, !.reply = "none"]
    BY <2>2 DEF Send
  <2>5. flush'.seq = flush.seq /\ flush'.piece = flush.piece /\ flush'.attempt = k
    BY <2>4 DEF Flushes
  <2>6. flush' \in Flushes
    BY <2>3, <2>4, FlushesAre
  <2>7. /\ flush' \in Flushes
        /\ flush'.seq = flush.seq /\ flush'.piece = flush.piece /\ flush'.attempt = k
    BY <2>5, <2>6
  <2>8. [seq |-> flush'.seq, piece |-> flush'.piece, attempt |-> flush'.attempt,
         pc |-> "sent", count |-> 0] \in Post
    BY <2>1, <2>7 DEF Post
  <2>9. net' \subseteq Post
    BY <2>2, <2>4, <2>8 DEF Send
  <2> QED
    BY <1>2, <1>4, <2>2, <2>7, <2>9 DEF Send, Retry
<1>5. CASE DeleteCommand
  BY <1>2, <1>5 DEF DeleteCommand, agentVars
<1>6. ASSUME NEW q \in net, Lose(q)
      PROVE  Typed'
  BY <1>2, <1>6 DEF Lose, agentVars
<1>7. ASSUME NEW q \in net, Refuse(q)
      PROVE  Typed'
  BY <1>2, <1>3, <1>7 DEF Refuse
<1>8. ASSUME NEW q \in net, ReadStats(q)
      PROVE  Typed'
  <2>1. IsFiniteSet(Stored)
    BY SeqsAre, FS_Subset DEF Stored
  <2>2. Cardinality(Stored) \in Nat
    BY <2>1, FS_CardinalityType
  <2>3. [q EXCEPT !.pc = "checked", !.count = Cardinality(Stored)] \in Post
    BY <2>2 DEF Post
  <2>4. net' \subseteq Post
    BY <1>8, <2>3 DEF ReadStats
  <2> QED
    BY <1>2, <1>8, <2>4 DEF ReadStats, agentVars
<1>9. ASSUME NEW q \in net, Insert(q)
      PROVE  Typed'
  <2>1. q.piece \in Piece /\ q.seq \in Seqs
    BY DEF Post
  <2>2. rows' \in [Seqs -> Piece \cup {Nothing, Marker}]
    BY <1>9, <2>1 DEF Insert
  <2>3. flush' \in Flushes
    BY <1>3, <1>9 DEF Insert
  <2> QED
    BY <1>2, <1>9, <2>2, <2>3 DEF Insert
<1> QED
  BY <1>4, <1>5, <1>6, <1>7, <1>8, <1>9 DEF PostStep, Handle

\* No POST gives a chunk another number, and no handler rewrites a row.
PostMoves ==
    /\ UNCHANGED <<seq, taken, stopped, watching, timer, cursor, printed, polls>>
    /\ Posting' => /\ Posting /\ flush'.seq = flush.seq /\ flush'.piece = flush.piece
                   /\ flush'.attempt >= 1
    /\ \A q \in net' : \/ \E r \in net : r.seq = q.seq /\ r.piece = q.piece
                       \/ Posting /\ q.seq = flush.seq /\ q.piece = flush.piece
    /\ \A s \in Seqs : \/ rows'[s] = rows[s]
                       \/ rows'[s] = Nothing /\ status' = "deleted"
                       \/ rows[s] = Nothing /\ rows'[s] = Marker /\ s <= seq
                       \/ rows[s] = Nothing /\ \E q \in net : q.seq = s /\ q.piece = rows'[s]
    /\ status' = status \/ status' = "deleted"
    /\ flush'.pc = "post" /\ flush'.reply = "truncated" /\ status' = "claimed" =>
        (flush.pc = "post" /\ flush.reply = "truncated") \/ Capped'

LEMMA AnswersAre ==
    ASSUME StreamIInv, NEW q \in net, NEW reply \in {"ok", "truncated"}, Answer(q, reply)
    PROVE  /\ flush'.pc = flush.pc /\ flush'.seq = flush.seq
           /\ flush'.piece = flush.piece /\ flush'.attempt = flush.attempt
           /\ flush'.reply # flush.reply =>
                flush'.reply = reply /\ flush.pc = "post" /\ flush.seq = q.seq
  BY DEF Answer, StreamIInv, Typed, Flushes

LEMMA InsertMoves ==
    ASSUME StreamIInv, NEW q \in net, Insert(q)
    PROVE  PostMoves
<1> DEFINE fresh == rows[q.seq] = Nothing
           stored == IF fresh THEN [rows EXCEPT ![q.seq] = q.piece] ELSE rows
           full == q.count + (IF fresh THEN 1 ELSE 0) >= Cap
           reply == IF full THEN "truncated" ELSE "ok"
<1>1. /\ q \in Post /\ q.seq \in Seqs /\ q.piece \in Piece /\ q.seq < seq /\ q.seq \in Nat
      /\ seq <= taken /\ taken \in Nat /\ taken <= MaxPieces /\ seq \in Seqs /\ seq \in Nat
      /\ q.seq + 1 \in Seqs /\ q.seq + 1 <= seq
      /\ rows \in [Seqs -> Piece \cup {Nothing, Marker}]
  <2>1. q \in Post /\ q.seq \in Seqs /\ q.piece \in Piece /\ q.seq \in Nat
    BY SeqsAre DEF StreamIInv, Typed, StreamTypeOK, Post
  <2>2. seq <= taken /\ taken \in Nat /\ taken <= MaxPieces /\ seq \in Seqs /\ seq \in Nat
    BY SeqsAre DEF StreamIInv, Typed, StreamTypeOK, Numbered
  <2>3. q.seq < seq
    BY DEF StreamIInv, Numbered
  <2>4. q.seq + 1 \in Nat /\ q.seq + 1 <= seq /\ q.seq + 1 <= MaxPieces + 1
    BY <2>1, <2>2, <2>3, SeqsAre
  <2>5. q.seq + 1 \in Seqs
    BY <2>4, SeqsAre
  <2> QED
    BY <2>1, <2>2, <2>3, <2>4, <2>5 DEF StreamIInv, Typed, StreamTypeOK
<1>2. /\ rows' = IF full /\ stored[q.seq + 1] = Nothing
                 THEN [stored EXCEPT ![q.seq + 1] = Marker] ELSE stored
      /\ net' = net \ {q} /\ Answer(q, reply)
      /\ UNCHANGED <<written, taken, seq, completed, stopped, givenUp, status, consoleVars>>
  BY DEF Insert
<1>3. /\ flush'.pc = flush.pc /\ flush'.seq = flush.seq
      /\ flush'.piece = flush.piece /\ flush'.attempt = flush.attempt
      /\ flush'.reply # flush.reply =>
            flush'.reply = reply /\ flush.pc = "post" /\ flush.seq = q.seq
  BY <1>2, AnswersAre
<1>4. /\ \A s \in Seqs : s # q.seq => stored[s] = rows[s]
      /\ stored[q.seq] = rows[q.seq] \/ (rows[q.seq] = Nothing /\ stored[q.seq] = q.piece)
      /\ stored \in [Seqs -> Piece \cup {Nothing, Marker}]
  BY <1>1
<1> HIDE DEF stored, full, fresh
<1>5. \A s \in Seqs : \/ rows'[s] = rows[s]
                      \/ rows[s] = Nothing /\ rows'[s] = Marker /\ s <= seq
                      \/ rows[s] = Nothing /\ \E r \in net : r.seq = s /\ r.piece = rows'[s]
  <2> TAKE s \in Seqs
  <2>1. CASE s = q.seq + 1
    <3>1. s # q.seq /\ stored[s] = rows[s]
      BY <1>1, <1>4, <2>1
    <3>2. rows'[s] = stored[s] \/ (stored[s] = Nothing /\ rows'[s] = Marker)
      BY <1>2, <1>4, <2>1
    <3> QED
      BY <1>1, <2>1, <3>1, <3>2
  <2>2. CASE s # q.seq + 1
    <3>1. rows'[s] = stored[s]
      BY <1>2, <1>4, <2>2
    <3> QED
      BY <1>4, <3>1
  <2> QED
    BY <2>1, <2>2
<1>6. ASSUME flush'.pc = "post", flush'.reply = "truncated", flush.reply # "truncated"
      PROVE  Capped'
  <2>1. full /\ flush.pc = "post" /\ flush.seq = q.seq
    BY <1>3, <1>6
  <2>2. q.seq + 1 = seq
    BY <2>1 DEF StreamIInv, Numbered, Posting
  <2>3. stored[seq] = rows[seq]
    BY <1>1, <1>4, <2>2
  <2>4. rows[seq] \notin Piece
    <3> SUFFICES ASSUME rows[seq] \in Piece PROVE FALSE
      OBVIOUS
    <3>1. Known(seq, rows[seq])
      BY <1>1 DEF Known
    <3>2. seq < seq
      BY <3>1 DEF StreamIInv, Bounded
    <3> QED
      BY <1>1, <3>2
  <2>5. rows[seq] \in {Nothing, Marker}
    BY <1>1, <2>4
  <2>6. rows'[seq] = Marker
    BY <1>1, <1>2, <1>4, <2>1, <2>2, <2>3, <2>5
  <2>7. Marker # Nothing
    BY SeqsAre DEF Marker, Nothing
  <2>8. DOMAIN rows' = Seqs
    BY <1>2, <1>4
  <2> QED
    BY <1>1, <2>6, <2>7, <2>8 DEF Capped, Stored
<1>7. Posting' => Posting /\ flush'.seq = flush.seq /\ flush'.piece = flush.piece
                  /\ flush'.attempt >= 1
  BY <1>3 DEF StreamIInv, Numbered, Posting
<1> QED
  BY <1>2, <1>3, <1>5, <1>6, <1>7 DEF PostMoves, consoleVars

LEMMA PostStepsMove ==
    ASSUME StreamIInv, PostStep
    PROVE  PostMoves
<1>1. CASE Retry
  <2>1. /\ Posting /\ flush.piece \in Piece /\ flush.attempt \in Nat /\ flush.attempt >= 1
    BY <1>1 DEF Retry, StreamIInv, Numbered, Posting, Typed, Flushes
  <2>2. PICK k \in Nat \ {0} : Send([flush EXCEPT !.pc = "post", !.attempt = k, !.reply = "none"])
    <3>1. (IF flush.attempt < Retries THEN flush.attempt + 1 ELSE flush.attempt) \in Nat \ {0}
      BY <2>1
    <3> QED
      BY <1>1, <3>1 DEF Retry
  <2>3. flush' = [flush EXCEPT !.pc = "post", !.attempt = k, !.reply = "none"]
    BY <2>2 DEF Send
  <2>4. /\ flush'.pc = "post" /\ flush'.seq = flush.seq /\ flush'.piece = flush.piece
        /\ flush'.attempt = k /\ flush'.reply = "none"
    BY <2>3 DEF StreamIInv, Typed, Flushes
  <2>5. \A q \in net' : q \in net \/ (q.seq = flush'.seq /\ q.piece = flush'.piece)
    BY <2>2, <2>3 DEF Send
  <2> QED
    BY <1>1, <2>1, <2>2, <2>4, <2>5 DEF Retry, Send, PostMoves, consoleVars
<1>2. CASE DeleteCommand
  <2>1. UNCHANGED <<agentVars, net, consoleVars>> /\ status' = "deleted"
        /\ \A s \in Seqs : rows'[s] = Nothing
    BY <1>2 DEF DeleteCommand
  <2> QED
    BY <2>1 DEF PostMoves, agentVars, consoleVars, Posting, StreamIInv, Numbered
<1>3. ASSUME NEW q \in net, Lose(q)
      PROVE  PostMoves
  BY <1>3 DEF Lose, PostMoves, agentVars, consoleVars, Posting, StreamIInv, Numbered
<1>4. ASSUME NEW q \in net, Refuse(q)
      PROVE  PostMoves
  <2>1. /\ flush'.pc = flush.pc /\ flush'.seq = flush.seq
        /\ flush'.piece = flush.piece /\ flush'.attempt = flush.attempt
    BY <1>4, AnswersAre DEF Refuse
  <2>2. UNCHANGED <<taken, seq, stopped, rows, status, consoleVars>> /\ net' = net \ {q}
        /\ (status # "claimed" \/ Capped)
    BY <1>4 DEF Refuse
  <2>3. Capped => Capped'
    BY <2>2 DEF Capped, Stored
  <2> QED
    BY <2>1, <2>2, <2>3 DEF PostMoves, consoleVars, Posting, StreamIInv, Numbered
<1>5. ASSUME NEW q \in net, ReadStats(q)
      PROVE  PostMoves
  <2>1. LET r == [q EXCEPT !.pc = "checked", !.count = Cardinality(Stored)]
        IN  r.seq = q.seq /\ r.piece = q.piece
    BY DEF StreamIInv, Typed, StreamTypeOK, Post
  <2>2. \A r \in net' : \E s \in net : s.seq = r.seq /\ s.piece = r.piece
    BY <1>5, <2>1 DEF ReadStats
  <2>3. UNCHANGED <<agentVars, rows, status, consoleVars>>
    BY <1>5 DEF ReadStats
  <2> QED
    BY <2>2, <2>3 DEF PostMoves, agentVars, consoleVars, Posting, StreamIInv, Numbered
<1>6. ASSUME NEW q \in net, Insert(q)
      PROVE  PostMoves
  BY <1>6, InsertMoves
<1> QED
  BY <1>1, <1>2, <1>3, <1>4, <1>5, <1>6 DEF PostStep, Handle

LEMMA PostKeeps ==
    ASSUME StreamIInv, Typed', PostMoves
    PROVE  StreamIInv'
<1> USE DEF StreamIInv
<1>1. NothingNew
  <2> SUFFICES ASSUME NEW s, NEW x, KnownNext(s, x) PROVE Known(s, x)
    BY DEF NothingNew
  <2>1. x \in Piece /\ x # Nothing /\ x # Marker
    BY SeqsAre DEF KnownNext, Piece, Nothing, Marker
  <2>2. CASE Posting' /\ flush'.seq = s /\ flush'.piece = x
    BY <2>1, <2>2 DEF PostMoves, Known
  <2>3. CASE \E q \in net' : q.seq = s /\ q.piece = x
    BY <2>1, <2>3 DEF PostMoves, Known
  <2>4. CASE s \in Seqs /\ rows'[s] = x
    BY <2>1, <2>4 DEF PostMoves, Known
  <2>5. CASE \E p \in Poll : <<s, x>> \in polls'[p].chunks
    BY <2>1, <2>5 DEF PostMoves, Known
  <2> QED
    BY <2>2, <2>3, <2>4, <2>5 DEF KnownNext
<1>2. Shown' => Shown
  BY DEF Shown, PostMoves
<1>3. /\ taken \in Nat /\ seq \in Nat /\ seq' = seq /\ taken' = taken
      /\ DOMAIN rows = Seqs /\ DOMAIN rows' = Seqs
      /\ rows' \in [Seqs -> Piece \cup {Nothing, Marker}] /\ Seqs \subseteq Nat
  BY SeqsAre DEF Typed, StreamTypeOK, PostMoves
<1>4. /\ Bounded' /\ InOrder' /\ Ahead' /\ PrintedInOrder'
      /\ \A s \in Seqs : rows'[s] \in Piece => s < seq
  <2>1. taken' >= taken /\ taken' \in Nat /\ UNCHANGED <<seq, cursor, printed>>
    BY <1>3 DEF PostMoves
  <2> QED
    BY <1>1, <1>2, <1>3, <2>1, KnownKeeps
<1>5. Numbered'
  <2>1. \A q \in net' : q.seq < seq
    <3> TAKE q \in net'
    <3>1. CASE \E r \in net : r.seq = q.seq /\ r.piece = q.piece
      BY <3>1 DEF Numbered
    <3>2. CASE Posting /\ q.seq = flush.seq
      <4>1. flush.seq \in Nat
        BY SeqsAre DEF Typed, Flushes
      <4> QED
        BY <1>3, <3>2, <4>1 DEF Numbered
    <3> QED
      BY <3>1, <3>2 DEF PostMoves
  <2>2. \A s \in Seqs : rows'[s] # Nothing => s <= seq
    <3> TAKE s \in Seqs
    <3>1. rows'[s] = Marker /\ rows'[s] # Nothing => s <= seq
      BY <1>3 DEF PostMoves, Numbered, Stored, Post, StreamTypeOK, Typed, Piece, Marker, Nothing
    <3> QED
      BY <1>3, <1>4, <3>1
  <2> QED
    BY <1>3, <2>1, <2>2 DEF Numbered, PostMoves, Posting, Stored
<1>6. Polling'
  <2>1. status' # "deleted" => \A s \in Stored : s \in Stored'
    BY <1>3, SeqsAre DEF PostMoves, Stored, Post, StreamTypeOK, Typed, Piece, Marker, Nothing
  <2>2. status' # "deleted" => status # "deleted"
    BY DEF PostMoves
  <2>3. UNCHANGED <<timer, cursor, polls>>
    BY DEF PostMoves
  <2> HIDE DEF Stored
  <2> QED
    BY <2>1, <2>2, <2>3 DEF Polling
<1>7. Capped /\ status' # "deleted" => Capped'
  BY <1>3, SeqsAre DEF PostMoves, Capped, Stored, Marker, Nothing
<1>8. CapIsKnown' /\ CapIsVisible'
  BY <1>7 DEF CapIsKnown, CapIsVisible, PostMoves
<1> QED
  BY <1>4, <1>5, <1>6, <1>8

-------------------------------------------------------------------------------
(* A flush takes what was written next, under the next number.             *)

LEMMA TakeChunkKeeps ==
    ASSUME StreamIInv, TakeChunk
    PROVE  StreamIInv'
<1> USE DEF StreamIInv
<1> DEFINE f == [flush EXCEPT !.pc = "post", !.seq = seq, !.piece = taken + 1,
                              !.attempt = 1, !.reply = "none"]
           post == [seq |-> seq, piece |-> taken + 1, attempt |-> 1, pc |-> "sent", count |-> 0]
<1>1. /\ flush.pc = "next" /\ taken < written /\ taken' = taken + 1 /\ seq' = seq + 1 /\ flush' = f
      /\ UNCHANGED <<rows, status, written, completed, stopped, givenUp, consoleVars>>
      /\ net' = net \/ net' = net \cup {[seq |-> f.seq, piece |-> f.piece, attempt |-> f.attempt,
                                         pc |-> "sent", count |-> 0]}
  BY DEF TakeChunk, Send
<1>2. /\ f.pc = "post" /\ f.seq = seq /\ f.piece = taken + 1 /\ f.attempt = 1
      /\ f.reply = "none"
  BY DEF Typed, Flushes
<1>3. net' \subseteq net \cup {post}
  BY <1>1, <1>2
<1>4. /\ taken \in Nat /\ seq \in Nat /\ seq <= taken /\ written \in 0..MaxPieces
      /\ taken + 1 \in Piece /\ seq \in Seqs /\ seq + 1 \in Seqs /\ seq' <= taken'
      /\ 1 \in 0..Retries /\ 1 \in 1..Retries
  <2>1. /\ taken \in Nat /\ written \in 0..MaxPieces /\ seq \in Nat /\ seq <= taken
        /\ MaxPieces \in Nat /\ seq \in Seqs /\ taken < written
    BY <1>1, SeqsAre DEF Typed, StreamTypeOK, Numbered
  <2>2. seq + 1 \in Nat /\ seq + 1 <= MaxPieces + 1
    BY <2>1
  <2>3. seq + 1 \in Seqs
    BY <2>2, SeqsAre
  <2>4. taken + 1 \in Piece /\ seq' <= taken'
    BY <1>1, <2>1 DEF Piece
  <2> QED
    BY <2>1, <2>3, <2>4, SeqsAre
<1>5. Typed'
  <2>1. f \in Flushes
    BY <1>4, FlushesAre DEF Typed
  <2>2. post \in Post
    BY <1>4 DEF Post
  <2>3. net' \subseteq Post
    BY <1>3, <2>2 DEF Typed, StreamTypeOK
  <2>4. taken' \in 0..written
    BY <1>1, <1>4
  <2>5. /\ flush'.by \in {"pump", "final", "over"}
        /\ flush'.pc \in {"rest", "next", "post", "backoff"}
        /\ flush'.attempt \in 0..Retries
    BY <1>1, <2>1 DEF Flushes
  <2> HIDE DEF f, post
  <2> QED
    BY <1>1, <1>4, <2>1, <2>3, <2>4, <2>5 DEF Typed, StreamTypeOK, consoleVars
<1>6. ASSUME NEW s, NEW x, KnownNext(s, x)
      PROVE  Known(s, x) \/ (s = seq /\ x = taken + 1)
  <2>1. CASE Posting' /\ flush'.seq = s /\ flush'.piece = x
    BY <1>1, <1>2, <2>1
  <2>2. CASE \E q \in net' : q.seq = s /\ q.piece = x
    BY <1>3, <1>6, <2>2 DEF Known, KnownNext
  <2>3. CASE s \in Seqs /\ rows'[s] = x
    BY <1>1, <1>6, <2>3 DEF Known, KnownNext
  <2>4. CASE \E p \in Poll : <<s, x>> \in polls'[p].chunks
    BY <1>1, <1>6, <2>4 DEF Known, KnownNext, consoleVars
  <2> QED
    BY <1>6, <2>1, <2>2, <2>3, <2>4 DEF KnownNext
<1> HIDE DEF f, post
<1>7. ASSUME NEW s, NEW x, Known(s, x)
      PROVE  s \in Seqs /\ s \in Nat /\ s < seq /\ x \in Nat /\ x <= taken
  <2>1. x \in Nat
    BY <1>7, SeqsAre DEF Known, Piece
  <2>2. s \in Seqs /\ s < seq /\ x <= taken
    BY <1>7 DEF Bounded
  <2> QED
    BY <2>1, <2>2, SeqsAre
<1>8. ASSUME NEW i \in DOMAIN printed, printed[i] # Marker
       PROVE  printed[i] \in Nat /\ printed[i] <= taken
  BY <1>8, SeqsAre DEF Typed, Bounded, Piece, Marker
<1>9. Bounded'
  <2>1. ASSUME NEW i \in DOMAIN printed', printed'[i] # Marker
        PROVE  printed'[i] <= taken'
    BY <1>1, <1>4, <1>8, <2>1 DEF consoleVars
  <2> SUFFICES ASSUME NEW s, NEW x, KnownNext(s, x)
               PROVE  s \in Seqs /\ s < seq' /\ x <= taken'
    BY <2>1, BoundedNext
  <2> QED
    BY <1>1, <1>4, <1>6, <1>7
<1>10. InOrder'
  <2> SUFFICES ASSUME NEW s, NEW t, NEW x, NEW y, KnownNext(s, x), KnownNext(t, y)
               PROVE  (s < t => x < y) /\ (s = t => x = y)
    BY InOrderNext
  <2>1. Known(s, x) /\ Known(t, y) => (s < t => x < y) /\ (s = t => x = y)
    BY DEF InOrder
  <2> QED
    BY <1>4, <1>6, <1>7, <2>1
<1>11. Ahead'
  <2> SUFFICES ASSUME Shown', NEW i \in DOMAIN printed', NEW s, NEW x,
                      printed'[i] # Marker, KnownNext(s, x), s > cursor'
               PROVE  printed'[i] < x
    BY AheadNext
  <2>1. UNCHANGED <<status, polls, cursor, printed>>
    BY <1>1 DEF consoleVars
  <2>2. Shown
    BY <2>1 DEF Shown
  <2>3. CASE Known(s, x)
    BY <2>1, <2>2, <2>3 DEF Ahead
  <2>4. CASE x = taken + 1
    BY <1>4, <1>8, <2>1, <2>4
  <2> QED
    BY <1>6, <2>3, <2>4
<1>12. UNCHANGED <<rows, status, stopped, watching, timer, cursor, printed, polls>>
  BY <1>1 DEF consoleVars
<1>13. Numbered'
  <2>1. /\ flush'.seq + 1 = seq' /\ flush'.piece \in Piece /\ flush'.attempt >= 1
    BY <1>1, <1>2, <1>4
  <2>2. \A q \in net : q.seq \in Nat /\ q.seq < seq
    BY SeqsAre DEF Typed, StreamTypeOK, Numbered, Post
  <2>3. \A q \in net' : q.seq < seq'
    BY <1>1, <1>3, <1>4, <2>2 DEF post
  <2>4. \A s \in Stored : s \in Nat /\ s <= seq
    BY SeqsAre DEF Typed, StreamTypeOK, Numbered, Stored
  <2>5. \A s \in Stored' : s <= seq'
    BY <1>1, <1>4, <1>12, <2>4 DEF Stored
  <2> QED
    BY <1>4, <2>1, <2>3, <2>5 DEF Numbered
<1>14. Polling'
  BY <1>12 DEF Polling, Stored
<1>15. Capped => Capped'
  BY <1>12 DEF Capped, Stored
<1>16. CapIsKnown' /\ CapIsVisible' /\ PrintedInOrder'
  BY <1>1, <1>2, <1>12, <1>15 DEF CapIsKnown, CapIsVisible, PrintedInOrder
<1> QED
  BY <1>5, <1>9, <1>10, <1>11, <1>13, <1>14, <1>16

-------------------------------------------------------------------------------
(* The console.                                                            *)

\* Steps of the console that print nothing.
PollMoves ==
    /\ UNCHANGED <<agentVars, hubVars, cursor, printed>>
    /\ Typed' /\ Polling'
    /\ \A p \in Poll : \A s \in Seqs, x \in Piece : <<s, x>> \in polls'[p].chunks =>
        rows[s] = x \/ <<s, x>> \in polls[p].chunks
    /\ \A p \in Poll : polls'[p].chunks \subseteq Chunk
    /\ Shown' => Shown

LEMMA PollMovesKeep ==
    ASSUME StreamIInv, PollMoves
    PROVE  StreamIInv'
<1> USE DEF StreamIInv
<1>1. UNCHANGED <<written, taken, seq, flush, completed, stopped, givenUp, net, rows, status,
                  cursor, printed>>
  BY DEF PollMoves, agentVars, hubVars
<1>2. NothingNew
  <2> SUFFICES ASSUME NEW s, NEW x, KnownNext(s, x) PROVE Known(s, x)
    BY DEF NothingNew
  <2>1. CASE \E p \in Poll : <<s, x>> \in polls'[p].chunks
    <3>1. s \in Seqs /\ x \in Piece
      BY <2>1 DEF PollMoves, Chunk, KnownNext
    <3> QED
      BY <2>1, <3>1 DEF PollMoves, Known
  <2>2. CASE ~ \E p \in Poll : <<s, x>> \in polls'[p].chunks
    BY <1>1, <2>2 DEF Known, KnownNext, Posting
  <2> QED
    BY <2>1, <2>2
<1>3. taken \in Nat /\ taken' \in Nat /\ taken' >= taken
  BY <1>1, SeqsAre DEF Typed, StreamTypeOK
<1>4. Bounded' /\ InOrder' /\ Ahead' /\ PrintedInOrder'
  BY <1>1, <1>2, <1>3, KnownKeeps DEF PollMoves
<1>5. Numbered' /\ CapIsKnown' /\ CapIsVisible'
  BY <1>1 DEF Numbered, CapIsKnown, CapIsVisible, Capped, Stored, Posting
<1> QED
  BY <1>4, <1>5 DEF PollMoves

LEMMA RequestsAre ==
    /\ NoRequest \in Request /\ NoRequest.pc = "none" /\ NoRequest.chunks = {}
    /\ \A a \in Seqs \cup {-1} :
        LET r == [NoRequest EXCEPT !.pc = "asked", !.after = a]
        IN  r \in Request /\ r.pc = "asked" /\ r.after = a /\ r.chunks = {}
    /\ \A r \in Request : \A pc \in {"status", "rows", "answered"}, over \in BOOLEAN,
                          chunks \in SUBSET Chunk, next \in Seqs :
        /\ [r EXCEPT !.pc = pc, !.over = over] \in Request
        /\ [r EXCEPT !.pc = pc, !.chunks = chunks] \in Request
        /\ [r EXCEPT !.pc = pc, !.next = next] \in Request
  <1>1. 0 \in Seqs
    BY SeqsAre
  <1> QED
    BY <1>1 DEF Request, NoRequest

\* Another poll: what the others are doing stands.
PollGoes(p, r) ==
    /\ r \in Request /\ r.chunks \subseteq Chunk
    /\ polls'[p] = r /\ polls' \in [Poll -> Request]
    /\ \A q \in Poll : q # p => polls'[q] = polls[q]

LEMMA PollGoing ==
    ASSUME StreamIInv, NEW p \in Poll, NEW r \in Request, polls' = [polls EXCEPT ![p] = r]
    PROVE  PollGoes(p, r)
  BY DEF StreamIInv, Typed, StreamTypeOK, Request, PollGoes

PollStep == ShowTab \/ \E p \in Poll : StartPoll(p) \/ ReadStatus(p) \/ ReadRows(p)
                                      \/ ReadHighest(p) \/ PollFails(p)

LEMMA PollTypes ==
    ASSUME StreamIInv, polls' \in [Poll -> Request], timer' \in BOOLEAN, watching' \in BOOLEAN,
           UNCHANGED <<agentVars, hubVars, cursor, printed>>
    PROVE  Typed'
  BY DEF StreamIInv, Typed, StreamTypeOK, agentVars, hubVars

\* Only one poll is under way while this one is.
LEMMA OneAtATime ==
    ASSUME StreamIInv, NEW p \in Poll, polls[p].pc # "none"
    PROVE  \A q \in Poll : q # p => polls[q].pc = "none" /\ polls[q].chunks = {}
  BY DEF StreamIInv, Polling

LEMMA PollStepsMove ==
    ASSUME StreamIInv, OnePoll, PollStep
    PROVE  PollMoves
<1> USE DEF StreamIInv
<1>1. /\ polls \in [Poll -> Request] /\ cursor \in Seqs \cup {-1}
      /\ timer \in BOOLEAN /\ watching \in BOOLEAN
      /\ \A p \in Poll : polls[p] \in Request /\ polls[p].chunks \subseteq Chunk
  BY DEF Typed, StreamTypeOK, Request
<1>2. MaxPolls = 1 => \A p, q \in Poll : p = q
  BY DEF Poll
<1>3. CASE ShowTab
  <2>1. UNCHANGED <<agentVars, hubVars, watching, cursor, printed, polls>> /\ timer' = TRUE
        /\ TabSwitches
    BY <1>3 DEF ShowTab
  <2>2. Typed'
    BY <1>1, <2>1, PollTypes
  <2>3. Polling'
    BY <2>1 DEF Polling, hubVars, Stored
  <2> QED
    BY <1>1, <2>1, <2>2, <2>3 DEF PollMoves, Shown, hubVars
<1>4. ASSUME NEW p \in Poll, StartPoll(p)
      PROVE  PollMoves
  <2> DEFINE r == [NoRequest EXCEPT !.pc = "asked", !.after = cursor]
  <2>1. /\ polls' = [polls EXCEPT ![p] = r] /\ timer /\ timer' = FALSE /\ polls[p].pc = "none"
        /\ UNCHANGED <<agentVars, hubVars, watching, cursor, printed>>
    BY <1>4 DEF StartPoll
  <2>2. r \in Request /\ r.pc = "asked" /\ r.after = cursor /\ r.chunks = {}
    BY <1>1, RequestsAre
  <2> HIDE DEF r
  <2>3. PollGoes(p, r)
    BY <2>1, <2>2, PollGoing
  <2>4. Typed'
    BY <1>1, <2>1, <2>3, PollTypes DEF PollGoes
  <2>5. \A q \in Poll : q # p => polls[q].pc = "none"
    BY <1>2, <2>1 DEF Polling, OnePoll
  <2>6. Polling'
    BY <2>1, <2>2, <2>3, <2>5 DEF Polling, PollGoes, hubVars, Stored
  <2> QED
    BY <1>1, <2>1, <2>2, <2>3, <2>4, <2>6 DEF PollMoves, PollGoes, Shown, hubVars
<1>5. ASSUME NEW p \in Poll, ReadStatus(p)
      PROVE  PollMoves
  <2> DEFINE r == [polls[p] EXCEPT !.pc = "status", !.over = (status = "done")]
  <2>1. /\ polls' = [polls EXCEPT ![p] = r] /\ polls[p].pc = "asked" /\ status # "deleted"
        /\ UNCHANGED <<agentVars, hubVars, watching, timer, cursor, printed>>
    BY <1>1, <1>5 DEF ReadStatus
  <2>2. r \in Request /\ r.pc = "status" /\ r.after = polls[p].after /\ r.chunks = polls[p].chunks
    BY <1>1 DEF Request
  <2> HIDE DEF r
  <2>3. PollGoes(p, r)
    BY <1>1, <2>1, <2>2, PollGoing
  <2>4. Typed'
    BY <1>1, <2>1, <2>3, PollTypes DEF PollGoes
  <2>5. \A q \in Poll : q # p => polls[q].pc = "none"
    BY <2>1, OneAtATime
  <2>6. Polling'
    BY <2>1, <2>2, <2>3, <2>5 DEF Polling, PollGoes, hubVars, Stored
  <2> QED
    BY <1>1, <2>1, <2>2, <2>3, <2>4, <2>6 DEF PollMoves, PollGoes, Shown, hubVars
<1>6. ASSUME NEW p \in Poll, ReadRows(p)
      PROVE  PollMoves
  <2> DEFINE read == {<<s, rows[s]>> : s \in {x \in Stored : x > polls[p].after}}
             r == [polls[p] EXCEPT !.pc = "rows", !.chunks = read]
  <2>1. /\ polls' = [polls EXCEPT ![p] = r] /\ polls[p].pc = "status"
        /\ UNCHANGED <<agentVars, hubVars, watching, timer, cursor, printed>>
    BY <1>1, <1>6 DEF ReadRows
  <2>2. /\ read \subseteq Chunk
        /\ \A c \in read : c[1] \in Stored /\ c[2] = rows[c[1]] /\ c[1] > polls[p].after
    BY DEF Typed, StreamTypeOK, Stored, Chunk
  <2>3. \A c, d \in read : c[1] = d[1] => c = d
    OBVIOUS
  <2> HIDE DEF read
  <2>4. r \in Request /\ r.pc = "rows" /\ r.after = polls[p].after /\ r.chunks = read
    BY <1>1, <2>2 DEF Request
  <2> HIDE DEF r
  <2>5. PollGoes(p, r)
    BY <2>1, <2>2, <2>4, PollGoing
  <2>6. Typed'
    BY <1>1, <2>1, <2>5, PollTypes DEF PollGoes
  <2>7. \A q \in Poll : q # p => polls[q].pc = "none"
    BY <2>1, OneAtATime
  <2>8. polls[p].after = cursor /\ Stored' = Stored
    BY <2>1 DEF Polling, hubVars, Stored
  <2>9. Polling'
    BY <2>1, <2>2, <2>3, <2>4, <2>5, <2>7, <2>8 DEF Polling, PollGoes, hubVars
  <2>10. \A q \in Poll : \A s \in Seqs, x \in Piece : <<s, x>> \in polls'[q].chunks =>
            rows[s] = x \/ <<s, x>> \in polls[q].chunks
    <3> TAKE q \in Poll
    <3> TAKE s \in Seqs, x \in Piece
    <3>1. CASE q = p
      <4>1. <<s, x>> \in read => rows[s] = x
        BY <2>2
      <4> QED
        BY <2>4, <2>5, <3>1, <4>1 DEF PollGoes
    <3>2. CASE q # p
      BY <2>5, <3>2 DEF PollGoes
    <3> QED
      BY <3>1, <3>2
  <2>11. Shown' => Shown
    BY <2>1 DEF Shown
  <2>12. \A q \in Poll : polls'[q].chunks \subseteq Chunk
    BY <1>1, <2>4, <2>5 DEF PollGoes
  <2> QED
    BY <2>1, <2>6, <2>9, <2>10, <2>11, <2>12 DEF PollMoves
<1>7. ASSUME NEW p \in Poll, ReadHighest(p)
      PROVE  PollMoves
  <2> DEFINE next == IF Stored = {} THEN 0 ELSE Max(Stored) + 1
             r == [polls[p] EXCEPT !.pc = "answered", !.next = next]
  <2>1. /\ polls' = [polls EXCEPT ![p] = r] /\ polls[p].pc = "rows"
        /\ UNCHANGED <<agentVars, hubVars, watching, timer, cursor, printed>>
    BY <1>1, <1>7 DEF ReadHighest
  <2>2. next \in Seqs /\ \A s \in Stored : s < next
    <3>1. Stored \in SUBSET Seqs /\ seq \in Nat /\ seq <= MaxPieces
      BY SeqsAre DEF Stored, Typed, StreamTypeOK, Numbered
    <3>2. 0 \in Seqs
      BY SeqsAre
    <3>3. ASSUME Stored # {}
          PROVE  /\ Max(Stored) \in Nat /\ Max(Stored) + 1 \in Seqs
                 /\ \A s \in Stored : s < Max(Stored) + 1
      <4>1. Max(Stored) \in Stored /\ \A s \in Stored : s <= Max(Stored)
        BY <3>1, <3>3, HighestNumber
      <4>2. Max(Stored) \in Nat /\ Max(Stored) <= seq
        BY <3>1, <4>1, SeqsAre DEF Numbered
      <4>3. Max(Stored) + 1 \in Nat /\ Max(Stored) + 1 <= MaxPieces + 1
        BY <3>1, <4>2, SeqsAre
      <4>4. \A s \in Stored : s \in Nat /\ s < Max(Stored) + 1
        BY <3>1, <4>1, <4>2, SeqsAre
      <4> QED
        BY <4>2, <4>3, <4>4, SeqsAre
    <3> QED
      BY <3>2, <3>3
  <2> HIDE DEF next
  <2>3. /\ r \in Request /\ r.pc = "answered" /\ r.after = polls[p].after
        /\ r.chunks = polls[p].chunks /\ r.next = next
    BY <1>1, <2>2 DEF Request
  <2> HIDE DEF r
  <2>4. PollGoes(p, r)
    BY <1>1, <2>1, <2>3, PollGoing
  <2>5. Typed'
    BY <1>1, <2>1, <2>4, PollTypes DEF PollGoes
  <2>6. \A q \in Poll : q # p => polls[q].pc = "none"
    BY <2>1, OneAtATime
  <2>7. Stored' = Stored
    BY <2>1 DEF hubVars, Stored
  <2>8. status # "deleted" => \A c \in r.chunks : c[1] \in Stored /\ c[1] < r.next
    BY <2>2, <2>3 DEF Polling
  <2>9. Polling'
    BY <2>1, <2>3, <2>4, <2>6, <2>7, <2>8 DEF Polling, PollGoes, hubVars
  <2> QED
    BY <1>1, <2>1, <2>3, <2>4, <2>5, <2>9 DEF PollMoves, PollGoes, Shown, hubVars
<1>8. ASSUME NEW p \in Poll, PollFails(p)
      PROVE  PollMoves
  <2>1. /\ polls' = [polls EXCEPT ![p] = NoRequest] /\ polls[p].pc # "none" /\ timer' = FALSE
        /\ watching' = FALSE /\ UNCHANGED <<agentVars, hubVars, cursor, printed>>
    BY <1>8 DEF PollFails
  <2>2. NoRequest \in Request /\ NoRequest.pc = "none" /\ NoRequest.chunks = {}
    BY RequestsAre
  <2>3. PollGoes(p, NoRequest)
    BY <2>1, <2>2, PollGoing
  <2>4. Typed'
    BY <1>1, <2>1, <2>3, PollTypes DEF PollGoes
  <2>5. \A q \in Poll : q # p => polls[q].pc = "none"
    BY <2>1, OneAtATime
  <2>6. Polling'
    BY <2>1, <2>2, <2>3, <2>5 DEF Polling, PollGoes, hubVars, Stored
  <2> QED
    BY <1>1, <2>1, <2>2, <2>3, <2>4, <2>6 DEF PollMoves, PollGoes, Shown, hubVars
<1> QED
  BY <1>3, <1>4, <1>5, <1>6, <1>7, <1>8 DEF PollStep

\* What is printed comes after what was, and before what may yet come.
LEMMA PollAnsweredKeeps ==
    ASSUME StreamIInv, NEW p \in Poll, PollAnswered(p)
    PROVE  StreamIInv'
<1> USE DEF StreamIInv
<1> DEFINE r == polls[p]
           said == Pieces(r.chunks)
<1>1. /\ r.pc = "answered" /\ polls' = [polls EXCEPT ![p] = NoRequest]
      /\ printed' = IF watching THEN printed \o said ELSE printed
      /\ cursor' = IF watching /\ r.chunks # {} THEN r.next - 1 ELSE cursor
      /\ timer' = watching' /\ watching' \in BOOLEAN /\ UNCHANGED <<agentVars, hubVars>>
  BY DEF PollAnswered
<1>2. UNCHANGED <<written, taken, seq, flush, completed, stopped, givenUp, net, rows, status>>
  BY <1>1 DEF agentVars, hubVars
<1>3. /\ r \in Request /\ r.chunks \in SUBSET Chunk /\ r.next \in Seqs
      /\ \A c, d \in r.chunks : c[1] = d[1] => c = d
      /\ \A c \in r.chunks : c[1] > cursor /\ c[1] \in Seqs /\ c[1] \in Nat
      /\ printed \in Seq(Piece \cup {Marker}) /\ taken \in Nat
      /\ cursor \in Int /\ polls \in [Poll -> Request]
  <2>1. r \in Request /\ polls \in [Poll -> Request]
    BY DEF Typed, StreamTypeOK
  <2>2. r.chunks \in SUBSET Chunk /\ r.next \in Seqs
    BY <2>1 DEF Request
  <2>3. /\ \A c, d \in r.chunks : c[1] = d[1] => c = d
        /\ \A c \in r.chunks : c[1] > cursor
    BY DEF Polling
  <2>4. \A c \in r.chunks : c[1] \in Seqs /\ c[1] \in Nat
    BY <2>2, SeqsAre DEF Chunk
  <2>5. printed \in Seq(Piece \cup {Marker}) /\ taken \in Nat /\ cursor \in Int
    BY SeqsAre DEF Typed, StreamTypeOK
  <2> QED
    BY <2>1, <2>2, <2>3, <2>4, <2>5
<1>4. /\ said \in Seq(Piece \cup {Marker})
      /\ \A i \in DOMAIN said : \E c \in r.chunks : said[i] = c[2]
      /\ \A i, j \in DOMAIN said : i < j =>
            \E c, d \in r.chunks : c[1] < d[1] /\ said[i] = c[2] /\ said[j] = d[2]
  BY <1>3, PiecesAreInOrder
<1>5. \A c \in r.chunks : c[2] # Marker => Known(c[1], c[2]) /\ c[2] \in Piece /\ c[2] \in Nat
  <2> TAKE c \in r.chunks
  <2>1. c \in Chunk /\ c = <<c[1], c[2]>> /\ c[2] \in Piece \cup {Marker}
    BY <1>3 DEF Chunk
  <2> QED
    BY <2>1, SeqsAre DEF Known, Piece
<1>6. Shown
  BY <1>1 DEF Shown
<1> HIDE DEF said
<1>7. PollGoes(p, NoRequest) /\ NoRequest.pc = "none" /\ NoRequest.chunks = {}
  BY <1>1, RequestsAre, PollGoing
<1>8. \A q \in Poll : polls'[q].pc = "none" /\ polls'[q].chunks = {}
  BY <1>1, <1>7, OneAtATime DEF PollGoes
<1>9. \A s, x : KnownNext(s, x) => Known(s, x)
  BY <1>2, <1>8 DEF Known, KnownNext, Posting
<1>10. cursor' \in Seqs \cup {-1} /\ cursor' \in Int
  <2>1. r.next - 1 \in Seqs \cup {-1} /\ r.next - 1 \in Int
    BY <1>3, SeqsAre
  <2> QED
    BY <1>1, <1>3, <2>1 DEF Typed, StreamTypeOK
<1>11. printed' \in Seq(Piece \cup {Marker})
  BY <1>1, <1>3, <1>4
<1>12. Typed'
  BY <1>1, <1>2, <1>7, <1>10, <1>11 DEF Typed, StreamTypeOK, PollGoes
<1>13. \A i \in DOMAIN printed' :
        \/ i \in DOMAIN printed /\ printed'[i] = printed[i]
        \/ /\ watching /\ i \notin DOMAIN printed /\ i - Len(printed) \in DOMAIN said
           /\ printed'[i] = said[i - Len(printed)]
  BY <1>1, <1>3, <1>4
<1>14. \A i \in DOMAIN said : said[i] # Marker => said[i] \in Nat /\ said[i] <= taken
  BY <1>4, <1>5 DEF Bounded
<1>15. Bounded'
  <2>1. \A i \in DOMAIN printed' : printed'[i] # Marker => printed'[i] <= taken'
    BY <1>2, <1>13, <1>14 DEF Bounded
  <2>2. \A s, x : KnownNext(s, x) => s \in Seqs /\ s < seq' /\ x <= taken'
    BY <1>2, <1>9 DEF Bounded
  <2> QED
    BY <2>1, <2>2, BoundedNext
<1>16. InOrder'
  BY <1>9, InOrderNext DEF InOrder
<1>17. ASSUME status # "deleted", NEW s, NEW x, Known(s, x), s > cursor'
       PROVE  /\ s > cursor
              /\ watching => \A c \in r.chunks : c[1] < s
  <2>1. s \in Nat
    BY <1>17, SeqsAre DEF Bounded
  <2>2. \A c \in r.chunks : c[1] < r.next /\ r.next \in Nat
    BY <1>1, <1>3, <1>17, SeqsAre DEF Polling
  <2>3. CASE watching /\ r.chunks # {}
    <3>1. cursor' = r.next - 1
      BY <1>1, <2>3
    <3> QED
      BY <1>3, <1>17, <2>1, <2>2, <2>3, <3>1
  <2>4. CASE ~(watching /\ r.chunks # {})
    BY <1>1, <1>17, <2>4
  <2> QED
    BY <2>3, <2>4
<1>18. Ahead'
  <2> SUFFICES ASSUME Shown', NEW i \in DOMAIN printed', NEW s, NEW x,
                      printed'[i] # Marker, KnownNext(s, x), s > cursor'
               PROVE  printed'[i] < x
    BY AheadNext
  <2>1. Known(s, x) /\ status # "deleted"
    BY <1>2, <1>8, <1>9 DEF Shown
  <2>2. s > cursor /\ (watching => \A c \in r.chunks : c[1] < s)
    BY <1>17, <2>1
  <2>3. CASE i \in DOMAIN printed /\ printed'[i] = printed[i]
    BY <1>6, <2>1, <2>2, <2>3 DEF Ahead
  <2>4. CASE watching /\ i - Len(printed) \in DOMAIN said /\ printed'[i] = said[i - Len(printed)]
    <3>1. PICK c \in r.chunks : printed'[i] = c[2]
      BY <1>4, <2>4
    <3>2. Known(c[1], c[2]) /\ c[1] < s
      BY <1>5, <2>2, <2>4, <3>1
    <3> QED
      BY <2>1, <3>1, <3>2 DEF InOrder
  <2> QED
    BY <1>13, <2>3, <2>4
<1>19. PrintedInOrder'
  <2> SUFFICES ASSUME NEW i \in DOMAIN printed', NEW j \in DOMAIN printed', i < j,
                      printed'[i] # Marker, printed'[j] # Marker
               PROVE  printed'[i] < printed'[j]
    BY DEF PrintedInOrder
  <2> DEFINE n == Len(printed)
  <2>1. n \in Nat /\ DOMAIN printed = 1..n /\ i \in Nat /\ j \in Nat
    BY <1>3, <1>11
  <2>2. CASE j \in DOMAIN printed
    <3>1. i \in DOMAIN printed
      BY <1>11, <2>1, <2>2
    <3> QED
      BY <1>13, <2>2, <3>1 DEF PrintedInOrder
  <2>3. CASE i \in DOMAIN printed /\ j \notin DOMAIN printed
    <3>1. PICK c \in r.chunks : printed'[j] = c[2]
      BY <1>4, <1>13, <2>3
    <3>2. Known(c[1], c[2]) /\ c[1] > cursor
      BY <1>3, <1>5, <3>1
    <3>3. printed'[i] = printed[i]
      BY <1>13, <2>3
    <3> QED
      BY <1>6, <2>3, <3>1, <3>2, <3>3 DEF Ahead
  <2>4. CASE i \notin DOMAIN printed /\ j \notin DOMAIN printed
    <3>1. /\ i - n \in DOMAIN said /\ j - n \in DOMAIN said /\ i - n < j - n
          /\ printed'[i] = said[i - n] /\ printed'[j] = said[j - n]
      BY <1>13, <2>1, <2>4
    <3>2. PICK c \in r.chunks, d \in r.chunks :
              c[1] < d[1] /\ said[i - n] = c[2] /\ said[j - n] = d[2]
      BY <1>4, <3>1
    <3>3. Known(c[1], c[2]) /\ Known(d[1], d[2])
      BY <1>5, <3>1, <3>2
    <3> QED
      BY <3>1, <3>2, <3>3 DEF InOrder
  <2>5. CASE i \notin DOMAIN printed /\ j \in DOMAIN printed
    BY <1>11, <2>1, <2>5
  <2> QED
    BY <2>2, <2>3, <2>4, <2>5
<1>20. Polling'
  BY <1>8 DEF Polling
<1>21. Numbered' /\ CapIsKnown' /\ CapIsVisible'
  BY <1>2 DEF Numbered, CapIsKnown, CapIsVisible, Capped, Stored, Posting
<1> QED
  BY <1>12, <1>15, <1>16, <1>18, <1>19, <1>20, <1>21

-------------------------------------------------------------------------------
THEOREM StreamIInvHolds == ASSUME OnePoll PROVE Spec => []StreamIInv
<1>1. Init => StreamIInv
  <2> SUFFICES ASSUME Init PROVE StreamIInv
    OBVIOUS
  <2>1. /\ 0 \in Seqs /\ 0 \in 0..Retries /\ 0 \in 0..MaxPieces /\ 0 \in 0..0
        /\ Nothing \in Piece \cup {Nothing, Marker}
    BY SeqsAre
  <2>2. flush \in Flushes /\ ~Posting
    BY <2>1 DEF Init, Flushes, Posting
  <2>3. NoRequest \in Request /\ NoRequest.pc = "none" /\ NoRequest.chunks = {}
    BY RequestsAre
  <2>4. printed = <<>> /\ printed \in Seq(Piece \cup {Marker}) /\ DOMAIN printed = {}
    BY DEF Init
  <2>5. Typed
    BY <2>1, <2>2, <2>3, <2>4 DEF Init, Typed, StreamTypeOK, Flushes
  <2>6. \A s, x : ~Known(s, x)
    BY <2>2, <2>3, SeqsAre DEF Init, Known, Piece, Nothing
  <2>7. Stored = {}
    BY DEF Init, Stored
  <2>8. Numbered /\ Bounded /\ InOrder /\ Ahead
    BY <2>2, <2>4, <2>6, <2>7 DEF Init, Numbered, Bounded, InOrder, Ahead
  <2>9. Polling
    BY <2>3 DEF Init, Polling
  <2>10. CapIsKnown /\ CapIsVisible /\ PrintedInOrder
    BY <2>4 DEF Init, CapIsKnown, CapIsVisible, PrintedInOrder
  <2> QED
    BY <2>5, <2>8, <2>9, <2>10 DEF StreamIInv
<1>2. StreamIInv /\ [Next]_streamVars => StreamIInv'
  <2> SUFFICES ASSUME StreamIInv, [Next]_streamVars PROVE StreamIInv'
    OBVIOUS
  <2>1. CASE AgentStep
    BY <2>1, AgentTypes, AgentStepsMove, AgentKeeps
  <2>2. CASE PostStep
    BY <2>2, PostTypes, PostStepsMove, PostKeeps
  <2>3. CASE TakeChunk
    BY <2>3, TakeChunkKeeps
  <2>4. CASE PollStep
    BY <2>4, PollStepsMove, PollMovesKeep
  <2>5. ASSUME NEW p \in Poll, PollAnswered(p)
        PROVE  StreamIInv'
    BY <2>5, PollAnsweredKeeps
  <2>6. CASE UNCHANGED streamVars
    <3>1. UNCHANGED <<written, taken, seq, flush, completed, stopped, givenUp, net, rows, status,
                      watching, timer, cursor, printed, polls>>
      BY <2>6 DEF streamVars, agentVars, hubVars, consoleVars
    <3>2. Typed' /\ Numbered' /\ Polling'
      BY <3>1 DEF StreamIInv, Typed, StreamTypeOK, Numbered, Polling, Posting, Stored
    <3>3. AgentMoves
      BY <3>1, SeqsAre DEF StreamIInv, Typed, StreamTypeOK, AgentMoves, Posting
    <3> QED
      BY <3>2, <3>3, AgentKeeps
  <2> QED
    BY <2>1, <2>2, <2>3, <2>4, <2>5, <2>6
    DEF Next, Flush, Watch, AgentStep, PostStep, PollStep
<1> QED
  BY <1>1, <1>2, PTL DEF Spec

(* The scrollback shows the output in order and no piece twice             *)
(* (OutputStreamer: "ORDERING IS STRUCTURAL"), however often a POST is     *)
(* retried and however late it lands, as long as polls do not overlap.     *)
THEOREM StreamSafety == ASSUME OnePoll PROVE Spec => []StreamInv
<1>1. StreamIInv => StreamInv
  BY DEF StreamIInv, StreamInv, Typed
<1> QED
  BY <1>1, StreamIInvHolds, PTL

(* A stream that the hub stopped while its command runs says so on the     *)
(* console (append_command_output, the marker and the answer together).    *)
THEOREM CapsAreVisible == ASSUME OnePoll PROVE Spec => []CapIsVisible
<1>1. StreamIInv => CapIsVisible
  BY DEF StreamIInv
<1> QED
  BY <1>1, StreamIInvHolds, PTL
===============================================================================
