--------------------------- MODULE HubServicesProofs ---------------------------
(***************************************************************************)
(* Services of the hub, for any number of visitors, seats, tabs, batches,  *)
(* bytes, requests, relays and passes: an invite never admits more than it *)
(* has seats, a terminal is given its input in the order in which it was   *)
(* typed and shows its output in the order in which it was printed, and a  *)
(* wake that is shown as sent was sent.  They share no state: each has a   *)
(* section of its own, with its invariant first.                           *)
(***************************************************************************)
EXTENDS Wake, Invites, PtyInput, PtyOutput, FiniteSetTheorems, SequenceTheorems, TLAPS

-------------------------------------------------------------------------------
(* Invites.                                                                *)

\* Visits with a seat that is not on record yet.
Recording == {v \in Visit : VisitAt(v, "record")}

\* Whoever came in by this invite, or is on the way in with a seat.
Arriving == {v \in Visit : visit[v].pc \in {"read", "write"}}
Seated == redeemed \cup admitted \cup {visit[v].person : v \in Arriving}

\* Every seat in use was taken before its person was let in.
SeatsAreTaken ==
    /\ IsFiniteSet(Recording) /\ IsFiniteSet(Seated)
    /\ Cardinality(Seated) + Cardinality(Recording) <= invite.used
    /\ invite.used <= MaxUses

SeatsAreOnRecord == invite.there => Seated \subseteq redeemed

InviteIInv == InviteTypeOK /\ SeatsAreTaken /\ SeatsAreOnRecord

-------------------------------------------------------------------------------
(* What is typed into a terminal.                                          *)

\* A number names one row; numbers and batches go up together.
Rows(items) ==
    /\ items \subseteq Batches /\ IsFiniteSet(items)
    /\ \A q, r \in items : q.seq = r.seq => q = r
    /\ \A q \in items : q.seq < accepted /\ q.batch <= accepted

NumbersFollow ==
    /\ nextIn <= accepted /\ cursorIn <= accepted
    /\ \A t \in Tab : posting[t] # NotPosting => posting[t] <= accepted
    /\ Rows(queued) /\ Rows(pull.items)
    /\ pull.pc = "asked" => pull.next = cursorIn
    /\ pull.pc = "answered" => cursorIn <= pull.next /\ pull.next <= accepted
    /\ \A i \in DOMAIN typed : typed[i] <= accepted

\* Nothing is missing between the agent's cursor and number n.
NoGap(n) == \A s \in Seqs : cursorIn <= s /\ s < n => \E q \in queued : q.seq = s

NoGaps ==
    /\ NoGap(nextIn)
    /\ \A t \in Tab : posting[t] # NotPosting => NoGap(posting[t])
    /\ \A q \in queued : NoGap(q.seq)
    /\ pull.pc = "answered" => NoGap(pull.next)

Ordered(items) == \A q, r \in items : q.seq < r.seq => q.batch < r.batch
Deliverable == {q \in queued : q.seq >= cursorIn}

InputIsOrdered ==
    /\ Ordered(Deliverable)
    /\ \A i \in DOMAIN typed : \A q \in Deliverable : typed[i] < q.batch
    /\ pull.pc = "answered" =>
        /\ Ordered(pull.items)
        /\ \A q \in pull.items : /\ q.seq < pull.next
                                 /\ \A i \in DOMAIN typed : typed[i] < q.batch
                                 /\ \A r \in queued : r.seq >= pull.next => q.batch < r.batch

PtyInputIInv ==
    /\ PtyInputTypeOK /\ NumbersFollow
    /\ session # "closed" => NoGaps /\ InputIsOrdered /\ TypedInOrder

-------------------------------------------------------------------------------
(* What a terminal shows.  A number is a place in what the shell prints:   *)
(* whatever was posted under it begins where the numbers before it ended,  *)
(* also when a retry carries more.  So what is shown is in order when the  *)
(* numbers are (Placed), which they are as the cursor passes what it       *)
(* showed (Turns).                                                         *)

\* Polls that overlap ask from one cursor, and both show what they got.
OneScreen == MaxScreens <= 1

Flushing == flush["pump"] # NoFlush
AtMost(bytes, n) == \A i \in DOMAIN bytes : bytes[i] <= n
Prefix(bytes, others) == Len(bytes) <= Len(others) /\ \A i \in DOMAIN bytes : bytes[i] = others[i]

\* A chunk that is on its way, stored, listed or shown.
Carried(c) ==
    \/ c \in delayed \cup chunks
    \/ \E f \in Flusher : c = flush[f] /\ c # NoFlush
    \/ \E k \in 1..MaxScreens : c \in screens[k].rows
    \/ \E i \in DOMAIN screen : c = screen[i]

\* While the shell runs only the pump flushes, and bytes keep their order.
Piped ==
    /\ flush["last"] = NoFlush
    /\ Flushing => flush["pump"].seq = outSeq /\ Len(flush["pump"].bytes) <= MaxTake
    /\ Increasing(buffer) /\ Increasing(flush["pump"].bytes)
    /\ Before(flush["pump"].bytes, buffer)
    /\ AtMost(buffer, printed) /\ AtMost(flush["pump"].bytes, printed)

\* What is carried was taken before what waits, or is the start of it.
Taken == \A c : Carried(c) =>
    /\ Increasing(c.bytes) /\ AtMost(c.bytes, printed)
    /\ c.seq < outSeq => Before(c.bytes, buffer) /\ Before(c.bytes, flush["pump"].bytes)
    /\ c.seq = outSeq => IF Flushing THEN Prefix(c.bytes, flush["pump"].bytes)
                         ELSE Prefix(c.bytes, buffer) /\ Len(c.bytes) <= MaxTake

Placed == \A c, d : Carried(c) /\ Carried(d) /\ c.seq < d.seq => Before(c.bytes, d.bytes)

AgentInv ==
    /\ \A c : Carried(c) => c.seq <= outSeq
    /\ ~ended => Piped /\ Taken /\ Placed

OneRowEach(rows) == \A c, d \in rows : c.seq = d.seq => c = d

\* What holds of the window and the polls whether or not the shell runs.
ListsAreSound ==
    /\ PtyOutputTypeOK /\ IsFiniteSet(chunks)
    /\ \A k \in 1..MaxScreens : IsFiniteSet(screens[k].rows)
    /\ OneRowEach(chunks) /\ \A k \in 1..MaxScreens : OneRowEach(screens[k].rows)
    /\ \A k \in 1..MaxScreens : screens[k].pc \in {"idle", "asked"} => screens[k].rows = {}

\* Numbers go up on the screen, and what a poll brings comes after it.
Turns ==
    /\ \A i, j \in DOMAIN screen : i < j => screen[i].seq < screen[j].seq
    /\ \A i \in DOMAIN screen : screen[i].seq < cursorOut
    /\ \A k \in 1..MaxScreens : screens[k].pc # "idle" => screens[k].from = cursorOut
    /\ \A k \in 1..MaxScreens : \A c \in screens[k].rows :
        /\ c.seq >= cursorOut
        /\ screens[k].pc = "answered" => c.seq < screens[k].next
        /\ screens[k].pc # "answered" => \E d \in chunks : d.seq >= c.seq

ConsoleInv == ListsAreSound /\ (~mixedUp => Turns)

PtyOutputIInv == ConsoleInv /\ AgentInv

-------------------------------------------------------------------------------
(* Wakes.                                                                  *)

Holding == {"queue", "record", "broadcast", "mark"}

TickTyped ==
    /\ \A p \in Pass : tick[p].pc \in Holding => tick[p].request \in Request
    /\ \A p \in Pass : WakeAt(p, "record") => tick[p].command \in Command
    /\ \A p \in Pass : WakeAt(p, "reconcile") =>
        \A r \in tick[p].todo : tick[p].of[r] \in Command
    /\ \A c \in Command : status[c] = "unissued" <=> handed[c] = NoRequest

\* Where a request is named with a command, the command was made for it.
MadeFor(c, r) == c # NoCommand => handed[c] = r
RelaysAreTheirs ==
    /\ \A r \in Request : MadeFor(wake[r].command, r)
    /\ \A p \in Pass, r \in Request : MadeFor(tick[p].of[r], r)
    /\ \A p \in Pass : WakeAt(p, "record") => MadeFor(tick[p].command, tick[p].request)

\* A request that nobody made yet is nowhere.
NoneIsUntouched == \A r \in Request :
    /\ r \in asking => WakeIs(r, {"none"})
    /\ WakeIs(r, {"none"}) =>
        /\ r \notin sentFor /\ wake[r].command = NoCommand
        /\ \A c \in Command : handed[c] # r
        /\ \A p \in Pass : r \notin tick[p].todo
        /\ \A p \in Pass : tick[p].pc \in Holding => tick[p].request # r

\* Only a relay that took its command sends, and one that says so has.
SendersAreReal ==
    /\ \A c \in Command : c \in sentFor =>
        status[c] \in {"claimed", "done", "deleted"} /\ handed[c] \in sentFor
    /\ \A c \in Command : status[c] = "done" => c \in sentFor

\* What a pass is about to write of a packet is so.
PassesAreReal == \A p \in Pass :
    /\ WakeAt(p, "confirm") => tick[p].todo \subseteq sentFor
    /\ WakeAt(p, "mark") => tick[p].request \in sentFor

\* One pass at a time.
OneAtATime == \A p, q \in Pass : p = q \/ WakeAt(p, "idle") \/ WakeAt(q, "idle")

\* No relay has a live command for r, and no packet has left.
Quiet(r) == LiveWakes(r) = {} /\ r \notin sentFor

\* Only through c can a packet leave, or have left.
OnlyBy(c, r) == LiveWakes(r) \subseteq {c} /\ (r \in sentFor => c \in sentFor)

OneByOne ==
    /\ OneAtATime
    /\ \A r \in Request : \A c, d \in LiveWakes(r) : c = d
    /\ \A r \in Request : WakeIs(r, {"pending"}) => wake[r].command = NoCommand
    /\ \A r \in Request : WakeIs(r, {"pending", "cancelled"}) => Quiet(r)
    /\ \A r \in Request : WakeIs(r, {"relaying"}) /\ wake[r].command # NoCommand
                          => OnlyBy(wake[r].command, r)
    /\ \A p \in Pass : tick[p].pc \in {"queue", "record", "broadcast"} =>
        WakeIs(tick[p].request, {"relaying", "gone"})
    /\ \A p \in Pass : tick[p].pc \in {"queue", "broadcast"} =>
        /\ wake[tick[p].request].command = NoCommand
        /\ Quiet(tick[p].request)
    /\ \A p \in Pass : WakeAt(p, "record") => OnlyBy(tick[p].command, tick[p].request)
    /\ \A p \in Pass : WakeAt(p, "reconcile") => \A r \in tick[p].todo :
        \/ WakeIs(r, {"gone"})
        \/ WakeIs(r, {"relaying"}) /\ wake[r].command = tick[p].of[r]

WakeIInv ==
    /\ WakeTypeOK /\ TickTyped /\ RelaysAreTheirs /\ NoneIsUntouched
    /\ SendersAreReal /\ PassesAreReal /\ SentIsReal
    /\ ~overlapped => OneByOne

-------------------------------------------------------------------------------
(* Invites: the proof.                                                     *)

LEMMA NoVisitIsTyped ==
    NoVisit \in [pc : VisitPc, person : Person, used : Nat, inTime : BOOLEAN,
                 members : SUBSET Person]
<1>1. (CHOOSE p \in Person : TRUE) \in Person
  BY InviteAssumption
<1> QED
  BY <1>1 DEF NoVisit, VisitPc

LEMMA InviteTypes ==
    /\ InviteInit => InviteTypeOK
    /\ InviteTypeOK /\ [InviteNext]_inviteVars => InviteTypeOK'
<1>1. InviteInit => InviteTypeOK
  BY NoVisitIsTyped DEF InviteInit, InviteTypeOK
<1>2. ASSUME InviteTypeOK, [InviteNext]_inviteVars
      PROVE  InviteTypeOK'
  <2> USE <1>2, NoVisitIsTyped DEF InviteTypeOK, VisitPc
  <2>1. ASSUME NEW v \in Visit, NEW p \in Person, FollowLink(v, p)
        PROVE  InviteTypeOK'
    <3>1. [NoVisit EXCEPT !.pc = "look", !.person = p, !.used = invite.used,
               !.inTime = ~invite.expired]
          \in [pc : VisitPc, person : Person, used : Nat, inTime : BOOLEAN, members : SUBSET Person]
      OBVIOUS
    <3> QED
      BY <2>1, <3>1 DEF FollowLink
  <2>2. ASSUME NEW v \in Visit, LookUp(v)
        PROVE  InviteTypeOK'
    BY <2>2 DEF LookUp, VisitGoes
  <2>3. ASSUME NEW v \in Visit, ClaimSeat(v)
        PROVE  InviteTypeOK'
    BY <2>3 DEF ClaimSeat, VisitGoes, VisitLeaves
  <2>4. ASSUME NEW v \in Visit, RecordRedemption(v)
        PROVE  InviteTypeOK'
    BY <2>4 DEF RecordRedemption, VisitGoes
  <2>5. ASSUME NEW v \in Visit, ReadGroup(v)
        PROVE  InviteTypeOK'
    BY <2>5 DEF ReadGroup, VisitLeaves
  <2>6. ASSUME NEW v \in Visit, WriteGroup(v)
        PROVE  InviteTypeOK'
    BY <2>6 DEF WriteGroup, VisitLeaves
  <2>7. CASE HubStops
    BY <2>7 DEF HubStops
  <2>8. CASE RevokeInvite \/ DeleteInvite \/ InviteExpires
    BY <2>8 DEF RevokeInvite, DeleteInvite, InviteExpires
  <2>9. CASE DeleteGroup
    BY <2>9 DEF DeleteGroup
  <2>11. ASSUME NEW members \in SUBSET Person, SaveGroup(members)
         PROVE  InviteTypeOK'
    BY <2>11 DEF SaveGroup
  <2>10. CASE UNCHANGED inviteVars
    BY <2>10 DEF inviteVars
  <2> QED
    BY <2>1, <2>2, <2>3, <2>4, <2>5, <2>6, <2>7, <2>8, <2>9, <2>10, <2>11 DEF InviteNext
<1> QED
  BY <1>1, <1>2

(* Steps that take nobody in: no seat is used, nobody new is seated or     *)
(* records a seat.                                                         *)
Lets == /\ Seated' \subseteq Seated /\ Recording' \subseteq Recording
        /\ invite'.used = invite.used
        /\ invite'.there => invite.there /\ redeemed' = redeemed

LEMMA LetsKeep ==
    ASSUME InviteIInv, InviteTypeOK', Lets
    PROVE  (SeatsAreTaken /\ SeatsAreOnRecord)'
<1>1. IsFiniteSet(Seated) /\ IsFiniteSet(Recording)
  BY DEF InviteIInv, SeatsAreTaken
<1>2. /\ IsFiniteSet(Seated') /\ Cardinality(Seated') <= Cardinality(Seated)
      /\ IsFiniteSet(Recording') /\ Cardinality(Recording') <= Cardinality(Recording)
  BY <1>1, FS_Subset DEF Lets
<1>3. /\ Cardinality(Seated) \in Nat /\ Cardinality(Recording) \in Nat
      /\ Cardinality(Seated') \in Nat /\ Cardinality(Recording') \in Nat
      /\ invite.used \in Nat
  BY <1>1, <1>2, FS_CardinalityType DEF InviteIInv, InviteTypeOK
<1>4. SeatsAreTaken'
  BY <1>2, <1>3, InviteAssumption DEF InviteIInv, SeatsAreTaken, Lets
<1>5. SeatsAreOnRecord'
  BY DEF InviteIInv, SeatsAreOnRecord, Lets
<1> QED
  BY <1>4, <1>5

LEMMA MostStepsLetNobodyIn ==
    ASSUME InviteIInv,
           \/ \E v \in Visit : \/ \E p \in Person : FollowLink(v, p)
                               \/ LookUp(v) \/ ReadGroup(v) \/ WriteGroup(v)
           \/ HubStops \/ RevokeInvite \/ DeleteInvite \/ InviteExpires
           \/ DeleteGroup \/ \E members \in SUBSET Person : SaveGroup(members)
           \/ UNCHANGED inviteVars
    PROVE  Lets
<1> USE DEF InviteIInv, InviteTypeOK, VisitAt, VisitPc
<1>1. ASSUME NEW v \in Visit, NEW p \in Person, FollowLink(v, p)
      PROVE  Lets
  <2>1. /\ \A w \in Visit : w # v => visit'[w] = visit[w]
        /\ visit'[v].pc = "look"
    BY <1>1 DEF FollowLink, NoVisit
  <2> QED
    <3>1. UNCHANGED <<invite, redeemed, group, admitted>>
      BY <1>1 DEF FollowLink
    <3>2. Recording' \subseteq Recording /\ Arriving' \subseteq Arriving
      BY <2>1 DEF Recording, Arriving
    <3>3. \A w \in Arriving' : visit'[w].person = visit[w].person
      BY <2>1 DEF Arriving
    <3> QED
      BY <3>1, <3>2, <3>3 DEF Lets, Seated
<1>2. ASSUME NEW v \in Visit, LookUp(v)
      PROVE  Lets
  <2>1. /\ \A w \in Visit : visit'[w].person = visit[w].person
        /\ \A w \in Visit : w # v => visit'[w].pc = visit[w].pc
        /\ visit'[v].pc = IF visit[v].person \in redeemed THEN "read" ELSE "claim"
    BY <1>2 DEF LookUp, VisitGoes
  <2> QED
    BY <1>2, <2>1 DEF Lets, Seated, Recording, Arriving, LookUp
<1>3. ASSUME NEW v \in Visit, ReadGroup(v)
      PROVE  Lets
  <2>1. /\ \A w \in Visit : w # v => visit'[w] = visit[w]
        /\ visit'[v].pc = "away" \/ (visit[v].pc = "read" /\ visit'[v].pc = "write"
                                     /\ visit'[v].person = visit[v].person)
    BY <1>3 DEF ReadGroup, VisitLeaves, NoVisit
  <2> QED
    BY <1>3, <2>1 DEF Lets, Seated, Recording, Arriving, ReadGroup
<1>4. ASSUME NEW v \in Visit, WriteGroup(v)
      PROVE  Lets
  <2>1. /\ \A w \in Visit : w # v => visit'[w] = visit[w]
        /\ visit'[v].pc = "away" /\ visit[v].pc = "write"
    BY <1>4 DEF WriteGroup, VisitLeaves, NoVisit
  <2> QED
    BY <1>4, <2>1 DEF Lets, Seated, Recording, Arriving, WriteGroup
<1>5. CASE HubStops
  <2>1. \A w \in Visit : visit'[w].pc = "away"
    BY <1>5 DEF HubStops, NoVisit
  <2> QED
    BY <1>5, <2>1 DEF Lets, Seated, Recording, Arriving, HubStops
<1>6. CASE RevokeInvite
  BY <1>6 DEF Lets, Seated, Recording, Arriving, RevokeInvite
<1>7. CASE DeleteInvite
  BY <1>7 DEF Lets, Seated, Recording, Arriving, DeleteInvite
<1>8. CASE InviteExpires
  BY <1>8 DEF Lets, Seated, Recording, Arriving, InviteExpires
<1>9. CASE DeleteGroup \/ \E members \in SUBSET Person : SaveGroup(members)
  BY <1>9 DEF Lets, Seated, Recording, Arriving, DeleteGroup, SaveGroup
<1>10. CASE UNCHANGED inviteVars
  BY <1>10 DEF Lets, Seated, Recording, Arriving, inviteVars
<1> QED
  BY <1>1, <1>2, <1>3, <1>4, <1>5, <1>6, <1>7, <1>8, <1>9, <1>10

\* A seat is used before anything else is written of its person.
LEMMA SeatIsTaken ==
    ASSUME InviteIInv, InviteTypeOK', NEW v \in Visit, ClaimSeat(v)
    PROVE  (SeatsAreTaken /\ SeatsAreOnRecord)'
<1> USE DEF InviteIInv, InviteTypeOK, VisitAt, VisitPc
<1>1. CASE invite.there /\ ~invite.revoked /\ invite.used < MaxUses /\ visit[v].inTime
  <2>1. /\ \A w \in Visit : visit'[w].person = visit[w].person
        /\ \A w \in Visit : w # v => visit'[w].pc = visit[w].pc
        /\ visit'[v].pc = "record" /\ visit[v].pc = "claim"
    BY <1>1 DEF ClaimSeat, VisitGoes
  <2>8. /\ invite'.used = invite.used + 1 /\ invite'.there = invite.there
        /\ UNCHANGED <<redeemed, group, admitted>>
    BY <1>1 DEF ClaimSeat, VisitGoes
  <2>2. Seated' = Seated
    <3>1. Arriving' = Arriving
      BY <2>1 DEF Arriving
    <3> QED
      BY <2>1, <2>8, <3>1 DEF Seated, Arriving
  <2>3. Recording' = Recording \cup {v} /\ v \notin Recording
    BY <2>1 DEF Recording
  <2>4. IsFiniteSet(Recording') /\ Cardinality(Recording') = Cardinality(Recording) + 1
    BY <2>3, FS_AddElement DEF SeatsAreTaken
  <2>5. Cardinality(Seated) \in Nat /\ Cardinality(Recording) \in Nat
    BY FS_CardinalityType DEF SeatsAreTaken
  <2>6. SeatsAreTaken'
    BY <1>1, <2>8, <2>2, <2>4, <2>5, InviteAssumption DEF SeatsAreTaken
  <2>7. SeatsAreOnRecord'
    BY <2>8, <2>2 DEF SeatsAreOnRecord
  <2> QED
    BY <2>6, <2>7
<1>2. CASE ~(invite.there /\ ~invite.revoked /\ invite.used < MaxUses /\ visit[v].inTime)
  <2>1. /\ \A w \in Visit : w # v => visit'[w] = visit[w]
        /\ visit'[v].pc = "away" /\ visit[v].pc = "claim"
        /\ UNCHANGED <<invite, redeemed, group, admitted>>
    BY <1>2 DEF ClaimSeat, VisitLeaves, NoVisit
  <2>2. Lets
    BY <2>1 DEF Lets, Seated, Recording, Arriving
  <2> QED
    BY <2>2, LetsKeep
<1> QED
  BY <1>1, <1>2

\* The person of a recorded seat takes the place of the seat.
LEMMA SeatIsRecorded ==
    ASSUME InviteIInv, InviteTypeOK', NEW v \in Visit, RecordRedemption(v)
    PROVE  (SeatsAreTaken /\ SeatsAreOnRecord)'
<1> USE DEF InviteIInv, InviteTypeOK, VisitAt, VisitPc
<1>1. /\ \A w \in Visit : visit'[w].person = visit[w].person
      /\ \A w \in Visit : w # v => visit'[w].pc = visit[w].pc
      /\ visit'[v].pc = "read" /\ visit[v].pc = "record"
      /\ redeemed' = redeemed \cup {visit[v].person}
      /\ UNCHANGED <<invite, group, admitted>>
  BY DEF RecordRedemption, VisitGoes
<1>2. Seated' = Seated \cup {visit[v].person}
  BY <1>1 DEF Seated, Arriving
<1>3. Recording' = Recording \ {v} /\ v \in Recording
  BY <1>1 DEF Recording
<1>4. IsFiniteSet(Recording') /\ Cardinality(Recording') = Cardinality(Recording) - 1
  BY <1>3, FS_RemoveElement DEF SeatsAreTaken
<1>5. IsFiniteSet(Seated') /\ Cardinality(Seated') <= Cardinality(Seated) + 1
  <2> DEFINE before == Seated
  <2>1. IsFiniteSet(before)
    BY DEF SeatsAreTaken
  <2> HIDE DEF before
  <2>2. Cardinality(before) \in Nat
    BY <2>1, FS_CardinalityType
  <2>3. \A p : /\ IsFiniteSet(before \cup {p})
               /\ Cardinality(before \cup {p}) <= Cardinality(before) + 1
    <3> TAKE p
    <3>1. /\ IsFiniteSet(before \cup {p})
          /\ Cardinality(before \cup {p}) = IF p \in before THEN Cardinality(before)
                                                           ELSE Cardinality(before) + 1
      BY <2>1, FS_AddElement
    <3> QED
      BY <2>2, <3>1
  <2> QED
    BY <1>2, <2>3 DEF before
<1>6. /\ Cardinality(Seated) \in Nat /\ Cardinality(Recording) \in Nat
      /\ Cardinality(Seated') \in Nat
  BY <1>5, FS_CardinalityType DEF SeatsAreTaken
<1>7. SeatsAreTaken'
  BY <1>1, <1>4, <1>5, <1>6, InviteAssumption DEF SeatsAreTaken
<1>8. SeatsAreOnRecord'
  BY <1>1, <1>2 DEF SeatsAreOnRecord
<1> QED
  BY <1>7, <1>8

(* No more persons than seats ever come in by an invite, and none that its *)
(* count of used seats does not know of; as long as the invite is there    *)
(* everybody who came in is on record (invites.redeem, revoke_invite).     *)
THEOREM InviteSafety == InviteSpec => []InviteInv
<1>1. InviteInit => InviteIInv
  <2> SUFFICES ASSUME InviteInit PROVE InviteIInv
    OBVIOUS
  <2>1. InviteTypeOK
    BY InviteTypes
  <2>2. Seated = {} /\ Recording = {}
    BY DEF InviteInit, Seated, Arriving, Recording, VisitAt, NoVisit
  <2>3. invite.used = 0
    BY DEF InviteInit
  <2>4. SeatsAreTaken
    BY <2>2, <2>3, FS_EmptySet, InviteAssumption DEF SeatsAreTaken
  <2> QED
    BY <2>1, <2>2, <2>4 DEF InviteIInv, SeatsAreOnRecord
<1>2. InviteIInv /\ [InviteNext]_inviteVars => InviteIInv'
  <2> SUFFICES ASSUME InviteIInv, [InviteNext]_inviteVars PROVE InviteIInv'
    OBVIOUS
  <2>1. InviteTypeOK'
    BY InviteTypes DEF InviteIInv
  <2>2. ASSUME NEW v \in Visit, ClaimSeat(v)
        PROVE  (SeatsAreTaken /\ SeatsAreOnRecord)'
    BY <2>1, <2>2, SeatIsTaken
  <2>3. ASSUME NEW v \in Visit, RecordRedemption(v)
        PROVE  (SeatsAreTaken /\ SeatsAreOnRecord)'
    BY <2>1, <2>3, SeatIsRecorded
  <2>4. ASSUME Lets
        PROVE  (SeatsAreTaken /\ SeatsAreOnRecord)'
    BY <2>1, <2>4, LetsKeep
  <2> QED
    BY <2>1, <2>2, <2>3, <2>4, MostStepsLetNobodyIn DEF InviteNext, InviteIInv
<1>3. InviteIInv => InviteInv
  <2> SUFFICES ASSUME InviteIInv PROVE InviteInv
    OBVIOUS
  <2>1. IsFiniteSet(Seated) /\ admitted \subseteq Seated /\ redeemed \subseteq Seated
    BY DEF InviteIInv, SeatsAreTaken, Seated
  <2>2. /\ Cardinality(admitted) <= Cardinality(Seated)
        /\ Cardinality(redeemed) <= Cardinality(Seated)
        /\ IsFiniteSet(admitted) /\ IsFiniteSet(redeemed)
    BY <2>1, FS_Subset
  <2>3. /\ Cardinality(admitted) \in Nat /\ Cardinality(redeemed) \in Nat
        /\ Cardinality(Seated) \in Nat /\ Cardinality(Recording) \in Nat
        /\ invite.used \in Nat
    BY <2>1, <2>2, FS_CardinalityType DEF InviteIInv, SeatsAreTaken, InviteTypeOK
  <2>4. SeatsHold
    BY <2>2, <2>3 DEF SeatsHold, InviteIInv, SeatsAreTaken
  <2>5. ArrivalsAreOnRecord
    BY <2>1 DEF ArrivalsAreOnRecord, InviteIInv, SeatsAreOnRecord
  <2> QED
    BY <2>4, <2>5 DEF InviteInv, InviteIInv
<1> QED
  BY <1>1, <1>2, <1>3, PTL DEF InviteSpec

-------------------------------------------------------------------------------
(* Terminal input: the proof.                                              *)

\* Every set of numbers that is not empty has a least one.
LEMMA LeastNumber ==
    ASSUME NEW S \in SUBSET Nat, S # {}
    PROVE  \E n \in S : \A k \in S : n <= k
<1>1. PICK n \in S : \A k \in S : ~ (<<k, n>> \in OpToRel(<, Nat))
  BY NatLessThanWellFounded, WFMin
<1>2. \A k \in Nat : k < n => <<k, n>> \in OpToRel(<, Nat)
  BY Zenon DEF OpToRel
<1>3. \A k \in S : ~(k < n)
  BY <1>1, <1>2
<1> QED
  BY <1>3

\* The highest number of some rows.
LEMMA HighestRow ==
    ASSUME NEW items \in SUBSET Batches, items # {}
    PROVE  \E n \in Seqs : (\E q \in items : q.seq = n) /\ (\A q \in items : q.seq <= n)
<1> DEFINE U == {n \in Nat : \A q \in items : q.seq <= n}
<1>1. \A q \in items : q.seq \in Seqs
  BY DEF Batches
<1>2. MaxTyped \in U
  BY <1>1, PtyInputAssumption DEF Seqs
<1>3. PICK n \in U : \A k \in U : n <= k
  BY <1>2, LeastNumber
<1>4. \E q \in items : q.seq = n
  <2> SUFFICES ASSUME \A q \in items : q.seq # n PROVE FALSE
    OBVIOUS
  <2>1. \A q \in items : q.seq <= n - 1
    BY <1>1, <1>3, PtyInputAssumption DEF Seqs
  <2>2. n - 1 \in Nat
    BY <1>1, <1>3, <2>1, PtyInputAssumption DEF Seqs
  <2> QED
    BY <1>3, <2>1, <2>2
<1> QED
  BY <1>1, <1>3, <1>4

\* Each row has a place of its own, and each place a row.
LEMMA PlacesAreTaken ==
    ASSUME NEW items, IsFiniteSet(items), \A q \in items : q.seq \in Nat,
           \A q, r \in items : q.seq = r.seq => q = r
    PROVE  /\ Cardinality(items) \in Nat
           /\ \A q, r \in items : q.seq < r.seq => Place(items, q.seq) < Place(items, r.seq)
           /\ \A i \in 1..Cardinality(items) : \E q \in items : Place(items, q.seq) = i
<1> DEFINE n == Cardinality(items)
           UpTo(q) == {r \in items : r.seq <= q.seq}
           place == [q \in items |-> Place(items, q.seq)]
<1>1. n \in Nat
  BY FS_CardinalityType
<1>2. \A q \in items : q.seq \in Nat
  OBVIOUS
<1>3. \A q \in items : Place(items, q.seq) = Cardinality(UpTo(q))
  BY DEF Place
<1>4. \A q \in items : IsFiniteSet(UpTo(q)) /\ Cardinality(UpTo(q)) \in 1..n
  <2> TAKE q \in items
  <2>1. UpTo(q) \in SUBSET items /\ UpTo(q) # {}
    BY <1>2
  <2> HIDE DEF UpTo
  <2>2. IsFiniteSet(UpTo(q)) /\ Cardinality(UpTo(q)) <= n
    BY <2>1, FS_Subset
  <2>3. Cardinality(UpTo(q)) \in Nat /\ Cardinality(UpTo(q)) # 0
    BY <2>1, <2>2, FS_CardinalityType, FS_EmptySet
  <2> QED
    BY <1>1, <2>2, <2>3
<1>5. ASSUME NEW q \in items, NEW r \in items, q.seq < r.seq
      PROVE  Place(items, q.seq) < Place(items, r.seq)
  <2>1. UpTo(q) \in SUBSET UpTo(r) /\ r \in UpTo(r) /\ r \notin UpTo(q)
    BY <1>2, <1>5
  <2>2. IsFiniteSet(UpTo(r)) /\ IsFiniteSet(UpTo(q))
    BY <1>4
  <2> HIDE DEF UpTo, n
  <2>3. Cardinality(UpTo(q)) \in Nat /\ Cardinality(UpTo(r)) \in Nat
    BY <1>1, <1>4
  <2>4. /\ Cardinality(UpTo(q)) <= Cardinality(UpTo(r))
        /\ Cardinality(UpTo(r)) = Cardinality(UpTo(q)) => UpTo(r) = UpTo(q)
    BY <2>1, <2>2, FS_Subset
  <2> QED
    BY <1>3, <2>1, <2>3, <2>4
<1>6. place \in Injection(items, 1..n)
  <2>1. place \in [items -> 1..n]
    BY <1>3, <1>4
  <2>2. ASSUME NEW q \in items, NEW r \in items, place[q] = place[r]
        PROVE  q = r
    <3>1. Place(items, q.seq) = Place(items, r.seq)
      BY <2>2
    <3>2. Place(items, q.seq) \in Nat
      <4> HIDE DEF UpTo
      <4> QED
        BY <1>1, <1>3, <1>4
    <3>3. ~(q.seq < r.seq) /\ ~(r.seq < q.seq)
      BY <1>5, <3>1, <3>2
    <3> QED
      BY <1>2, <3>3
  <2> QED
    BY <2>1, <2>2 DEF Injection, IsInjective
<1>7. IsFiniteSet(1..n) /\ Cardinality(1..n) = n
  BY <1>1, FS_Interval
<1> HIDE DEF place
<1>8. place \in Surjection(items, 1..n)
  BY <1>6, <1>7, FS_Injection
<1>9. \A i \in 1..n : \E q \in items : place[q] = i
  BY <1>8 DEF Surjection
<1> USE DEF place
<1> QED
  BY <1>1, <1>5, <1>9

\* A function on 1..k is a sequence.
LEMMA FunctionsAreSequences ==
    ASSUME NEW S, NEW k \in Nat, NEW s, s \in [1..k -> S]
    PROVE  s \in Seq(S)
  BY SeqDef

\* What InOrder lists: a batch of the items each, in the order of their numbers.
LEMMA InOrderLists ==
    ASSUME NEW items \in SUBSET Batches, IsFiniteSet(items),
           \A q, r \in items : q.seq = r.seq => q = r
    PROVE  /\ InOrder(items) \in Seq(1..MaxTyped)
           /\ \A i \in DOMAIN InOrder(items) : \E q \in items : InOrder(items)[i] = q.batch
           /\ Ordered(items) => \A i, j \in DOMAIN InOrder(items) :
                i < j => InOrder(items)[i] < InOrder(items)[j]
<1> DEFINE n == Cardinality(items)
           chosen(i) == CHOOSE q \in items : Place(items, q.seq) = i
           s == InOrder(items)
<1>1. /\ n \in Nat
      /\ \A q, r \in items : q.seq < r.seq => Place(items, q.seq) < Place(items, r.seq)
      /\ \A i \in 1..n : \E q \in items : Place(items, q.seq) = i
  <2>1. \A q \in items : q.seq \in Nat
    BY PtyInputAssumption DEF Batches, Seqs
  <2> QED
    BY <2>1, PlacesAreTaken
<1>2. \A i \in 1..n : chosen(i) \in items /\ Place(items, chosen(i).seq) = i
  BY <1>1
<1>3. s = [i \in 1..n |-> chosen(i).batch]
  BY DEF InOrder
<1> HIDE DEF chosen, n, s
<1>4. \A q \in items : q.batch \in 1..MaxTyped /\ q.seq \in Nat
  BY PtyInputAssumption DEF Batches, Seqs
<1>5. s \in [1..n -> 1..MaxTyped] /\ DOMAIN s = 1..n
  BY <1>2, <1>3, <1>4
<1>6. s \in Seq(1..MaxTyped)
  BY <1>1, <1>5, FunctionsAreSequences
<1>7. ASSUME Ordered(items), NEW i \in 1..n, NEW j \in 1..n, i < j
      PROVE  s[i] < s[j]
  <2>1. chosen(i) \in items /\ chosen(j) \in items
    BY <1>2
  <2>2. chosen(i).seq # chosen(j).seq
    BY <1>1, <1>2, <1>7
  <2>3. ~(chosen(j).seq < chosen(i).seq)
    BY <1>1, <1>2, <1>7, <2>1
  <2>4. chosen(i).seq < chosen(j).seq
    BY <1>4, <2>1, <2>2, <2>3
  <2>5. chosen(i).batch < chosen(j).batch
    BY <1>7, <2>1, <2>4 DEF Ordered
  <2> QED
    BY <1>3, <2>5
<1>8. \A i \in DOMAIN s : \E q \in items : s[i] = q.batch
  BY <1>2, <1>3, <1>5
<1> USE DEF s
<1> QED
  BY <1>5, <1>6, <1>7, <1>8

LEMMA PostInputKeeps ==
    ASSUME PtyInputIInv, NEW t \in Tab, PostInput(t)
    PROVE  PtyInputIInv'
<1> USE PtyInputAssumption DEF PtyInputIInv, PostInput
<1>1. /\ posting' = [posting EXCEPT ![t] = nextIn]
      /\ \A u \in Tab : posting'[u] = IF u = t THEN nextIn ELSE posting[u]
  BY DEF PtyInputTypeOK
<1>2. PtyInputTypeOK'
  BY <1>1 DEF PtyInputTypeOK, Seqs
<1>3. NumbersFollow'
  BY <1>1 DEF NumbersFollow, Rows
<1>4. ASSUME NoGaps PROVE NoGaps'
  BY <1>1, <1>4 DEF NoGaps, NoGap
<1>5. ASSUME InputIsOrdered PROVE InputIsOrdered'
  BY <1>5 DEF InputIsOrdered, Ordered, Deliverable
<1>6. ASSUME TypedInOrder PROVE TypedInOrder'
  BY <1>6 DEF TypedInOrder
<1> QED
  BY <1>2, <1>3, <1>4, <1>5, <1>6

LEMMA StoreInputKeeps ==
    ASSUME PtyInputIInv, NEW t \in Tab, StoreInput(t)
    PROVE  PtyInputIInv'
<1> USE PtyInputAssumption DEF PtyInputIInv
<1>4. PICK s : s = posting[t]
  OBVIOUS
<1> DEFINE new == [seq |-> s, batch |-> accepted + 1]
<1>1. /\ s # NotPosting /\ s \in Seqs /\ s <= accepted /\ accepted < MaxTyped
      /\ accepted \in Nat
      /\ \A u \in Tab : posting'[u] = IF u = t THEN NotPosting ELSE posting[u]
      /\ posting' \in [Tab -> Seqs \cup {NotPosting}]
      /\ UNCHANGED <<session, pull, cursorIn, typed>>
  BY <1>4 DEF StoreInput, PtyInputTypeOK, NumbersFollow, Seqs
<1>2. CASE \E q \in queued : q.seq = s
  <2>1. UNCHANGED <<nextIn, queued, accepted>>
    BY <1>2, <1>4 DEF StoreInput
  <2>2. PtyInputTypeOK'
    BY <1>1, <2>1 DEF PtyInputTypeOK
  <2>3. NumbersFollow'
    BY <1>1, <2>1 DEF NumbersFollow, Rows
  <2>4. ASSUME NoGaps PROVE NoGaps'
    BY <1>1, <2>1, <2>4 DEF NoGaps, NoGap
  <2>5. ASSUME InputIsOrdered PROVE InputIsOrdered'
    BY <1>1, <2>1, <2>5 DEF InputIsOrdered, Ordered, Deliverable
  <2>6. ASSUME TypedInOrder PROVE TypedInOrder'
    BY <1>1, <2>6 DEF TypedInOrder
  <2> QED
    BY <1>1, <2>2, <2>3, <2>4, <2>5, <2>6
<1>3. CASE \A q \in queued : q.seq # s
  <2>1. nextIn' = s + 1 /\ accepted' = accepted + 1 /\ queued' = queued \cup {new}
    BY <1>3, <1>4 DEF StoreInput
  <2>2. new \in Batches /\ s \in Nat /\ new.seq = s /\ new.batch = accepted + 1
    BY <1>1 DEF Batches, Seqs
  <2>3. PtyInputTypeOK'
    BY <1>1, <2>1, <2>2 DEF PtyInputTypeOK, Seqs
  <2>4. \A q \in queued \cup pull.items : /\ q.seq \in Nat /\ q.batch \in Nat
                                          /\ q.seq < accepted /\ q.batch <= accepted
    BY DEF NumbersFollow, Rows, Batches, Seqs
  <2>5. Rows(queued)'
    <3>1. IsFiniteSet(queued \cup {new})
      BY FS_AddElement DEF NumbersFollow, Rows
    <3>2. \A q, r \in queued \cup {new} : q.seq = r.seq => q = r
      BY <1>3, <2>2 DEF NumbersFollow, Rows
    <3>3. \A q \in queued \cup {new} : q.seq < accepted + 1 /\ q.batch <= accepted + 1
      BY <1>1, <2>2, <2>4
    <3> QED
      BY <2>1, <2>2, <3>1, <3>2, <3>3 DEF NumbersFollow, Rows
  <2>6. Rows(pull.items)'
    BY <1>1, <2>1, <2>4 DEF NumbersFollow, Rows
  <2>7. \A i \in DOMAIN typed : typed[i] <= accepted /\ typed[i] \in Nat
    BY DEF NumbersFollow, PtyInputTypeOK
  <2>8. NumbersFollow'
    <3>1. /\ nextIn' <= accepted' /\ cursorIn' <= accepted'
          /\ pull'.pc = "asked" => pull'.next = cursorIn'
      BY <1>1, <2>1 DEF NumbersFollow, PtyInputTypeOK, Seqs
    <3>2. \A u \in Tab : posting'[u] # NotPosting => posting'[u] <= accepted'
      BY <1>1, <2>1 DEF NumbersFollow, PtyInputTypeOK, Seqs
    <3>3. pull'.pc = "answered" => cursorIn' <= pull'.next /\ pull'.next <= accepted'
      BY <1>1, <2>1 DEF NumbersFollow, PtyInputTypeOK, Seqs
    <3>4. \A i \in DOMAIN typed' : typed'[i] <= accepted'
      BY <1>1, <2>1, <2>7
    <3> QED
      BY <2>5, <2>6, <3>1, <3>2, <3>3, <3>4 DEF NumbersFollow
  <2>9. ASSUME NoGaps PROVE NoGaps'
    <3> DEFINE NoGapNext(n) ==
            \A i \in Seqs : cursorIn' <= i /\ i < n => \E q \in queued' : q.seq = i
    <3>1. \A n : NoGap(n) => NoGapNext(n)
      BY <1>1, <2>1 DEF NoGap
    <3>2. NoGapNext(s) /\ NoGapNext(s + 1)
      <4>1. NoGap(s)
        BY <1>1, <1>4, <2>9 DEF NoGaps
      <4>2. new \in queued' /\ new.seq = s /\ cursorIn' = cursorIn
        BY <1>1, <2>1, <2>2
      <4>3. \A n \in Seqs : n < s + 1 => n < s \/ n = s
        BY <2>2 DEF Seqs
      <4> QED
        BY <3>1, <4>1, <4>2, <4>3
    <3> HIDE DEF NoGapNext
    <3>3. \A u \in Tab : posting'[u] # NotPosting => NoGapNext(posting'[u])
      BY <1>1, <2>9, <3>1 DEF NoGaps
    <3>4. \A q \in queued' : NoGapNext(q.seq)
      BY <2>1, <2>2, <2>9, <3>1, <3>2 DEF NoGaps
    <3>5. pull'.pc = "answered" => NoGapNext(pull'.next)
      BY <1>1, <2>9, <3>1 DEF NoGaps
    <3> USE DEF NoGapNext
    <3> QED
      BY <2>1, <3>2, <3>3, <3>4, <3>5 DEF NoGaps, NoGap
  <2>10. ASSUME NoGaps, InputIsOrdered PROVE InputIsOrdered'
    <3>1. Deliverable' \subseteq Deliverable \cup {new}
      BY <1>1, <2>1 DEF Deliverable
    <3>2. s >= cursorIn => \A q \in queued : q.seq < s
      <4> SUFFICES ASSUME s >= cursorIn, NEW q \in queued, ~(q.seq < s)
                   PROVE  FALSE
        OBVIOUS
      <4>1. s < q.seq
        BY <1>3, <2>2, <2>4
      <4> QED
        BY <1>1, <1>3, <2>10, <4>1 DEF NoGaps, NoGap
    <3>3. Ordered(Deliverable)'
      <4> SUFFICES ASSUME NEW q \in Deliverable', NEW r \in Deliverable', q.seq < r.seq
                   PROVE  q.batch < r.batch
        BY DEF Ordered
      <4>1. q.seq >= cursorIn /\ r.seq >= cursorIn
        BY <1>1 DEF Deliverable
      <4>2. q \in queued \cup {new} /\ r \in queued \cup {new}
        BY <2>1 DEF Deliverable
      <4>3. CASE q \in queued /\ r \in queued
        BY <2>10, <4>1, <4>3 DEF InputIsOrdered, Ordered, Deliverable
      <4>4. CASE r = new /\ q \in queued
        BY <1>1, <2>2, <2>4, <4>4
      <4>5. CASE q = new
        BY <2>2, <2>4, <3>2, <4>1, <4>2, <4>5
      <4> QED
        BY <4>2, <4>3, <4>4, <4>5
    <3>4. \A i \in DOMAIN typed : \A q \in Deliverable' : typed[i] < q.batch
      BY <1>1, <2>2, <2>7, <2>10, <3>1 DEF InputIsOrdered
    <3>5. ASSUME pull.pc = "answered"
          PROVE  /\ Ordered(pull.items)
                 /\ \A q \in pull.items :
                      /\ q.seq < pull.next
                      /\ \A i \in DOMAIN typed : typed[i] < q.batch
                      /\ \A r \in queued' : r.seq >= pull.next => q.batch < r.batch
      BY <1>1, <2>1, <2>2, <2>4, <2>10, <3>5 DEF InputIsOrdered
    <3> QED
      BY <1>1, <3>3, <3>4, <3>5 DEF InputIsOrdered, Ordered
  <2>11. ASSUME TypedInOrder PROVE TypedInOrder'
    BY <1>1, <2>11 DEF TypedInOrder
  <2> QED
    BY <1>1, <2>3, <2>8, <2>9, <2>10, <2>11
<1> QED
  BY <1>2, <1>3

LEMMA PollKeeps ==
    ASSUME PtyInputIInv, Poll \/ PollLost \/ SessionOver \/ RequestClose \/ CloseSession
    PROVE  PtyInputIInv'
<1> USE DEF PtyInputIInv
<1>1. CASE Poll \/ PollLost \/ SessionOver
  <2>1. /\ UNCHANGED <<session, nextIn, queued, posting, accepted, cursorIn, typed>>
        /\ pull'.pc # "answered" /\ pull'.items = {}
        /\ pull'.pc = "asked" => pull'.next = cursorIn
    <3>1. CASE Poll
      BY <3>1 DEF Poll, NoPull
    <3>2. CASE PollLost
      BY <3>2 DEF PollLost, NoPull
    <3>3. CASE SessionOver
      BY <3>3 DEF SessionOver, NoPull
    <3> QED
      BY <1>1, <3>1, <3>2, <3>3
  <2>2. pull' \in [pc : {"idle", "asked", "answered", "over"}, next : Seqs,
                   items : SUBSET Batches, closing : BOOLEAN]
    <3>1. 0 \in Seqs /\ cursorIn \in Seqs
      BY PtyInputAssumption DEF PtyInputTypeOK, Seqs
    <3>2. CASE Poll
      <4>1. pull' = [pc |-> "asked", next |-> cursorIn, items |-> {}, closing |-> FALSE]
        BY <3>2 DEF Poll, NoPull
      <4> QED
        BY <3>1, <4>1
    <3>3. CASE PollLost
      BY <3>1, <3>3 DEF PollLost, NoPull
    <3>4. CASE SessionOver
      <4>1. pull' = [pc |-> "over", next |-> 0, items |-> {}, closing |-> FALSE]
        BY <3>4 DEF SessionOver, NoPull
      <4> QED
        BY <3>1, <4>1
    <3> QED
      BY <1>1, <3>2, <3>3, <3>4
  <2>3. PtyInputTypeOK'
    BY <2>1, <2>2 DEF PtyInputTypeOK
  <2>4. Rows(pull.items)'
    BY <2>1, FS_EmptySet DEF Rows
  <2>5. NumbersFollow'
    BY <2>1, <2>4 DEF NumbersFollow, Rows
  <2>6. ASSUME NoGaps, InputIsOrdered, TypedInOrder
        PROVE  NoGaps' /\ InputIsOrdered' /\ TypedInOrder'
    BY <2>1, <2>6 DEF NoGaps, NoGap, InputIsOrdered, Ordered, Deliverable, TypedInOrder
  <2> QED
    BY <2>1, <2>3, <2>5, <2>6
<1>2. CASE RequestClose
  <2>1. UNCHANGED <<nextIn, queued, posting, accepted, pull, cursorIn, typed>>
        /\ session # "closed" /\ session' = "closing"
    BY <1>2 DEF RequestClose
  <2>2. PtyInputTypeOK' /\ NumbersFollow'
    BY <2>1 DEF PtyInputTypeOK, NumbersFollow, Rows
  <2>3. NoGaps' /\ InputIsOrdered' /\ TypedInOrder'
    BY <2>1 DEF NoGaps, NoGap, InputIsOrdered, Ordered, Deliverable, TypedInOrder
  <2> QED
    BY <2>1, <2>2, <2>3
<1>3. CASE CloseSession
  <2>1. UNCHANGED <<nextIn, posting, accepted, pull, cursorIn, typed>>
        /\ session' = "closed" /\ queued' = {}
    BY <1>3 DEF CloseSession
  <2>2. PtyInputTypeOK'
    BY <2>1 DEF PtyInputTypeOK
  <2>3. Rows(queued)'
    BY <2>1, FS_EmptySet DEF Rows
  <2>4. NumbersFollow'
    BY <2>1, <2>3 DEF NumbersFollow, Rows
  <2> QED
    BY <2>1, <2>2, <2>4
<1> QED
  BY <1>1, <1>2, <1>3

LEMMA PullInputKeeps ==
    ASSUME PtyInputIInv, PullInput
    PROVE  PtyInputIInv'
<1> USE DEF PtyInputIInv
<1> DEFINE items == {q \in queued : q.seq >= pull.next}
           high == CHOOSE n \in Seqs : /\ \E q \in items : q.seq = n
                                       /\ \A q \in items : q.seq <= n
<1>1. /\ pull.pc = "asked" /\ pull.next = cursorIn /\ queued' = items
      /\ UNCHANGED <<session, nextIn, posting, accepted, cursorIn, typed>>
  BY DEF PullInput, NumbersFollow
<1>2. pull' = [pull EXCEPT !.pc = "answered", !.items = items, !.closing = session # "live",
                           !.next = IF items = {} THEN @ ELSE 1 + high]
  BY DEF PullInput
<1>3. /\ \A q \in queued : q.seq \in Nat /\ q.batch \in Nat /\ q.seq < accepted
      /\ items \in SUBSET Batches /\ items \subseteq queued
      /\ cursorIn \in Seqs /\ cursorIn \in Nat /\ accepted \in Nat /\ accepted <= MaxTyped
      /\ cursorIn <= accepted
  BY PtyInputAssumption DEF NumbersFollow, Rows, Batches, Seqs, PtyInputTypeOK
<1>4. items # {} => /\ high \in Seqs /\ \E q \in items : q.seq = high
                    /\ \A q \in items : q.seq <= high
  BY <1>3, HighestRow
<1> HIDE DEF high, items
<1>5. /\ pull'.pc = "answered" /\ pull'.items = items
      /\ pull'.next = IF items = {} THEN cursorIn ELSE 1 + high
      /\ pull'.closing \in BOOLEAN
  BY <1>1, <1>2 DEF PtyInputTypeOK
<1>6. /\ cursorIn <= pull'.next /\ pull'.next <= accepted /\ pull'.next \in Seqs
      /\ \A q \in items : q.seq < pull'.next /\ q.seq >= cursorIn
  <2>1. CASE items = {}
    BY <1>3, <1>5, <2>1
  <2>2. CASE items # {}
    <3>1. PICK q \in items : q.seq = high
      BY <1>4, <2>2
    <3>2. q.seq \in Nat /\ q.seq < accepted /\ q.seq >= cursorIn
      BY <1>1, <1>3 DEF items
    <3>3. \A r \in items : r.seq \in Nat /\ r.seq >= cursorIn
      BY <1>1, <1>3 DEF items
    <3> QED
      BY <1>3, <1>4, <1>5, <2>2, <3>1, <3>2, <3>3, PtyInputAssumption DEF Seqs
  <2> QED
    BY <2>1, <2>2
<1>7. PtyInputTypeOK'
  <2>1. pull' \in [pc : {"idle", "asked", "answered", "over"}, next : Seqs,
                   items : SUBSET Batches, closing : BOOLEAN]
    <3>1. pull' = [pc |-> "answered", next |-> IF items = {} THEN cursorIn ELSE 1 + high,
                   items |-> items, closing |-> (session # "live")]
      BY <1>1, <1>2 DEF PtyInputTypeOK
    <3>2. (IF items = {} THEN cursorIn ELSE 1 + high) \in Seqs
      BY <1>5, <1>6
    <3> QED
      BY <1>3, <3>1, <3>2
  <2> QED
    BY <1>1, <1>3, <2>1 DEF PtyInputTypeOK
<1>8. Rows(items)
  BY <1>3, FS_Subset DEF NumbersFollow, Rows
<1>9. NumbersFollow'
  BY <1>1, <1>5, <1>6, <1>8 DEF NumbersFollow, Rows
<1>10. ASSUME NoGaps PROVE NoGaps'
  <2> DEFINE NoGapNext(n) ==
          \A i \in Seqs : cursorIn' <= i /\ i < n => \E q \in queued' : q.seq = i
  <2>1. \A n : NoGap(n) => NoGapNext(n)
    <3> SUFFICES ASSUME NEW n, NoGap(n), NEW i \in Seqs, cursorIn <= i, i < n
                 PROVE  \E q \in items : q.seq = i
      BY <1>1
    <3>1. PICK q \in queued : q.seq = i
      BY DEF NoGap
    <3>2. q \in items
      BY <1>1, <1>3, <3>1 DEF items
    <3> QED
      BY <3>1, <3>2
  <2>2. NoGapNext(pull'.next)
    <3>1. CASE items = {}
      BY <1>1, <1>3, <1>5, <3>1, PtyInputAssumption DEF Seqs
    <3>2. CASE items # {}
      <4>1. PICK q \in items : q.seq = high
        BY <1>4, <3>2
      <4>2. NoGapNext(q.seq)
        BY <1>3, <1>10, <2>1, <4>1 DEF NoGaps
      <4>3. \A i \in Seqs : i < 1 + high => i < high \/ i = high
        BY <1>4, <3>2, PtyInputAssumption DEF Seqs
      <4>4. q \in queued' /\ pull'.next = 1 + high
        BY <1>1, <1>5, <3>2
      <4> QED
        BY <4>1, <4>2, <4>3, <4>4
    <3> QED
      BY <3>1, <3>2
  <2> HIDE DEF NoGapNext
  <2>3. /\ NoGapNext(nextIn')
        /\ \A t \in Tab : posting'[t] # NotPosting => NoGapNext(posting'[t])
        /\ \A q \in queued' : NoGapNext(q.seq)
    BY <1>1, <1>3, <1>10, <2>1 DEF NoGaps
  <2> USE DEF NoGapNext
  <2> QED
    BY <2>2, <2>3 DEF NoGaps, NoGap
<1>11. ASSUME InputIsOrdered PROVE InputIsOrdered'
  <2>1. Deliverable' = items /\ Deliverable = items
    BY <1>1, <1>3 DEF Deliverable, items
  <2>2. Ordered(items) /\ \A i \in DOMAIN typed : \A q \in items : typed[i] < q.batch
    BY <1>11, <2>1 DEF InputIsOrdered
  <2>3. \A q \in items : \A r \in queued' : ~(r.seq >= pull'.next)
    <3>1. \A r \in items : r.seq \in Nat
      BY <1>3
    <3> QED
      BY <1>1, <1>6, <3>1, PtyInputAssumption DEF Seqs
  <2> QED
    BY <1>1, <1>5, <1>6, <2>1, <2>2, <2>3 DEF InputIsOrdered, Ordered
<1>12. ASSUME TypedInOrder PROVE TypedInOrder'
  BY <1>1, <1>12 DEF TypedInOrder
<1> QED
  BY <1>1, <1>7, <1>9, <1>10, <1>11, <1>12

LEMMA HearInputKeeps ==
    ASSUME PtyInputIInv, HearInput
    PROVE  PtyInputIInv'
<1> USE DEF PtyInputIInv
<1>1. /\ pull.pc = "answered" /\ typed' = typed \o InOrder(pull.items) /\ cursorIn' = pull.next
      /\ UNCHANGED <<session, nextIn, queued, posting, accepted>>
      /\ cursorIn <= pull.next /\ pull.next <= accepted /\ pull.next \in Seqs
  BY DEF HearInput, NumbersFollow, PtyInputTypeOK
<1>2. /\ pull'.pc \in {"idle", "over"} /\ pull'.items = {}
      /\ pull' \in [pc : {"idle", "asked", "answered", "over"}, next : Seqs,
                    items : SUBSET Batches, closing : BOOLEAN]
  <2>1. pull' = [pc |-> IF pull.closing THEN "over" ELSE "idle", next |-> 0, items |-> {},
                 closing |-> FALSE]
    BY DEF HearInput, NoPull
  <2> QED
    BY <2>1, PtyInputAssumption DEF Seqs
<1> DEFINE new == InOrder(pull.items)
<1>3. Rows(pull.items) /\ pull.items \in SUBSET Batches
  BY DEF NumbersFollow, Rows
<1>4. /\ new \in Seq(1..MaxTyped)
      /\ \A i \in DOMAIN new : \E q \in pull.items : new[i] = q.batch
      /\ Ordered(pull.items) => \A i, j \in DOMAIN new : i < j => new[i] < new[j]
  BY <1>3, InOrderLists DEF Rows
<1> HIDE DEF new
<1>5. /\ typed \in Seq(1..MaxTyped) /\ typed' = typed \o new
      /\ Len(typed) \in Nat /\ Len(new) \in Nat
      /\ DOMAIN typed = 1..Len(typed) /\ DOMAIN new = 1..Len(new)
  BY <1>1, <1>4, LenProperties DEF PtyInputTypeOK, new
<1>6. /\ typed' \in Seq(1..MaxTyped) /\ Len(typed') = Len(typed) + Len(new)
      /\ \A i \in 1..Len(typed) + Len(new) :
            typed'[i] = IF i <= Len(typed) THEN typed[i] ELSE new[i - Len(typed)]
  BY <1>4, <1>5, ConcatProperties
<1>7. DOMAIN typed' = 1..Len(typed) + Len(new)
  BY <1>6, LenProperties
<1>8. \A i \in DOMAIN typed' : \/ i \in DOMAIN typed /\ typed'[i] = typed[i]
                               \/ /\ i > Len(typed) /\ i - Len(typed) \in DOMAIN new
                                  /\ typed'[i] = new[i - Len(typed)]
  BY <1>5, <1>6, <1>7
<1>9. \A q \in queued \cup pull.items : /\ q.seq \in Nat /\ q.batch \in Nat
                                        /\ q.batch <= accepted
  BY PtyInputAssumption DEF NumbersFollow, Rows, Batches, Seqs
<1>10. PtyInputTypeOK'
  BY <1>1, <1>2, <1>6 DEF PtyInputTypeOK
<1>11. NumbersFollow'
  <2>1. \A i \in DOMAIN typed' : typed'[i] <= accepted
    BY <1>4, <1>8, <1>9 DEF NumbersFollow
  <2>2. Rows(pull.items)'
    BY <1>2, FS_EmptySet DEF Rows
  <2> QED
    BY <1>1, <1>2, <2>1, <2>2 DEF NumbersFollow, Rows
<1>12. ASSUME NoGaps PROVE NoGaps'
  <2> DEFINE NoGapNext(n) ==
          \A i \in Seqs : cursorIn' <= i /\ i < n => \E q \in queued' : q.seq = i
  <2>1. \A n : NoGap(n) => NoGapNext(n)
    BY <1>1, PtyInputAssumption DEF NoGap, PtyInputTypeOK, Seqs
  <2> HIDE DEF NoGapNext
  <2>2. /\ NoGapNext(nextIn')
        /\ \A t \in Tab : posting'[t] # NotPosting => NoGapNext(posting'[t])
        /\ \A q \in queued' : NoGapNext(q.seq)
    BY <1>1, <1>12, <2>1 DEF NoGaps
  <2> USE DEF NoGapNext
  <2> QED
    BY <1>2, <2>2 DEF NoGaps, NoGap
<1>13. ASSUME InputIsOrdered PROVE InputIsOrdered'
  <2>1. /\ Deliverable' \subseteq Deliverable
        /\ \A r \in Deliverable' : r \in queued /\ r.seq >= pull.next
    BY <1>1, <1>9, PtyInputAssumption DEF Deliverable, PtyInputTypeOK, Seqs
  <2>2. \A i \in DOMAIN typed' : \A r \in Deliverable' : typed'[i] < r.batch
    <3> TAKE i \in DOMAIN typed'
    <3> TAKE r \in Deliverable'
    <3>1. CASE i \in DOMAIN typed /\ typed'[i] = typed[i]
      BY <1>13, <2>1, <3>1 DEF InputIsOrdered
    <3>2. CASE i - Len(typed) \in DOMAIN new /\ typed'[i] = new[i - Len(typed)]
      <4>1. PICK q \in pull.items : typed'[i] = q.batch
        BY <1>4, <3>2
      <4> QED
        BY <1>1, <1>13, <2>1, <4>1 DEF InputIsOrdered
    <3> QED
      BY <1>8, <3>1, <3>2
  <2> QED
    BY <1>2, <1>13, <2>1, <2>2 DEF InputIsOrdered, Ordered
<1>14. ASSUME InputIsOrdered, session # "closed", TypedInOrder PROVE TypedInOrder'
  <2> SUFFICES ASSUME NEW i \in DOMAIN typed', NEW j \in DOMAIN typed', i < j
               PROVE  typed'[i] < typed'[j]
    BY DEF TypedInOrder
  <2>1. i \in Nat /\ j \in Nat
    BY <1>5, <1>7
  <2>2. CASE j \in DOMAIN typed /\ typed'[j] = typed[j]
    <3>1. i \in DOMAIN typed /\ typed'[i] = typed[i]
      BY <1>5, <1>8, <2>1, <2>2
    <3> QED
      BY <1>14, <2>2, <3>1 DEF TypedInOrder
  <2>3. CASE /\ j > Len(typed) /\ j - Len(typed) \in DOMAIN new
             /\ typed'[j] = new[j - Len(typed)]
    <3>1. CASE i \in DOMAIN typed /\ typed'[i] = typed[i]
      <4>1. PICK q \in pull.items : typed'[j] = q.batch
        BY <1>4, <2>3
      <4> QED
        BY <1>1, <1>14, <3>1, <4>1 DEF InputIsOrdered
    <3>2. CASE /\ i > Len(typed) /\ i - Len(typed) \in DOMAIN new
               /\ typed'[i] = new[i - Len(typed)]
      <4>1. i - Len(typed) < j - Len(typed)
        BY <1>5, <2>1
      <4>2. \A k, l \in DOMAIN new : k < l => new[k] < new[l]
        BY <1>1, <1>4, <1>14 DEF InputIsOrdered
      <4> QED
        BY <2>3, <3>2, <4>1, <4>2
    <3> QED
      BY <1>8, <3>1, <3>2
  <2> QED
    BY <1>8, <2>2, <2>3
<1> QED
  BY <1>1, <1>10, <1>11, <1>12, <1>13, <1>14

(* Until the session is closed, the shell is given batches in the order in *)
(* which the hub accepted them and each once, for any number of tabs and   *)
(* batches (terminal.pull_input).                                          *)
THEOREM TypedSafety == PtyInputSpec => []PtyInputInv
<1>1. PtyInputInit => PtyInputIInv
  <2> SUFFICES ASSUME PtyInputInit PROVE PtyInputIInv
    OBVIOUS
  <2> USE PtyInputAssumption DEF PtyInputInit, NoPull
  <2>1. PtyInputTypeOK
    <3>1. <<>> \in Seq(1..MaxTyped)
      OBVIOUS
    <3> QED
      BY <3>1 DEF PtyInputTypeOK, Seqs
  <2>2. NumbersFollow
    BY FS_EmptySet DEF NumbersFollow, Rows, NotPosting
  <2>3. NoGaps /\ InputIsOrdered /\ TypedInOrder
    BY DEF NoGaps, NoGap, Seqs, InputIsOrdered, Ordered, Deliverable, TypedInOrder
  <2> QED
    BY <2>1, <2>2, <2>3 DEF PtyInputIInv
<1>2. PtyInputIInv /\ [PtyInputNext]_ptyInputVars => PtyInputIInv'
  <2> SUFFICES ASSUME PtyInputIInv, [PtyInputNext]_ptyInputVars PROVE PtyInputIInv'
    OBVIOUS
  <2>1. ASSUME NEW t \in Tab, PostInput(t) \/ StoreInput(t) PROVE PtyInputIInv'
    BY <2>1, PostInputKeeps, StoreInputKeeps
  <2>2. CASE PullInput
    BY <2>2, PullInputKeeps
  <2>3. CASE HearInput
    BY <2>3, HearInputKeeps
  <2>4. CASE Poll \/ PollLost \/ SessionOver \/ RequestClose \/ CloseSession
    BY <2>4, PollKeeps
  <2>5. CASE UNCHANGED ptyInputVars
    BY <2>5 DEF ptyInputVars, PtyInputIInv, PtyInputTypeOK, NumbersFollow, Rows, NoGaps, NoGap,
                InputIsOrdered, Ordered, Deliverable, TypedInOrder
  <2> QED
    BY <2>1, <2>2, <2>3, <2>4, <2>5 DEF PtyInputNext
<1>3. PtyInputIInv => PtyInputInv
  BY DEF PtyInputIInv, PtyInputInv, TypedInOrder
<1> QED
  BY <1>1, <1>2, <1>3, PTL DEF PtyInputSpec
-------------------------------------------------------------------------------
(* Terminal output: the proof.                                             *)

CarriedNext(c) ==
    \/ c \in delayed' \cup chunks'
    \/ \E f \in Flusher : c = flush'[f] /\ c # NoFlush
    \/ \E k \in 1..MaxScreens : c \in screens'[k].rows
    \/ \E i \in DOMAIN screen' : c = screen'[i]

LEMMA CarriedIsTyped ==
    ASSUME PtyOutputTypeOK, NEW c, Carried(c)
    PROVE  c \in Chunk /\ c.seq \in Nat /\ c.bytes \in Seq(1..MaxPrinted)
<1>1. CASE c \in delayed \cup chunks
  BY <1>1 DEF PtyOutputTypeOK, Chunk
<1>2. CASE \E f \in Flusher : c = flush[f]
  BY <1>2 DEF PtyOutputTypeOK, Chunk
<1>3. CASE \E k \in 1..MaxScreens : c \in screens[k].rows
  <2>1. PICK k \in 1..MaxScreens : c \in screens[k].rows
    BY <1>3
  <2>2. screens[k].rows \subseteq Chunk
    BY DEF PtyOutputTypeOK, ScreenPoll
  <2> QED
    BY <2>1, <2>2 DEF Chunk
<1>4. CASE \E i \in DOMAIN screen : c = screen[i]
  <2>1. PICK i \in DOMAIN screen : c = screen[i]
    BY <1>4
  <2>2. screen \in Seq(Chunk)
    BY DEF PtyOutputTypeOK
  <2>3. screen[i] \in Chunk
    BY <2>2
  <2> QED
    BY <2>1, <2>3 DEF Chunk
<1> QED
  BY <1>1, <1>2, <1>3, <1>4 DEF Carried

\* Sequences of bytes: one more, a piece cut off, a piece put back.
Bytes == Seq(1..MaxPrinted)

LEMMA OneByteMore ==
    ASSUME NEW s \in Bytes, NEW n \in Nat, n < MaxPrinted, Increasing(s), AtMost(s, n)
    PROVE  LET t == Append(s, n + 1)
           IN  /\ t \in Bytes /\ Increasing(t) /\ AtMost(t, n + 1)
               /\ \A q \in Bytes : Prefix(q, s) => Prefix(q, t)
               /\ \A q \in Bytes : AtMost(q, n) /\ Before(q, s) => Before(q, t)
               /\ \A q \in Bytes : AtMost(q, n) => AtMost(q, n + 1)
<1> DEFINE t == Append(s, n + 1)
<1>1. /\ t \in Bytes /\ Len(t) = Len(s) + 1 /\ Len(s) \in Nat
      /\ \A i \in 1..Len(s) : t[i] = s[i] /\ s[i] \in Nat /\ s[i] <= n
      /\ t[Len(s) + 1] = n + 1
      /\ DOMAIN s = 1..Len(s) /\ DOMAIN t = 1..(Len(s) + 1)
  BY PtyOutputAssumption DEF Bytes, AtMost
<1> HIDE DEF t
<1>2. Increasing(t)
  BY <1>1 DEF Increasing
<1>3. AtMost(t, n + 1)
  BY <1>1 DEF AtMost
<1>4. \A q \in Bytes : Prefix(q, s) => Prefix(q, t)
  <2> SUFFICES ASSUME NEW q \in Bytes, Prefix(q, s) PROVE Prefix(q, t)
    OBVIOUS
  <2>1. Len(q) \in Nat /\ DOMAIN q = 1..Len(q) /\ Len(q) <= Len(s)
    BY DEF Bytes, Prefix
  <2> QED
    BY <1>1, <2>1 DEF Prefix
<1>5. \A q \in Bytes : AtMost(q, n) => AtMost(q, n + 1) /\ \A i \in DOMAIN q : q[i] < n + 1
  BY PtyOutputAssumption DEF AtMost, Bytes
<1>6. \A q \in Bytes : AtMost(q, n) /\ Before(q, s) => Before(q, t)
  BY <1>1, <1>5 DEF Before
<1> USE DEF t
<1> QED
  BY <1>1, <1>2, <1>3, <1>4, <1>5, <1>6

LEMMA CutInTwo ==
    ASSUME NEW s \in Bytes, NEW n \in Nat, n <= Len(s), Increasing(s)
    PROVE  LET a == SubSeq(s, 1, n)
               b == SubSeq(s, n + 1, Len(s))
           IN  /\ a \in Bytes /\ b \in Bytes /\ Len(a) = n
               /\ Increasing(a) /\ Increasing(b) /\ Before(a, b)
               /\ \A m \in Nat : AtMost(s, m) => AtMost(a, m) /\ AtMost(b, m)
               /\ \A q \in Bytes : Before(q, s) => Before(q, a) /\ Before(q, b)
               /\ \A q \in Bytes : Prefix(q, s) /\ Len(q) <= n => Prefix(q, a)
<1> DEFINE a == SubSeq(s, 1, n)
           b == SubSeq(s, n + 1, Len(s))
           k == Len(s) - n
<1>1. /\ Len(s) \in Nat /\ k \in Nat /\ DOMAIN s = 1..Len(s) /\ s \in Seq(1..MaxPrinted)
      /\ Len(s) = n + k
  BY DEF Bytes
<1>0. \A i \in 1..Len(s) : s[i] \in 1..MaxPrinted
  BY <1>1, ElementOfSeq
<1> HIDE DEF k
<1>2. /\ a \in Seq(1..MaxPrinted) /\ Len(a) = n /\ DOMAIN a = 1..n
      /\ \A i \in 1..n : a[i] = s[i] /\ i \in DOMAIN s
  <2>1. 1 \in Int /\ n \in Int /\ \A i \in 1..n : s[i] \in 1..MaxPrinted
    BY <1>0, <1>1
  <2>2. /\ a \in Seq(1..MaxPrinted)
        /\ Len(a) = IF 1 <= n THEN n - 1 + 1 ELSE 0
        /\ \A i \in 1..(n - 1 + 1) : a[i] = s[1 + i - 1]
    BY <1>1, <2>1, SubSeqProperties
  <2>3. Len(a) = n
    BY <2>2
  <2> HIDE DEF a
  <2> QED
    BY <1>1, <2>2, <2>3
<1>3. /\ b \in Seq(1..MaxPrinted) /\ Len(b) = k /\ DOMAIN b = 1..k
      /\ \A i \in 1..k : b[i] = s[n + i] /\ n + i \in DOMAIN s
  <2>1. n + 1 \in Int /\ Len(s) \in Int /\ \A i \in (n + 1)..Len(s) : s[i] \in 1..MaxPrinted
    BY <1>0, <1>1
  <2>2. /\ b \in Seq(1..MaxPrinted)
        /\ Len(b) = IF n + 1 <= Len(s) THEN Len(s) - (n + 1) + 1 ELSE 0
        /\ \A i \in 1..(Len(s) - (n + 1) + 1) : b[i] = s[n + 1 + i - 1]
    BY <1>1, <2>1, SubSeqProperties
  <2> HIDE DEF b
  <2>3. Len(b) = k
    BY <1>1, <2>2
  <2>4. Len(s) - (n + 1) + 1 = k
    BY <1>1
  <2>5. \A i \in 1..k : b[i] = s[n + i]
    <3> SUFFICES ASSUME NEW i \in 1..k PROVE b[i] = s[n + i]
      OBVIOUS
    <3>1. n + 1 + i - 1 = n + i
      OBVIOUS
    <3> QED
      BY <2>2, <2>4, <3>1
  <2>6. \A i \in 1..k : n + i \in 1..Len(s)
    BY <1>1
  <2> QED
    BY <1>1, <2>2, <2>3, <2>5, <2>6
<1> HIDE DEF a, b
<1>4. Increasing(a) /\ Increasing(b) /\ Before(a, b)
  <2>1. Increasing(a)
    BY <1>1, <1>2 DEF Increasing
  <2>2. Increasing(b)
    <3> SUFFICES ASSUME NEW i \in 1..k, NEW j \in 1..k, i < j PROVE b[i] < b[j]
      BY <1>3 DEF Increasing
    <3>1. n + i < n + j
      OBVIOUS
    <3> QED
      BY <1>3, <3>1 DEF Increasing
  <2>3. Before(a, b)
    <3> SUFFICES ASSUME NEW i \in 1..n, NEW j \in 1..k PROVE a[i] < b[j]
      BY <1>2, <1>3 DEF Before
    <3>1. i < n + j
      OBVIOUS
    <3> QED
      BY <1>2, <1>3, <3>1 DEF Increasing
  <2> QED
    BY <2>1, <2>2, <2>3
<1>5. \A m \in Nat : AtMost(s, m) => AtMost(a, m) /\ AtMost(b, m)
  BY <1>2, <1>3 DEF AtMost
<1>6. \A q \in Bytes : Before(q, s) => Before(q, a) /\ Before(q, b)
  BY <1>2, <1>3 DEF Before
<1>7. \A q \in Bytes : Prefix(q, s) /\ Len(q) <= n => Prefix(q, a)
  <2> SUFFICES ASSUME NEW q \in Bytes, Prefix(q, s), Len(q) <= n PROVE Prefix(q, a)
    OBVIOUS
  <2>1. Len(q) \in Nat /\ DOMAIN q = 1..Len(q)
    BY DEF Bytes
  <2> QED
    BY <1>2, <2>1 DEF Prefix
<1> USE DEF a, b
<1> QED
  BY <1>2, <1>3, <1>4, <1>5, <1>6, <1>7 DEF Bytes

LEMMA PutBack ==
    ASSUME NEW a \in Bytes, NEW b \in Bytes, Increasing(a), Increasing(b), Before(a, b)
    PROVE  LET t == a \o b
           IN  /\ t \in Bytes /\ Increasing(t)
               /\ \A m \in Nat : AtMost(a, m) /\ AtMost(b, m) => AtMost(t, m)
               /\ \A q \in Bytes : Before(q, a) /\ Before(q, b) => Before(q, t)
               /\ \A q \in Bytes : Prefix(q, a) => Prefix(q, t)
<1> DEFINE t == a \o b
           m == Len(a)
           n == Len(b)
<1>1. /\ t \in Bytes /\ m \in Nat /\ n \in Nat /\ Len(t) = m + n
      /\ DOMAIN a = 1..m /\ DOMAIN b = 1..n /\ DOMAIN t = 1..(m + n)
      /\ \A i \in 1..m : t[i] = a[i]
      /\ \A i \in (m + 1)..(m + n) : t[i] = b[i - m]
  BY DEF Bytes
<1>2. \A i \in DOMAIN t : \/ (i \in DOMAIN a /\ t[i] = a[i] /\ i <= m)
                         \/ (i - m \in DOMAIN b /\ t[i] = b[i - m] /\ i > m)
  BY <1>1
<1> HIDE DEF t, m, n
<1>3. Increasing(t)
  <2> SUFFICES ASSUME NEW i \in DOMAIN t, NEW j \in DOMAIN t, i < j PROVE t[i] < t[j]
    BY DEF Increasing
  <2>1. i \in Nat /\ j \in Nat
    BY <1>1
  <2>2. CASE i <= m /\ j <= m
    BY <1>1, <1>2, <2>1, <2>2 DEF Increasing
  <2>3. CASE i <= m /\ j > m
    BY <1>1, <1>2, <2>1, <2>3 DEF Before
  <2>4. CASE i > m /\ j > m
    <3>1. i - m < j - m
      BY <1>1, <2>1
    <3> QED
      BY <1>1, <1>2, <2>1, <2>4, <3>1 DEF Increasing
  <2> QED
    BY <1>1, <2>1, <2>2, <2>3, <2>4
<1>4. \A k \in Nat : AtMost(a, k) /\ AtMost(b, k) => AtMost(t, k)
  BY <1>2 DEF AtMost
<1>5. \A q \in Bytes : Before(q, a) /\ Before(q, b) => Before(q, t)
  BY <1>2 DEF Before
<1>6. \A q \in Bytes : Prefix(q, a) => Prefix(q, t)
  <2> SUFFICES ASSUME NEW q \in Bytes, Prefix(q, a) PROVE Prefix(q, t)
    OBVIOUS
  <2>1. Len(q) \in Nat /\ DOMAIN q = 1..Len(q) /\ Len(q) <= m
    BY DEF Bytes, Prefix, m
  <2> QED
    BY <1>1, <2>1 DEF Prefix
<1> USE DEF t
<1> QED
  BY <1>1, <1>3, <1>4, <1>5, <1>6

LEMMA PrefixComesBefore ==
    ASSUME NEW q \in Bytes, NEW a \in Bytes, NEW b \in Bytes, Prefix(q, a), Before(a, b)
    PROVE  Before(q, b)
<1>1. /\ Len(q) \in Nat /\ DOMAIN q = 1..Len(q) /\ Len(a) \in Nat /\ DOMAIN a = 1..Len(a)
      /\ Len(q) <= Len(a)
  BY DEF Bytes, Prefix
<1> QED
  BY <1>1 DEF Prefix, Before

LEMMA NothingIsBefore ==
    /\ <<>> \in Bytes /\ Increasing(<<>>)
    /\ \A q \in Bytes : Before(q, <<>>) /\ Before(<<>>, q) /\ Prefix(q, q)
    /\ \A n \in Nat : AtMost(<<>>, n)
  BY DEF Bytes, Increasing, Before, AtMost, Prefix

-------------------------------------------------------------------------------
(* The agent's steps, as long as the shell runs.                           *)

LEMMA NumbersNext ==
    ASSUME \A c : CarriedNext(c) => c.seq <= outSeq'
    PROVE  (\A c : Carried(c) => c.seq <= outSeq)'
  BY DEF Carried, CarriedNext

LEMMA TakenNext ==
    ASSUME \A c : CarriedNext(c) =>
              /\ Increasing(c.bytes) /\ AtMost(c.bytes, printed')
              /\ c.seq < outSeq' => /\ Before(c.bytes, buffer')
                                    /\ Before(c.bytes, flush'["pump"].bytes)
              /\ c.seq = outSeq' =>
                    IF flush'["pump"] # NoFlush THEN Prefix(c.bytes, flush'["pump"].bytes)
                    ELSE Prefix(c.bytes, buffer') /\ Len(c.bytes) <= MaxTake
    PROVE  Taken'
<1> HIDE DEF NoFlush
<1> QED
  BY DEF Taken, Carried, CarriedNext, Increasing, Before, Prefix, AtMost, Flushing

LEMMA PipedNext ==
    ASSUME flush'["last"] = NoFlush,
           flush'["pump"] # NoFlush => /\ flush'["pump"].seq = outSeq'
                                       /\ Len(flush'["pump"].bytes) <= MaxTake,
           Increasing(buffer'), Increasing(flush'["pump"].bytes),
           Before(flush'["pump"].bytes, buffer'),
           AtMost(buffer', printed'), AtMost(flush'["pump"].bytes, printed')
    PROVE  Piped'
  BY DEF Piped, Flushing, Increasing, Before, AtMost

LEMMA PlacedNext ==
    ASSUME \A c, d : CarriedNext(c) /\ CarriedNext(d) /\ c.seq < d.seq => Before(c.bytes, d.bytes)
    PROVE  Placed'
  BY DEF Placed, Carried, CarriedNext, Before

\* What a step that carries nothing new and leaves the agent alone keeps.
AgentRests ==
    /\ \A c : CarriedNext(c) => Carried(c)
    /\ UNCHANGED <<printed, buffer, outSeq, flush, ended>>

LEMMA RestKeeps ==
    ASSUME AgentInv, AgentRests
    PROVE  AgentInv'
<1>1. (\A c : Carried(c) => c.seq <= outSeq)'
  BY NumbersNext DEF AgentInv, AgentRests
<1>2. ASSUME ~ended
      PROVE  Piped' /\ Taken' /\ Placed'
  <2>1. Piped'
    BY <1>2 DEF AgentInv, AgentRests, Piped, Increasing, Before, AtMost, Flushing
  <2>2. Taken'
    <3>1. UNCHANGED <<printed, buffer, outSeq, flush>>
      BY DEF AgentRests
    <3>2. Taken
      BY <1>2 DEF AgentInv
    <3> HIDE DEF Increasing, Before, Prefix, AtMost, NoFlush
    <3>3. \A c : CarriedNext(c) =>
              /\ Increasing(c.bytes) /\ AtMost(c.bytes, printed)
              /\ c.seq < outSeq => Before(c.bytes, buffer) /\ Before(c.bytes, flush["pump"].bytes)
              /\ c.seq = outSeq => IF Flushing THEN Prefix(c.bytes, flush["pump"].bytes)
                                   ELSE Prefix(c.bytes, buffer) /\ Len(c.bytes) <= MaxTake
      BY <3>2 DEF AgentRests, Taken
    <3> QED
      BY <3>1, <3>3, TakenNext DEF Flushing
  <2>3. Placed'
    BY <1>2, PlacedNext DEF AgentInv, AgentRests, Placed
  <2> QED
    BY <2>1, <2>2, <2>3
<1>3. ended' = ended
  BY DEF AgentRests
<1> HIDE DEF Piped, Taken, Placed, Carried
<1> QED
  BY <1>1, <1>2, <1>3 DEF AgentInv

\* One flusher's post; the other's stays.
LEMMA OtherFlusher ==
    ASSUME PtyOutputTypeOK, NEW v, flush' = [flush EXCEPT !["pump"] = v]
    PROVE  flush'["pump"] = v /\ flush'["last"] = flush["last"]
  BY DEF PtyOutputTypeOK, Flusher

LEMMA NoFlushIs == NoFlush.seq = 0 /\ NoFlush.bytes = <<>>
  BY DEF NoFlush

\* What the agent knows while the shell runs, in the kinds of the proofs below.
LEMMA RunningShell ==
    ASSUME PtyOutputTypeOK, AgentInv, ~ended
    PROVE  /\ Piped /\ Taken /\ Placed
           /\ buffer \in Bytes /\ flush["pump"].bytes \in Bytes
           /\ printed \in Nat /\ outSeq \in Nat /\ MaxTake \in Nat /\ MaxTake >= 1
           /\ flush["pump"] \in Chunk
           /\ \A c : Carried(c) => c.bytes \in Bytes /\ c.seq \in Nat /\ c.seq <= outSeq
<1>1. flush["pump"] \in Chunk
  BY DEF PtyOutputTypeOK, Flusher
<1>2. flush["pump"].bytes \in Bytes
  BY <1>1 DEF Chunk, Bytes
<1>3. \A c : Carried(c) => c.bytes \in Bytes /\ c.seq \in Nat
  BY CarriedIsTyped DEF Bytes
<1>4. /\ buffer \in Bytes /\ printed \in Nat /\ outSeq \in Nat /\ MaxTake \in Nat /\ MaxTake >= 1
  BY PtyOutputAssumption DEF PtyOutputTypeOK, Bytes
<1> QED
  BY <1>1, <1>2, <1>3, <1>4 DEF AgentInv

LEMMA PrintKeeps ==
    ASSUME PtyOutputTypeOK, AgentInv, PrintByte
    PROVE  AgentInv'
<1>1. ~ended /\ printed < MaxPrinted /\ printed' = printed + 1 /\ buffer' = Append(buffer, printed + 1)
      /\ UNCHANGED <<outSeq, flush, delayed, chunks, screens, screen, ended>>
  BY DEF PrintByte
<1>2. /\ Piped /\ Taken /\ Placed /\ buffer \in Bytes /\ flush["pump"].bytes \in Bytes
      /\ printed \in Nat /\ outSeq \in Nat
      /\ \A c : Carried(c) => c.bytes \in Bytes /\ c.seq <= outSeq
  BY <1>1, RunningShell
<1>3. \A c : CarriedNext(c) => Carried(c)
  BY <1>1 DEF CarriedNext, Carried
<1>4. (\A c : Carried(c) => c.seq <= outSeq)'
  BY <1>1, <1>2, <1>3, NumbersNext
<1>5. /\ Increasing(buffer') /\ AtMost(buffer', printed')
      /\ \A q \in Bytes : Prefix(q, buffer) => Prefix(q, buffer')
      /\ \A q \in Bytes : AtMost(q, printed) /\ Before(q, buffer) => Before(q, buffer')
      /\ \A q \in Bytes : AtMost(q, printed) => AtMost(q, printed')
  BY <1>1, <1>2, OneByteMore DEF Piped
<1> HIDE DEF Increasing, AtMost, Before, Prefix, NoFlush, Carried, CarriedNext
<1>6. Piped'
  BY <1>1, <1>2, <1>5, PipedNext DEF Piped, Flushing
<1>7. Taken'
  BY <1>1, <1>2, <1>3, <1>5, TakenNext DEF Taken, Flushing
<1>8. Placed'
  BY <1>2, <1>3, PlacedNext DEF Placed
<1> QED
  BY <1>4, <1>6, <1>7, <1>8 DEF AgentInv

LEMMA TakeKeeps ==
    ASSUME PtyOutputTypeOK, AgentInv, NEW f \in Flusher, Take(f)
    PROVE  AgentInv'
<1> DEFINE n == IF Len(buffer) < MaxTake THEN Len(buffer) ELSE MaxTake
           a == SubSeq(buffer, 1, n)
           b == SubSeq(buffer, n + 1, Len(buffer))
           post == [seq |-> outSeq, bytes |-> a]
<1>1. /\ flush[f] = NoFlush /\ buffer # <<>> /\ (f = "last" => ended)
      /\ flush' = [flush EXCEPT ![f] = post] /\ buffer' = b
      /\ UNCHANGED <<printed, outSeq, delayed, chunks, screens, screen, ended>>
  BY DEF Take
<1>2. post.seq = outSeq /\ post.bytes = a
  OBVIOUS
<1> HIDE DEF post
<1>3. \A c : CarriedNext(c) => Carried(c) \/ c = post
  BY <1>1 DEF CarriedNext, Carried, PtyOutputTypeOK
<1>4. (\A c : Carried(c) => c.seq <= outSeq)'
  <2>1. outSeq \in Nat
    BY DEF PtyOutputTypeOK
  <2> QED
    BY <1>1, <1>2, <1>3, <2>1, NumbersNext DEF AgentInv
<1>5. ASSUME ~ended
      PROVE  Piped' /\ Taken' /\ Placed'
  <2>1. f = "pump" /\ ~Flushing /\ flush'["pump"] = post /\ flush'["last"] = flush["last"]
    BY <1>1, <1>5, OtherFlusher DEF Flusher, Flushing
  <2>2. /\ Piped /\ Taken /\ Placed /\ buffer \in Bytes
        /\ printed \in Nat /\ outSeq \in Nat /\ MaxTake \in Nat /\ MaxTake >= 1
        /\ \A c : Carried(c) => c.bytes \in Bytes /\ c.seq \in Nat /\ c.seq <= outSeq
    BY <1>5, RunningShell
  <2>3. n \in Nat /\ n <= Len(buffer) /\ n <= MaxTake /\ n >= 1 /\ Len(buffer) \in Nat
    BY <1>1, <2>2 DEF Bytes
  <2>4. \A k \in Nat : k <= Len(buffer) /\ k <= MaxTake => k <= n
    BY <2>3
  <2> HIDE DEF n
  <2>5. /\ a \in Bytes /\ b \in Bytes /\ Len(a) = n
        /\ Increasing(a) /\ Increasing(b) /\ Before(a, b)
        /\ AtMost(a, printed) /\ AtMost(b, printed)
        /\ \A q \in Bytes : Before(q, buffer) => Before(q, a) /\ Before(q, b)
        /\ \A q \in Bytes : Prefix(q, buffer) /\ Len(q) <= n => Prefix(q, a)
    BY <2>2, <2>3, CutInTwo DEF Piped
  <2> HIDE DEF a, b
  <2>6. Prefix(a, a)
    BY <2>5, NothingIsBefore
  <2>7. post # NoFlush
    BY <1>2, <2>3, <2>5, NoFlushIs
  <2>8. \A q \in Bytes : Prefix(q, buffer) /\ Len(q) <= MaxTake => Prefix(q, a)
    BY <2>3, <2>4, <2>5 DEF Prefix, Bytes
  <2> HIDE DEF Increasing, AtMost, Before, Prefix, NoFlush, Carried, CarriedNext
  <2>9. Piped'
    BY <1>1, <1>2, <2>1, <2>2, <2>3, <2>5, PipedNext DEF Piped
  <2>10. ASSUME NEW c, CarriedNext(c)
         PROVE  /\ Increasing(c.bytes) /\ AtMost(c.bytes, printed)
                /\ c.seq < outSeq => Before(c.bytes, b) /\ Before(c.bytes, a)
                /\ c.seq = outSeq => Prefix(c.bytes, a)
    <3>1. CASE c = post
      BY <1>2, <2>2, <2>5, <2>6, <3>1
    <3>2. CASE Carried(c)
      BY <2>1, <2>2, <2>5, <2>8, <3>2 DEF Taken
    <3> QED
      BY <1>3, <2>10, <3>1, <3>2
  <2>11. Taken'
    BY <1>1, <1>2, <2>1, <2>7, <2>10, TakenNext
  <2>12. ASSUME NEW c, NEW d, CarriedNext(c), CarriedNext(d), c.seq < d.seq
         PROVE  Before(c.bytes, d.bytes)
    <3>1. d = post \/ Carried(d)
      BY <1>3, <2>12
    <3>2. CASE d = post
      BY <1>2, <2>10, <2>12, <3>2
    <3>3. CASE Carried(d)
      <4>1. Carried(c)
        BY <1>2, <1>3, <2>2, <2>12, <3>3
      <4> QED
        BY <2>2, <2>12, <3>3, <4>1 DEF Placed
    <3> QED
      BY <3>1, <3>2, <3>3
  <2>13. Placed'
    BY <2>12, PlacedNext
  <2> QED
    BY <2>9, <2>11, <2>13
<1> QED
  BY <1>1, <1>4, <1>5 DEF AgentInv

\* Nothing enters the table but the post.
LEMMA StoreAddsThePost ==
    ASSUME NEW post, Store(post)
    PROVE  chunks' \subseteq chunks \cup {post}
  BY DEF Store

LEMMA PostedKeeps ==
    ASSUME PtyOutputTypeOK, AgentInv, NEW f \in Flusher, Posted(f)
    PROVE  AgentInv'
<1>1. /\ flush[f] # NoFlush /\ chunks' \subseteq chunks \cup {flush[f]}
      /\ outSeq' = outSeq + 1 /\ flush' = [flush EXCEPT ![f] = NoFlush]
      /\ UNCHANGED <<printed, buffer, delayed, screens, screen, ended>>
  BY StoreAddsThePost DEF Posted
<1>2. \A c : CarriedNext(c) => Carried(c)
  BY <1>1 DEF CarriedNext, Carried, PtyOutputTypeOK
<1>3. (\A c : Carried(c) => c.seq <= outSeq)'
  <2>1. outSeq \in Nat
    BY DEF PtyOutputTypeOK
  <2>2. \A c : Carried(c) => c.seq \in Nat
    BY CarriedIsTyped
  <2> QED
    BY <1>1, <1>2, <2>1, <2>2, NumbersNext DEF AgentInv
<1>4. ASSUME ~ended
      PROVE  Piped' /\ Taken' /\ Placed'
  <2>1. /\ Piped /\ Taken /\ Placed /\ buffer \in Bytes /\ flush["pump"].bytes \in Bytes
        /\ printed \in Nat /\ outSeq \in Nat
        /\ \A c : Carried(c) => c.bytes \in Bytes /\ c.seq \in Nat /\ c.seq <= outSeq
    BY <1>4, RunningShell
  <2>2. f = "pump" /\ Flushing /\ flush'["pump"] = NoFlush /\ flush'["last"] = NoFlush
    BY <1>1, <2>1, OtherFlusher DEF Flusher, Flushing, Piped
  <2>3. /\ <<>> \in Bytes /\ Increasing(<<>>) /\ AtMost(<<>>, printed)
        /\ \A q \in Bytes : Before(q, <<>>) /\ Before(<<>>, q)
    BY <2>1, NothingIsBefore
  <2>4. \A c : Carried(c) => Before(c.bytes, buffer)
    <3> SUFFICES ASSUME NEW c, Carried(c) PROVE Before(c.bytes, buffer)
      OBVIOUS
    <3>1. CASE c.seq < outSeq
      BY <2>1, <3>1 DEF Taken
    <3>2. CASE c.seq = outSeq
      BY <2>1, <2>2, <3>2, PrefixComesBefore DEF Taken, Piped
    <3> QED
      BY <2>1, <3>1, <3>2
  <2> HIDE DEF Increasing, AtMost, Before, Prefix, NoFlush, Carried, CarriedNext
  <2>5. Piped'
    BY <1>1, <2>1, <2>2, <2>3, NoFlushIs, PipedNext DEF Piped
  <2>6. Taken'
    <3>1. \A c : Carried(c) => c.seq # outSeq'
      BY <1>1, <2>1
    <3> QED
      BY <1>1, <1>2, <2>1, <2>2, <2>3, <2>4, <3>1, NoFlushIs, TakenNext DEF Taken
  <2>7. Placed'
    BY <1>2, <2>1, PlacedNext DEF Placed
  <2> QED
    BY <2>5, <2>6, <2>7
<1> QED
  BY <1>1, <1>3, <1>4 DEF AgentInv

LEMMA NotPostedKeeps ==
    ASSUME PtyOutputTypeOK, AgentInv, NEW f \in Flusher, NotPosted(f)
    PROVE  AgentInv'
<1>1. /\ flush[f] # NoFlush /\ buffer' = flush[f].bytes \o buffer
      /\ delayed' \subseteq delayed \cup {flush[f]} /\ flush' = [flush EXCEPT ![f] = NoFlush]
      /\ UNCHANGED <<printed, outSeq, chunks, screens, screen, ended>>
  BY DEF NotPosted
<1>2. \A c : CarriedNext(c) => Carried(c)
  BY <1>1 DEF CarriedNext, Carried, PtyOutputTypeOK
<1>3. (\A c : Carried(c) => c.seq <= outSeq)'
  BY <1>1, <1>2, NumbersNext DEF AgentInv
<1>4. ASSUME ~ended
      PROVE  Piped' /\ Taken' /\ Placed'
  <2>1. /\ Piped /\ Taken /\ Placed /\ buffer \in Bytes /\ flush["pump"].bytes \in Bytes
        /\ printed \in Nat /\ outSeq \in Nat /\ MaxTake \in Nat
        /\ \A c : Carried(c) => c.bytes \in Bytes /\ c.seq \in Nat /\ c.seq <= outSeq
    BY <1>4, RunningShell
  <2>2. f = "pump" /\ Flushing /\ flush'["pump"] = NoFlush /\ flush'["last"] = NoFlush
    BY <1>1, <2>1, OtherFlusher DEF Flusher, Flushing, Piped
  <2>3. /\ <<>> \in Bytes /\ Increasing(<<>>) /\ AtMost(<<>>, printed)
        /\ \A q \in Bytes : Before(q, <<>>) /\ Before(<<>>, q)
    BY <2>1, NothingIsBefore
  <2>4. /\ Increasing(buffer') /\ AtMost(buffer', printed) /\ buffer' \in Bytes
        /\ \A q \in Bytes : Before(q, flush["pump"].bytes) /\ Before(q, buffer) => Before(q, buffer')
        /\ \A q \in Bytes : Prefix(q, flush["pump"].bytes) => Prefix(q, buffer')
    BY <1>1, <2>1, <2>2, PutBack DEF Piped
  <2>5. \A c : Carried(c) /\ c.seq = outSeq => Len(c.bytes) <= MaxTake
    <3>1. \A c : Carried(c) /\ c.seq = outSeq => Len(c.bytes) <= Len(flush["pump"].bytes)
      BY <2>1, <2>2 DEF Taken, Prefix
    <3>2. Len(flush["pump"].bytes) <= MaxTake /\ Len(flush["pump"].bytes) \in Nat
      BY <2>1, <2>2 DEF Piped, Bytes
    <3>3. \A c : Carried(c) => Len(c.bytes) \in Nat
      BY <2>1 DEF Bytes
    <3> QED
      BY <2>1, <3>1, <3>2, <3>3
  <2> HIDE DEF Increasing, AtMost, Before, Prefix, NoFlush, Carried, CarriedNext
  <2>6. Piped'
    BY <1>1, <2>1, <2>2, <2>3, <2>4, NoFlushIs, PipedNext DEF Piped
  <2>7. Taken'
    BY <1>1, <1>2, <2>1, <2>2, <2>3, <2>4, <2>5, NoFlushIs, TakenNext DEF Taken
  <2>8. Placed'
    BY <1>2, <2>1, PlacedNext DEF Placed
  <2> QED
    BY <2>6, <2>7, <2>8
<1> QED
  BY <1>1, <1>3, <1>4 DEF AgentInv

-------------------------------------------------------------------------------
(* The hub's window, and the console.                                      *)

\* The highest number of some chunks, none of which is above n.
LEMMA HighestIs ==
    ASSUME NEW rows \in SUBSET Chunk, rows # {}, NEW n \in Nat, \A c \in rows : c.seq <= n
    PROVE  Highest(rows) \in Nat /\ \A c \in rows : c.seq <= Highest(rows)
<1> DEFINE U == {m \in Nat : \A c \in rows : c.seq <= m}
<1>1. \A c \in rows : c.seq \in Nat
  BY DEF Chunk
<1>2. PICK m \in U : \A k \in U : m <= k
  <2>1. U # {} /\ U \in SUBSET Nat
    OBVIOUS
  <2> QED
    BY <2>1, LeastNumber
<1>3. m \in Numbers(rows)
  <2> SUFFICES ASSUME \A c \in rows : c.seq # m PROVE FALSE
    BY DEF Numbers
  <2>1. \A c \in rows : c.seq <= m - 1
    BY <1>1, <1>2
  <2>2. m - 1 \in Nat
    BY <1>1, <1>2, <2>1
  <2> QED
    BY <1>2, <2>1, <2>2
<1>4. \E h \in Numbers(rows) : \A k \in Numbers(rows) : k <= h
  BY <1>2, <1>3 DEF Numbers
<1>5. Highest(rows) \in Numbers(rows) /\ \A k \in Numbers(rows) : k <= Highest(rows)
  BY <1>4 DEF Highest
<1> HIDE DEF Highest
<1> QED
  BY <1>1, <1>5 DEF Numbers

\* Chunks in the order of their numbers.
LEMMA RowsAreListed ==
    ASSUME NEW rows \in SUBSET Chunk, IsFiniteSet(rows), OneRowEach(rows)
    PROVE  /\ BySeq(rows) \in Seq(Chunk)
           /\ \A i \in DOMAIN BySeq(rows) : BySeq(rows)[i] \in rows
           /\ \A i, j \in DOMAIN BySeq(rows) : i < j => BySeq(rows)[i].seq < BySeq(rows)[j].seq
<1> DEFINE n == Cardinality(rows)
           s == BySeq(rows)
<1>1. \A c \in rows : c.seq \in Nat
  BY DEF Chunk
<1>2. /\ n \in Nat
      /\ \A c, d \in rows : c.seq < d.seq => Rank(rows, c.seq) < Rank(rows, d.seq)
      /\ \A i \in 1..n : \E c \in rows : Rank(rows, c.seq) = i
  <2>1. \A k : Rank(rows, k) = Place(rows, k)
    BY DEF Rank, Place
  <2>2. \A c, d \in rows : c.seq = d.seq => c = d
    BY DEF OneRowEach
  <2> HIDE DEF Rank, Place
  <2> QED
    BY <1>1, <2>1, <2>2, PlacesAreTaken
<1>3. s = [i \in 1..n |-> CHOOSE c \in rows : Rank(rows, c.seq) = i]
  BY DEF BySeq
<1> HIDE DEF n, s
<1>4. \A i \in 1..n : s[i] \in rows /\ Rank(rows, s[i].seq) = i
  BY <1>2, <1>3
<1>5. s \in [1..n -> Chunk] /\ DOMAIN s = 1..n
  BY <1>3, <1>4
<1>6. s \in Seq(Chunk)
  BY <1>2, <1>5, FunctionsAreSequences
<1>7. ASSUME NEW i \in 1..n, NEW j \in 1..n, i < j
      PROVE  s[i].seq < s[j].seq
  <2>1. s[i] \in rows /\ s[j] \in rows /\ s[i].seq \in Nat /\ s[j].seq \in Nat
    BY <1>1, <1>4
  <2>2. s[i].seq # s[j].seq
    BY <1>2, <1>4, <1>7
  <2>3. ~(s[j].seq < s[i].seq)
    BY <1>2, <1>4, <1>7, <2>1
  <2> QED
    BY <2>1, <2>2, <2>3
<1> USE DEF s
<1> QED
  BY <1>4, <1>5, <1>6, <1>7

\* A post that is stored: one row for its number, and none below what was there.
LEMMA StoreKeeps ==
    ASSUME PtyOutputTypeOK, IsFiniteSet(chunks), OneRowEach(chunks), NEW post \in Chunk, Store(post)
    PROVE  /\ chunks' \subseteq Chunk /\ IsFiniteSet(chunks') /\ OneRowEach(chunks')
           /\ \A d \in chunks : \E e \in chunks' : e.seq >= d.seq
<1> DEFINE rows == IF post.seq \in Numbers(chunks) THEN chunks ELSE chunks \cup {post}
<1>1. chunks' = {c \in rows : c.seq + Window > post.seq}
  BY DEF Store
<1>2. chunks \subseteq Chunk /\ Window \in Nat /\ Window >= 1
  BY PtyOutputAssumption DEF PtyOutputTypeOK
<1>3. chunks' \subseteq chunks \cup {post} /\ chunks \subseteq rows
  BY <1>1
<1>4. IsFiniteSet(chunks')
  <2>1. IsFiniteSet(chunks \cup {post})
    BY FS_AddElement
  <2> QED
    BY <1>3, <2>1, FS_Subset
<1>5. \E e \in rows : e.seq = post.seq
  BY DEF Numbers
<1>6. \A c, d \in rows : c.seq = d.seq => c = d
  BY DEF OneRowEach, Numbers
<1> HIDE DEF rows
<1>7. \A c \in rows : c.seq \in Nat
  <2>1. rows \subseteq chunks \cup {post}
    BY DEF rows
  <2> QED
    BY <1>2, <2>1 DEF Chunk
<1>8. ASSUME NEW d \in chunks PROVE \E e \in chunks' : e.seq >= d.seq
  <2>1. d \in rows /\ d.seq \in Nat /\ post.seq \in Nat
    BY <1>3, <1>7 DEF Chunk
  <2>2. CASE d.seq + Window > post.seq
    BY <1>1, <2>1, <2>2
  <2>3. CASE ~(d.seq + Window > post.seq)
    <3>1. PICK e \in rows : e.seq = post.seq
      BY <1>5
    <3>2. e \in chunks' /\ e.seq >= d.seq
      BY <1>1, <1>2, <2>1, <2>3, <3>1
    <3> QED
      BY <3>2
  <2> QED
    BY <2>2, <2>3
<1> QED
  BY <1>1, <1>2, <1>3, <1>4, <1>6, <1>8 DEF OneRowEach

-------------------------------------------------------------------------------
(* Each step on its own.                                                   *)

LEMMA TurnsNext ==
    ASSUME \A i, j \in DOMAIN screen' : i < j => screen'[i].seq < screen'[j].seq,
           \A i \in DOMAIN screen' : screen'[i].seq < cursorOut',
           \A k \in 1..MaxScreens : screens'[k].pc # "idle" => screens'[k].from = cursorOut',
           \A k \in 1..MaxScreens : \A c \in screens'[k].rows :
              /\ c.seq >= cursorOut'
              /\ screens'[k].pc = "answered" => c.seq < screens'[k].next
              /\ screens'[k].pc # "answered" => \E d \in chunks' : d.seq >= c.seq
    PROVE  Turns'
  BY DEF Turns

\* The agent's own steps do not touch the console.
LEMMA AgentLeavesConsole ==
    ASSUME ConsoleInv, PtyOutputTypeOK', IsFiniteSet(chunks'), OneRowEach(chunks'),
           \A d \in chunks : \E e \in chunks' : e.seq >= d.seq,
           UNCHANGED <<screens, cursorOut, screen, mixedUp>>
    PROVE  ConsoleInv'
<1>1. ListsAreSound'
  BY DEF ConsoleInv, ListsAreSound, OneRowEach
<1>2. ASSUME ~mixedUp PROVE Turns'
  <2>1. Turns
    BY <1>2 DEF ConsoleInv
  <2>2. \A k \in 1..MaxScreens : \A c \in screens[k].rows : c.seq \in Nat
    BY DEF ConsoleInv, ListsAreSound, PtyOutputTypeOK, ScreenPoll, Chunk
  <2>3. \A k \in 1..MaxScreens : \A c \in screens[k].rows :
           screens[k].pc # "answered" => \E d \in chunks' : d.seq >= c.seq
    <3> SUFFICES ASSUME NEW k \in 1..MaxScreens, NEW c \in screens[k].rows, screens[k].pc # "answered"
                 PROVE  \E d \in chunks' : d.seq >= c.seq
      OBVIOUS
    <3>1. PICK d \in chunks : d.seq >= c.seq
      BY <2>1 DEF Turns
    <3>2. PICK e \in chunks' : e.seq >= d.seq
      OBVIOUS
    <3>3. d.seq \in Nat /\ e.seq \in Nat /\ c.seq \in Nat
      BY <2>2 DEF ConsoleInv, ListsAreSound, PtyOutputTypeOK, Chunk
    <3> QED
      BY <3>1, <3>2, <3>3
  <2> QED
    BY <2>1, <2>3, TurnsNext DEF Turns
<1> QED
  BY <1>1, <1>2 DEF ConsoleInv

LEMMA WindowStays ==
    ASSUME ConsoleInv, UNCHANGED chunks
    PROVE  /\ IsFiniteSet(chunks') /\ OneRowEach(chunks')
           /\ \A d \in chunks : \E e \in chunks' : e.seq >= d.seq
<1>1. \A d \in chunks : d.seq \in Nat
  BY DEF ConsoleInv, ListsAreSound, PtyOutputTypeOK, Chunk
<1> QED
  BY <1>1 DEF ConsoleInv, ListsAreSound, OneRowEach

LEMMA PrintLeaves == ASSUME ConsoleInv, PrintByte PROVE ConsoleInv'
<1>1. PtyOutputTypeOK'
  <2>1. PtyOutputTypeOK
    BY DEF ConsoleInv, ListsAreSound
  <2>2. printed' \in 1..MaxPrinted /\ printed' \in 0..MaxPrinted /\ buffer' = Append(buffer, printed')
    BY <2>1, PtyOutputAssumption DEF PrintByte, PtyOutputTypeOK
  <2>3. buffer' \in Seq(1..MaxPrinted)
    BY <2>1, <2>2, AppendProperties DEF PtyOutputTypeOK
  <2> QED
    BY <2>1, <2>2, <2>3 DEF PrintByte, PtyOutputTypeOK
<1>2. UNCHANGED <<chunks, screens, cursorOut, screen, mixedUp>>
  BY DEF PrintByte
<1> QED
  BY <1>1, <1>2, WindowStays, AgentLeavesConsole

LEMMA EndLeaves == ASSUME ConsoleInv, ShellEnds PROVE ConsoleInv'
<1>1. PtyOutputTypeOK'
  BY DEF ShellEnds, ConsoleInv, ListsAreSound, PtyOutputTypeOK
<1>2. UNCHANGED <<chunks, screens, cursorOut, screen, mixedUp>>
  BY DEF ShellEnds
<1> QED
  BY <1>1, <1>2, WindowStays, AgentLeavesConsole

LEMMA TakeLeaves == ASSUME ConsoleInv, NEW f \in Flusher, Take(f) PROVE ConsoleInv'
<1> DEFINE n == IF Len(buffer) < MaxTake THEN Len(buffer) ELSE MaxTake
           a == SubSeq(buffer, 1, n)
           b == SubSeq(buffer, n + 1, Len(buffer))
<1>1. PtyOutputTypeOK'
  <2>1. PtyOutputTypeOK
    BY DEF ConsoleInv, ListsAreSound
  <2>2. /\ buffer \in Seq(1..MaxPrinted) /\ Len(buffer) \in Nat /\ n \in Nat /\ n <= Len(buffer)
    BY <2>1, PtyOutputAssumption DEF PtyOutputTypeOK
  <2>3. \A i \in 1..Len(buffer) : buffer[i] \in 1..MaxPrinted
    BY <2>2, ElementOfSeq
  <2> HIDE DEF n
  <2>4. (\A i \in 1..n : buffer[i] \in 1..MaxPrinted) /\ n \in Int /\ 1 \in Int
    BY <2>2, <2>3
  <2>5. (\A i \in (n + 1)..Len(buffer) : buffer[i] \in 1..MaxPrinted)
        /\ n + 1 \in Int /\ Len(buffer) \in Int
    BY <2>2, <2>3
  <2>6. a \in Seq(1..MaxPrinted) /\ b \in Seq(1..MaxPrinted)
    BY <2>4, <2>5, SubSeqProperties
  <2>7. flush' = [flush EXCEPT ![f] = [seq |-> outSeq, bytes |-> a]] /\ buffer' = b
    BY DEF Take, n
  <2> HIDE DEF a, b
  <2>8. [seq |-> outSeq, bytes |-> a] \in Chunk
    BY <2>1, <2>6 DEF Chunk, PtyOutputTypeOK
  <2>9. flush' \in [Flusher -> Chunk]
    BY <2>1, <2>7, <2>8 DEF PtyOutputTypeOK
  <2> QED
    BY <2>1, <2>6, <2>7, <2>9 DEF Take, PtyOutputTypeOK
<1>2. UNCHANGED <<chunks, screens, cursorOut, screen, mixedUp>>
  BY DEF Take
<1> QED
  BY <1>1, <1>2, WindowStays, AgentLeavesConsole

LEMMA NoFlushIsTyped == NoFlush \in Chunk
  BY DEF NoFlush, Chunk

LEMMA PostedLeaves == ASSUME ConsoleInv, NEW f \in Flusher, Posted(f) PROVE ConsoleInv'
<1>1. PtyOutputTypeOK /\ IsFiniteSet(chunks) /\ OneRowEach(chunks)
  BY DEF ConsoleInv, ListsAreSound
<1>2. flush[f] \in Chunk
  BY <1>1 DEF PtyOutputTypeOK
<1>3. /\ chunks' \subseteq Chunk /\ IsFiniteSet(chunks') /\ OneRowEach(chunks')
      /\ \A d \in chunks : \E e \in chunks' : e.seq >= d.seq
  BY <1>1, <1>2, StoreKeeps DEF Posted
<1>4. PtyOutputTypeOK'
  BY <1>1, <1>3, NoFlushIsTyped DEF Posted, PtyOutputTypeOK
<1>5. UNCHANGED <<screens, cursorOut, screen, mixedUp>>
  BY DEF Posted
<1> QED
  BY <1>3, <1>4, <1>5, AgentLeavesConsole

LEMMA NotPostedLeaves == ASSUME ConsoleInv, NEW f \in Flusher, NotPosted(f) PROVE ConsoleInv'
<1>1. PtyOutputTypeOK'
  <2>1. PtyOutputTypeOK
    BY DEF ConsoleInv, ListsAreSound
  <2>2. flush[f] \in Chunk /\ flush[f].bytes \in Seq(1..MaxPrinted) /\ buffer \in Seq(1..MaxPrinted)
    BY <2>1 DEF PtyOutputTypeOK, Chunk
  <2>3. buffer' \in Seq(1..MaxPrinted)
    BY <2>2, ConcatProperties DEF NotPosted
  <2>4. flush' \in [Flusher -> Chunk]
    BY <2>1, NoFlushIsTyped DEF NotPosted, PtyOutputTypeOK
  <2>5. delayed' \subseteq Chunk
    BY <2>1, <2>2 DEF NotPosted, PtyOutputTypeOK
  <2> QED
    BY <2>1, <2>3, <2>4, <2>5 DEF NotPosted, PtyOutputTypeOK
<1>2. UNCHANGED <<chunks, screens, cursorOut, screen, mixedUp>>
  BY DEF NotPosted
<1> QED
  BY <1>1, <1>2, WindowStays, AgentLeavesConsole

LEMMA LateLeaves == ASSUME ConsoleInv, NEW post \in delayed, ArrivesLate(post) PROVE ConsoleInv'
<1>1. PtyOutputTypeOK /\ IsFiniteSet(chunks) /\ OneRowEach(chunks)
  BY DEF ConsoleInv, ListsAreSound
<1>2. post \in Chunk
  BY <1>1 DEF PtyOutputTypeOK
<1>3. /\ chunks' \subseteq Chunk /\ IsFiniteSet(chunks') /\ OneRowEach(chunks')
      /\ \A d \in chunks : \E e \in chunks' : e.seq >= d.seq
  BY <1>1, <1>2, StoreKeeps DEF ArrivesLate
<1>4. PtyOutputTypeOK'
  BY <1>1, <1>3 DEF ArrivesLate, PtyOutputTypeOK
<1>5. UNCHANGED <<screens, cursorOut, screen, mixedUp>>
  BY DEF ArrivesLate
<1> QED
  BY <1>3, <1>4, <1>5, AgentLeavesConsole

\* One poll takes a step; the others, the window and the screen stay.
PollStep(k, poll) ==
    /\ screens' = [screens EXCEPT ![k] = poll]
    /\ UNCHANGED <<printed, buffer, outSeq, flush, delayed, chunks, cursorOut, screen, ended, mixedUp>>

LEMMA PollStepKeeps ==
    ASSUME ConsoleInv, NEW k \in 1..MaxScreens, NEW poll, PollStep(k, poll),
           poll \in ScreenPoll, IsFiniteSet(poll.rows), OneRowEach(poll.rows),
           poll.pc \in {"idle", "asked"} => poll.rows = {},
           ~mixedUp =>
              /\ poll.pc # "idle" => poll.from = cursorOut
              /\ \A c \in poll.rows : /\ c.seq >= cursorOut
                                      /\ poll.pc = "answered" => c.seq < poll.next
                                      /\ poll.pc # "answered" => \E d \in chunks : d.seq >= c.seq
    PROVE  ConsoleInv'
<1>1. PtyOutputTypeOK
  BY DEF ConsoleInv, ListsAreSound
<1>2. \A j \in 1..MaxScreens : screens'[j] = IF j = k THEN poll ELSE screens[j]
  BY <1>1 DEF PollStep, PtyOutputTypeOK
<1>3. PtyOutputTypeOK'
  BY <1>1 DEF PollStep, PtyOutputTypeOK
<1>4. UNCHANGED <<chunks, cursorOut, screen, mixedUp>>
  BY DEF PollStep
<1> HIDE DEF PollStep
<1>5. ListsAreSound'
  BY <1>2, <1>3, <1>4 DEF ConsoleInv, ListsAreSound, OneRowEach
<1>6. ASSUME ~mixedUp PROVE Turns'
  <2>1. Turns
    BY <1>6 DEF ConsoleInv
  <2> QED
    BY <1>2, <1>4, <1>6, <2>1, TurnsNext DEF Turns
<1> QED
  BY <1>4, <1>5, <1>6 DEF ConsoleInv

\* What a poll that steps carries, it carried or the window did.
LEMMA PollStepRests ==
    ASSUME PtyOutputTypeOK, NEW k \in 1..MaxScreens, NEW poll, PollStep(k, poll),
           poll.rows \subseteq screens[k].rows \cup chunks
    PROVE  AgentRests
<1>1. \A j \in 1..MaxScreens : screens'[j] = IF j = k THEN poll ELSE screens[j]
  BY DEF PollStep, PtyOutputTypeOK
<1>2. \A c : CarriedNext(c) => Carried(c)
  BY <1>1 DEF PollStep, CarriedNext, Carried
<1> QED
  BY <1>2 DEF AgentRests, PollStep

LEMMA PollIs ==
    ASSUME ConsoleInv, NEW k \in 1..MaxScreens
    PROVE  /\ PtyOutputTypeOK
           /\ screens[k] \in ScreenPoll /\ screens[k].rows \in SUBSET Chunk
           /\ IsFiniteSet(screens[k].rows) /\ OneRowEach(screens[k].rows)
           /\ screens[k].next \in Nat /\ screens[k].from \in Nat /\ screens[k].lost \in BOOLEAN
           /\ chunks \subseteq Chunk /\ IsFiniteSet(chunks) /\ OneRowEach(chunks)
           /\ cursorOut \in Nat
<1>1. screens[k] \in ScreenPoll
  BY DEF ConsoleInv, ListsAreSound, PtyOutputTypeOK
<1> QED
  BY <1>1 DEF ConsoleInv, ListsAreSound, PtyOutputTypeOK, ScreenPoll

LEMMA NoPollIsTyped ==
    /\ NoPoll \in ScreenPoll /\ NoPoll.pc = "idle" /\ NoPoll.rows = {} /\ NoPoll.from = 0
    /\ IsFiniteSet(NoPoll.rows) /\ OneRowEach(NoPoll.rows)
  BY FS_EmptySet DEF NoPoll, ScreenPoll, OneRowEach

LEMMA PollOutputKeeps ==
    ASSUME ConsoleInv, NEW k \in 1..MaxScreens, PollOutput(k)
    PROVE  ConsoleInv' /\ AgentRests
<1> DEFINE poll == [NoPoll EXCEPT !.pc = "asked", !.from = cursorOut]
<1>1. PollStep(k, poll)
  BY DEF PollOutput, PollStep
<1>2. /\ poll.pc = "asked" /\ poll.from = cursorOut /\ poll.rows = {} /\ poll \in ScreenPoll
  BY PollIs DEF NoPoll, ScreenPoll
<1> HIDE DEF poll
<1>3. IsFiniteSet(poll.rows) /\ OneRowEach(poll.rows)
  BY <1>2, FS_EmptySet DEF OneRowEach
<1> QED
  BY <1>1, <1>2, <1>3, PollIs, PollStepKeeps, PollStepRests

LEMMA ListChunksKeeps ==
    ASSUME ConsoleInv, NEW k \in 1..MaxScreens, ListChunks(k)
    PROVE  ConsoleInv' /\ AgentRests
<1> DEFINE listed == {c \in chunks : c.seq >= screens[k].from}
           poll == [screens[k] EXCEPT !.pc = "listed", !.rows = listed]
<1>1. PollStep(k, poll) /\ screens[k].pc = "asked"
  BY PollIs DEF ListChunks, PollStep, PtyOutputTypeOK
<1>2. /\ poll.pc = "listed" /\ poll.from = screens[k].from /\ poll.rows = listed /\ poll \in ScreenPoll
  BY PollIs DEF ScreenPoll
<1> HIDE DEF poll
<1>3. IsFiniteSet(poll.rows) /\ OneRowEach(poll.rows) /\ poll.rows \subseteq chunks
  <2>1. listed \subseteq chunks
    OBVIOUS
  <2> QED
    BY <1>2, <2>1, PollIs, FS_Subset DEF OneRowEach
<1>4. ASSUME ~mixedUp
      PROVE  /\ poll.from = cursorOut
             /\ \A c \in poll.rows : c.seq >= cursorOut /\ \E d \in chunks : d.seq >= c.seq
  <2>1. screens[k].from = cursorOut
    BY <1>1, <1>4 DEF ConsoleInv, Turns
  <2>2. \A c \in chunks : c.seq \in Nat
    BY PollIs DEF Chunk
  <2> QED
    BY <1>2, <1>3, <2>1, <2>2
<1> QED
  BY <1>1, <1>2, <1>3, <1>4, PollIs, PollStepKeeps, PollStepRests

LEMMA FindOldestKeeps ==
    ASSUME ConsoleInv, NEW k \in 1..MaxScreens, FindOldest(k)
    PROVE  ConsoleInv' /\ AgentRests
<1> DEFINE hole == /\ screens[k].from > 0 /\ chunks # {}
                   /\ \A c \in chunks : c.seq > screens[k].from
           poll == [screens[k] EXCEPT !.pc = "bounded", !.lost = hole]
<1>1. PollStep(k, poll) /\ screens[k].pc = "listed"
  BY PollIs DEF FindOldest, PollStep, PtyOutputTypeOK
<1>2. hole \in BOOLEAN
  OBVIOUS
<1> HIDE DEF hole
<1>3. /\ poll.pc = "bounded" /\ poll.from = screens[k].from /\ poll.rows = screens[k].rows
      /\ poll \in ScreenPoll
  BY <1>2, PollIs DEF ScreenPoll
<1> HIDE DEF poll
<1>4. ASSUME ~mixedUp
      PROVE  /\ poll.from = cursorOut
             /\ \A c \in poll.rows : c.seq >= cursorOut /\ \E d \in chunks : d.seq >= c.seq
  BY <1>1, <1>3, <1>4 DEF ConsoleInv, Turns
<1> QED
  BY <1>1, <1>3, <1>4, PollIs, PollStepKeeps, PollStepRests

LEMMA FindHighestKeeps ==
    ASSUME ConsoleInv, \A c \in chunks : c.seq <= outSeq, NEW k \in 1..MaxScreens, FindHighest(k)
    PROVE  ConsoleInv' /\ AgentRests
<1> DEFINE next == IF chunks = {} THEN 0 ELSE Highest(chunks) + 1
           poll == [screens[k] EXCEPT !.pc = "answered", !.next = next]
<1>1. PollStep(k, poll) /\ screens[k].pc = "bounded"
  BY PollIs DEF FindHighest, PollStep, PtyOutputTypeOK
<1>2. /\ chunks # {} => Highest(chunks) \in Nat
      /\ \A c \in chunks : c.seq <= Highest(chunks) /\ c.seq \in Nat
  <2>1. chunks \in SUBSET Chunk /\ outSeq \in Nat
    BY PollIs DEF PtyOutputTypeOK
  <2>2. \A c \in chunks : c.seq \in Nat
    BY <2>1 DEF Chunk
  <2> QED
    BY <2>1, <2>2, HighestIs
<1>3. next \in Nat /\ \A c \in chunks : c.seq < next
  BY <1>2
<1> HIDE DEF next
<1>4. /\ poll.pc = "answered" /\ poll.from = screens[k].from /\ poll.rows = screens[k].rows
      /\ poll \in ScreenPoll /\ poll.next = next
  BY <1>3, PollIs DEF ScreenPoll
<1> HIDE DEF poll
<1>5. ASSUME ~mixedUp
      PROVE  /\ poll.from = cursorOut
             /\ \A c \in poll.rows : c.seq >= cursorOut /\ c.seq < poll.next
  <2>1. \A c \in screens[k].rows : c.seq \in Nat
    BY PollIs DEF Chunk
  <2>2. /\ screens[k].from = cursorOut
        /\ \A c \in screens[k].rows : c.seq >= cursorOut /\ \E d \in chunks : d.seq >= c.seq
    BY <1>1, <1>5 DEF ConsoleInv, Turns
  <2>3. ASSUME NEW c \in screens[k].rows PROVE c.seq < next
    <3>1. PICK d \in chunks : d.seq >= c.seq
      BY <2>2
    <3> QED
      BY <1>2, <1>3, <2>1, <3>1
  <2> QED
    BY <1>4, <2>2, <2>3
<1> QED
  BY <1>1, <1>4, <1>5, PollIs, PollStepKeeps, PollStepRests

LEMMA PollFailsKeeps ==
    ASSUME ConsoleInv, NEW k \in 1..MaxScreens, PollFails(k)
    PROVE  ConsoleInv' /\ AgentRests
<1>1. PollStep(k, NoPoll)
  BY DEF PollFails, PollStep
<1> QED
  BY <1>1, NoPollIsTyped, PollIs, PollStepKeeps, PollStepRests

\* Chunks at the end of others.
LEMMA Continued ==
    ASSUME NEW s \in Seq(Chunk), NEW t \in Seq(Chunk)
    PROVE  /\ s \o t \in Seq(Chunk)
           /\ \A i \in DOMAIN (s \o t) :
                \/ i \in DOMAIN s /\ (s \o t)[i] = s[i] /\ i <= Len(s)
                \/ i - Len(s) \in DOMAIN t /\ (s \o t)[i] = t[i - Len(s)] /\ i > Len(s)
  BY ConcatProperties

LEMMA ShowKeeps ==
    ASSUME OneScreen, ConsoleInv, NEW k \in 1..MaxScreens, Show(k)
    PROVE  ConsoleInv' /\ AgentRests
<1> DEFINE rows == screens[k].rows
           t == BySeq(rows)
<1>1. /\ screens[k].pc = "answered"
      /\ screen' = (IF screens[k].lost THEN t ELSE screen \o t)
      /\ cursorOut' = IF rows = {} THEN cursorOut ELSE screens[k].next
      /\ screens' = [screens EXCEPT ![k] = NoPoll]
      /\ UNCHANGED <<printed, buffer, outSeq, flush, delayed, chunks, ended, mixedUp>>
  BY DEF Show
<1>2. /\ PtyOutputTypeOK /\ rows \in SUBSET Chunk /\ IsFiniteSet(rows) /\ OneRowEach(rows)
      /\ screens[k].next \in Nat /\ cursorOut \in Nat
  BY PollIs
<1>3. /\ t \in Seq(Chunk) /\ \A i \in DOMAIN t : t[i] \in rows
      /\ \A i, j \in DOMAIN t : i < j => t[i].seq < t[j].seq
  BY <1>2, RowsAreListed
<1> HIDE DEF t
<1>4. screen \in Seq(Chunk) /\ DOMAIN screen \subseteq Nat /\ DOMAIN t \subseteq Nat /\ Len(screen) \in Nat
  BY <1>2, <1>3 DEF PtyOutputTypeOK
<1>5. \A i \in DOMAIN screen : screen[i] \in Chunk /\ screen[i].seq \in Nat
  <2>1. \A i \in DOMAIN screen : screen[i] \in Chunk
    BY <1>4
  <2> QED
    BY <2>1 DEF Chunk
<1>6. /\ screen' \in Seq(Chunk)
      /\ \/ screen' = t
         \/ (/\ \A i \in DOMAIN screen' :
                  \/ (i \in DOMAIN screen /\ screen'[i] = screen[i] /\ i <= Len(screen))
                  \/ (i - Len(screen) \in DOMAIN t /\ screen'[i] = t[i - Len(screen)] /\ i > Len(screen)))
  BY <1>1, <1>3, <1>4, Continued
<1>7. \A i \in DOMAIN screen' : \/ \E j \in DOMAIN screen : screen'[i] = screen[j]
                                \/ screen'[i] \in rows
  BY <1>3, <1>6
<1>8. \A j \in 1..MaxScreens : screens'[j] = NoPoll
  <2>1. \A j \in 1..MaxScreens : j = k
    BY PtyOutputAssumption DEF OneScreen
  <2> QED
    BY <1>1, <1>2, <2>1 DEF PtyOutputTypeOK
<1>9. AgentRests
  <2>1. \A c : CarriedNext(c) => Carried(c)
    <3> SUFFICES ASSUME NEW c, CarriedNext(c) PROVE Carried(c)
      OBVIOUS
    <3>1. CASE \E i \in DOMAIN screen' : c = screen'[i]
      BY <1>7, <3>1 DEF Carried
    <3>2. CASE \E j \in 1..MaxScreens : c \in screens'[j].rows
      BY <1>8, <3>2, NoPollIsTyped
    <3> QED
      BY <1>1, <3>1, <3>2 DEF CarriedNext, Carried
  <2> QED
    BY <1>1, <2>1 DEF AgentRests
<1>10. ListsAreSound'
  <2>1. screens' \in [1..MaxScreens -> ScreenPoll]
    BY <1>1, <1>2, NoPollIsTyped DEF PtyOutputTypeOK
  <2>2. cursorOut' \in Nat
    BY <1>1, <1>2
  <2>3. PtyOutputTypeOK'
    BY <1>1, <1>2, <1>6, <2>1, <2>2 DEF PtyOutputTypeOK
  <2>4. \A j \in 1..MaxScreens : /\ IsFiniteSet(screens'[j].rows) /\ OneRowEach(screens'[j].rows)
                                 /\ screens'[j].rows = {}
    BY <1>8, NoPollIsTyped
  <2> QED
    BY <1>1, <2>3, <2>4 DEF ConsoleInv, ListsAreSound, OneRowEach
<1>11. ASSUME ~mixedUp PROVE Turns'
  <2>1. /\ \A i, j \in DOMAIN screen : i < j => screen[i].seq < screen[j].seq
        /\ \A i \in DOMAIN screen : screen[i].seq < cursorOut
        /\ \A c \in rows : c.seq >= cursorOut /\ c.seq < screens[k].next
    BY <1>1, <1>11 DEF ConsoleInv, Turns
  <2>2. \A c \in rows : c.seq \in Nat
    BY <1>2 DEF Chunk
  <2>3. /\ \A c \in rows : c.seq < cursorOut'
        /\ cursorOut' >= cursorOut
    BY <1>1, <1>2, <2>1, <2>2
  <2>4. ASSUME NEW i \in DOMAIN screen' PROVE screen'[i].seq < cursorOut'
    <3>1. cursorOut' \in Nat
      BY <1>1, <1>2
    <3>2. ASSUME NEW j \in DOMAIN screen, screen'[i] = screen[j] PROVE screen'[i].seq < cursorOut'
      BY <1>2, <1>5, <2>1, <2>3, <3>1, <3>2
    <3>3. CASE screen'[i] \in rows
      BY <2>3, <3>3
    <3> QED
      BY <1>7, <3>2, <3>3
  <2>5. \A i, j \in DOMAIN screen' : i < j => screen'[i].seq < screen'[j].seq
    <3> SUFFICES ASSUME NEW i \in DOMAIN screen', NEW j \in DOMAIN screen', i < j
                 PROVE  screen'[i].seq < screen'[j].seq
      OBVIOUS
    <3>1. i \in Nat /\ j \in Nat
      BY <1>6
    <3>2. CASE screen' = t
      BY <1>3, <3>2
    <3> DEFINE n == Len(screen)
    <3>3. n \in Nat
      BY <1>4
    <3> HIDE DEF n
    <3>4. CASE \A h \in DOMAIN screen' :
                  \/ (h \in DOMAIN screen /\ screen'[h] = screen[h] /\ h <= n)
                  \/ (h - n \in DOMAIN t /\ screen'[h] = t[h - n] /\ h > n)
      <4>1. CASE i <= n /\ j <= n
        BY <2>1, <3>1, <3>3, <3>4, <4>1
      <4>2. CASE i <= n /\ j > n
        <5>1. screen'[i] = screen[i] /\ i \in DOMAIN screen /\ screen'[j] = t[j - n] /\ j - n \in DOMAIN t
          BY <3>1, <3>3, <3>4, <4>2
        <5>2. t[j - n] \in rows
          BY <1>3, <5>1
        <5> QED
          BY <1>2, <1>5, <2>1, <2>2, <5>1, <5>2
      <4>3. CASE i > n /\ j > n
        <5>1. i - n < j - n
          BY <3>1, <3>3
        <5> QED
          BY <1>3, <3>1, <3>3, <3>4, <4>3, <5>1
      <4> QED
        BY <3>1, <3>3, <4>1, <4>2, <4>3
    <3> QED
      BY <1>6, <3>2, <3>4 DEF n
  <2> QED
    BY <1>8, <2>4, <2>5, NoPollIsTyped, TurnsNext
<1> QED
  BY <1>1, <1>9, <1>10, <1>11 DEF ConsoleInv

LEMMA NothingIsShown ==
    ASSUME PtyOutputTypeOK', IsFiniteSet(chunks'), OneRowEach(chunks'), screen' = <<>>,
           ~mixedUp' => \A k \in 1..MaxScreens : screens'[k] = NoPoll,
           \A k \in 1..MaxScreens :
              /\ IsFiniteSet(screens'[k].rows) /\ OneRowEach(screens'[k].rows)
              /\ screens'[k].pc \in {"idle", "asked"} => screens'[k].rows = {}
    PROVE  ConsoleInv'
<1>1. ListsAreSound'
  BY DEF ListsAreSound, OneRowEach
<1>2. ASSUME ~mixedUp' PROVE Turns'
  BY <1>2, NoPollIsTyped, TurnsNext
<1> QED
  BY <1>1, <1>2 DEF ConsoleInv

LEMMA ReattachKeeps == ASSUME ConsoleInv, Reattach PROVE ConsoleInv' /\ AgentRests
<1>1. PtyOutputTypeOK /\ IsFiniteSet(chunks) /\ OneRowEach(chunks)
  BY DEF ConsoleInv, ListsAreSound
<1>2. \A k \in 1..MaxScreens : screens'[k] = NoPoll
  BY DEF Reattach
<1>3. IsFiniteSet(chunks') /\ OneRowEach(chunks') /\ screen' = <<>>
  BY <1>1 DEF Reattach, OneRowEach
<1>6. PtyOutputTypeOK'
  <2>1. screens' \in [1..MaxScreens -> ScreenPoll]
    BY NoPollIsTyped DEF Reattach
  <2>2. screen' \in Seq(Chunk)
    BY <1>3
  <2>3. UNCHANGED <<printed, buffer, outSeq, flush, delayed, chunks, ended>>
        /\ cursorOut' = 0 /\ mixedUp' = FALSE
    BY DEF Reattach
  <2> QED
    BY <1>1, <2>1, <2>2, <2>3 DEF PtyOutputTypeOK
<1>4. ConsoleInv'
  BY <1>2, <1>3, <1>6, NoPollIsTyped, NothingIsShown
<1>5. \A c : CarriedNext(c) => Carried(c)
  BY <1>2, NoPollIsTyped DEF Reattach, CarriedNext, Carried
<1> QED
  BY <1>4, <1>5 DEF Reattach, AgentRests

LEMMA ClearKeeps == ASSUME ConsoleInv, ClearReplay PROVE ConsoleInv' /\ AgentRests
<1>1. PtyOutputTypeOK
  BY DEF ConsoleInv, ListsAreSound
<1>2. PtyOutputTypeOK' /\ IsFiniteSet(chunks') /\ OneRowEach(chunks') /\ screen' = <<>>
  BY <1>1, FS_EmptySet DEF ClearReplay, PtyOutputTypeOK, OneRowEach
<1>3. AgentRests
  <2>1. \A c : CarriedNext(c) => Carried(c)
    BY DEF ClearReplay, CarriedNext, Carried
  <2> QED
    BY <2>1 DEF ClearReplay, AgentRests
<1>4. CASE mixedUp'
  <2>1. \A k \in 1..MaxScreens :
          /\ IsFiniteSet(screens'[k].rows) /\ OneRowEach(screens'[k].rows)
          /\ screens'[k].pc \in {"idle", "asked"} => screens'[k].rows = {}
    BY DEF ClearReplay, ConsoleInv, ListsAreSound, OneRowEach
  <2> QED
    BY <1>2, <1>3, <1>4, <2>1, NothingIsShown
<1>5. CASE ~mixedUp'
  <2>1. ~mixedUp /\ \A k \in 1..MaxScreens : screens'[k].pc = "idle" /\ screens'[k].rows = {}
    BY <1>1, <1>5 DEF ClearReplay, ConsoleInv, ListsAreSound, PtyOutputTypeOK
  <2>2. ListsAreSound'
    BY <1>2, <2>1, FS_EmptySet DEF ListsAreSound, OneRowEach
  <2>3. Turns'
    BY <1>2, <2>1, TurnsNext
  <2> QED
    BY <1>3, <2>2, <2>3 DEF ConsoleInv
<1> QED
  BY <1>4, <1>5

-------------------------------------------------------------------------------
(* The theorem.                                                            *)

LEMMA AgentKeeps ==
    ASSUME PtyOutputIInv,
           \/ PrintByte \/ ShellEnds
           \/ \E f \in Flusher : Take(f) \/ Posted(f) \/ NotPosted(f)
           \/ \E post \in delayed : ArrivesLate(post)
    PROVE  PtyOutputIInv'
<1>1. ConsoleInv /\ AgentInv /\ PtyOutputTypeOK
  BY DEF PtyOutputIInv, ConsoleInv, ListsAreSound
<1>2. CASE PrintByte
  BY <1>1, <1>2, PrintLeaves, PrintKeeps DEF PtyOutputIInv
<1>3. CASE ShellEnds
  <2>1. \A c : CarriedNext(c) => Carried(c)
    BY <1>3 DEF ShellEnds, CarriedNext, Carried
  <2>2. (\A c : Carried(c) => c.seq <= outSeq)'
    BY <1>1, <1>3, <2>1, NumbersNext DEF ShellEnds, AgentInv
  <2>3. AgentInv'
    BY <1>3, <2>2 DEF ShellEnds, AgentInv
  <2> QED
    BY <1>1, <1>3, <2>3, EndLeaves DEF PtyOutputIInv
<1>4. ASSUME NEW f \in Flusher, Take(f) \/ Posted(f) \/ NotPosted(f) PROVE PtyOutputIInv'
  <2>1. CASE Take(f)
    BY <1>1, <2>1, TakeLeaves, TakeKeeps DEF PtyOutputIInv
  <2>2. CASE Posted(f)
    BY <1>1, <2>2, PostedLeaves, PostedKeeps DEF PtyOutputIInv
  <2>3. CASE NotPosted(f)
    BY <1>1, <2>3, NotPostedLeaves, NotPostedKeeps DEF PtyOutputIInv
  <2> QED
    BY <1>4, <2>1, <2>2, <2>3
<1>5. ASSUME NEW post \in delayed, ArrivesLate(post) PROVE PtyOutputIInv'
  <2>1. chunks' \subseteq chunks \cup {post}
    BY <1>5, StoreAddsThePost DEF ArrivesLate
  <2>2. \A c : CarriedNext(c) => Carried(c)
    BY <1>5, <2>1 DEF ArrivesLate, CarriedNext, Carried
  <2>3. AgentRests
    BY <1>5, <2>2 DEF ArrivesLate, AgentRests
  <2> QED
    BY <1>1, <1>5, <2>3, LateLeaves, RestKeeps DEF PtyOutputIInv
<1> QED
  BY <1>2, <1>3, <1>4, <1>5

LEMMA ConsoleKeeps ==
    ASSUME OneScreen, PtyOutputIInv,
           \/ Reattach \/ ClearReplay
           \/ \E k \in 1..MaxScreens : \/ PollOutput(k) \/ ListChunks(k) \/ FindOldest(k)
                                       \/ FindHighest(k) \/ Show(k) \/ PollFails(k)
    PROVE  PtyOutputIInv'
<1>1. ConsoleInv /\ AgentInv
  BY DEF PtyOutputIInv
<1>2. \A c \in chunks : c.seq <= outSeq
  BY <1>1 DEF AgentInv, Carried
<1>3. ConsoleInv' /\ AgentRests
  <2>1. ASSUME NEW k \in 1..MaxScreens,
               \/ PollOutput(k) \/ ListChunks(k) \/ FindOldest(k)
               \/ FindHighest(k) \/ Show(k) \/ PollFails(k)
        PROVE  ConsoleInv' /\ AgentRests
    BY <1>1, <1>2, <2>1, PollOutputKeeps, ListChunksKeeps, FindOldestKeeps, FindHighestKeeps,
       ShowKeeps, PollFailsKeeps
  <2> QED
    BY <1>1, <2>1, ReattachKeeps, ClearKeeps
<1> QED
  BY <1>1, <1>3, RestKeeps DEF PtyOutputIInv

(* With one poll under way at a time, a terminal shows the shell's bytes   *)
(* in order and none twice while the shell runs, however often posts are   *)
(* retried, arrive late or leave the window (FlushAsync, pull_output).     *)
THEOREM PrintedSafety == ASSUME OneScreen PROVE PtyOutputSpec => []PtyOutputInv
<1>1. PtyOutputInit => PtyOutputIInv
  <2> SUFFICES ASSUME PtyOutputInit PROVE PtyOutputIInv
    OBVIOUS
  <2>1. /\ printed = 0 /\ buffer = <<>> /\ outSeq = 0 /\ flush = [f \in Flusher |-> NoFlush]
        /\ delayed = {} /\ chunks = {} /\ screens = [k \in 1..MaxScreens |-> NoPoll]
        /\ cursorOut = 0 /\ screen = <<>> /\ ended = FALSE /\ mixedUp = FALSE
    BY DEF PtyOutputInit
  <2>2. PtyOutputTypeOK
    <3>1. screens \in [1..MaxScreens -> ScreenPoll] /\ flush \in [Flusher -> Chunk]
      BY <2>1, NoFlushIsTyped, NoPollIsTyped
    <3>2. buffer \in Seq(1..MaxPrinted) /\ screen \in Seq(Chunk)
      BY <2>1
    <3>3. 0 \in 0..MaxPrinted /\ {} \subseteq Chunk /\ FALSE \in BOOLEAN /\ 0 \in Nat
      BY PtyOutputAssumption
    <3>4. /\ printed = 0 /\ outSeq = 0 /\ cursorOut = 0 /\ ended = FALSE /\ mixedUp = FALSE
          /\ chunks = {} /\ delayed = {}
      BY <2>1
    <3> QED
      BY <3>1, <3>2, <3>3, <3>4 DEF PtyOutputTypeOK
  <2>3. \A k \in 1..MaxScreens : screens[k] = NoPoll
    BY <2>1
  <2>4. ListsAreSound
    BY <2>1, <2>2, <2>3, NoPollIsTyped, FS_EmptySet DEF ListsAreSound, OneRowEach
  <2>5. Turns
    BY <2>1, <2>3, NoPollIsTyped DEF Turns
  <2>6. \A c : ~Carried(c)
    <3>1. DOMAIN screen = {}
      BY <2>1
    <3> QED
      BY <2>1, <2>3, <3>1, NoPollIsTyped DEF Carried
  <2>7. flush["pump"] = NoFlush /\ flush["last"] = NoFlush
    BY <2>1 DEF Flusher
  <2>8. Piped
    <3>1. \A n \in Nat : AtMost(<<>>, n)
      BY NothingIsBefore
    <3>2. <<>> \in Bytes /\ Increasing(<<>>) /\ Before(<<>>, <<>>)
      BY NothingIsBefore
    <3> HIDE DEF NoFlush, AtMost, Increasing, Before
    <3> QED
      BY <2>1, <2>7, <3>1, <3>2, NoFlushIs DEF Piped, Flushing
  <2> QED
    BY <2>4, <2>5, <2>6, <2>8 DEF PtyOutputIInv, ConsoleInv, AgentInv, Taken, Placed
<1>2. PtyOutputIInv /\ [PtyOutputNext]_ptyOutputVars => PtyOutputIInv'
  <2> SUFFICES ASSUME PtyOutputIInv, [PtyOutputNext]_ptyOutputVars PROVE PtyOutputIInv'
    OBVIOUS
  <2>1. CASE PtyOutputNext
    BY <2>1, AgentKeeps, ConsoleKeeps DEF PtyOutputNext
  <2>2. CASE UNCHANGED ptyOutputVars
    <3>1. UNCHANGED <<printed, buffer, outSeq, flush, delayed, chunks, screens, cursorOut, screen,
                      ended, mixedUp>>
      BY <2>2 DEF ptyOutputVars
    <3>2. ConsoleInv'
      <4>1. PtyOutputTypeOK'
        BY <3>1 DEF PtyOutputIInv, ConsoleInv, ListsAreSound, PtyOutputTypeOK
      <4> QED
        BY <3>1, <4>1, WindowStays, AgentLeavesConsole DEF PtyOutputIInv
    <3>3. AgentRests
      BY <3>1 DEF AgentRests, CarriedNext, Carried
    <3> QED
      BY <3>2, <3>3, RestKeeps DEF PtyOutputIInv
  <2> QED
    BY <2>1, <2>2
<1>3. PtyOutputIInv => PtyOutputInv
  <2> SUFFICES ASSUME PtyOutputIInv, ~ended, ~mixedUp PROVE Reads(screen)
    BY DEF PtyOutputIInv, ConsoleInv, ListsAreSound, PtyOutputInv, ShownInOrder
  <2>1. Taken /\ Placed /\ Turns
    BY DEF PtyOutputIInv, ConsoleInv, AgentInv
  <2>2. \A i \in DOMAIN screen : Carried(screen[i])
    BY DEF Carried
  <2> QED
    BY <2>1, <2>2 DEF Reads, Taken, Placed, Turns
<1> QED
  BY <1>1, <1>2, <1>3, PTL DEF PtyOutputSpec


-------------------------------------------------------------------------------
(* Wakes: the proof.                                                       *)

USE QueueAssumption, WakeAssumption

Ticks == [pc : WakePc, todo : SUBSET Request, of : [Request -> Command \cup {NoCommand}],
          request : Request \cup {NoRequest}, command : Command \cup {NoCommand},
          late : SUBSET Request, heard : [Request -> Heard], awake : BOOLEAN]
Rowed == [status : WakeOpen \cup WakeOver \cup {"none", "gone"}, command : Command \cup {NoCommand}]

LEMMA NoTickIsTyped == NoTick \in Ticks
  BY DEF NoTick, Ticks, WakePc, Heard

(* What the relays, the other commands' fate and time do to the queue: no  *)
(* command comes to life, and one is done if its packet was sent.          *)
QueueMoves ==
    /\ QueueTypeOK'
    /\ UNCHANGED <<wakeRows, tick, histories>>
    /\ \A c \in Command :
        /\ status'[c] = "unissued" <=> status[c] = "unissued"
        /\ status'[c] \in {"pending", "claimed"} => status[c] \in {"pending", "claimed"}
        /\ c \in sentFor => status'[c] \in {"claimed", "done", "deleted"}
        /\ status'[c] = "done" => c \in sentFor

RelayStep ==
    \/ \E m \in Machine : DeletePeer(m) \/ \E a \in Agent : RelayClaims(a, m)
    \/ \E c \in Command : LapseWake(c) \/ \E ok \in BOOLEAN : RelayAnswers(c, ok)
    \/ SweepWakes

LEMMA RelaysMoveTheQueue ==
    ASSUME WakeIInv, RelayStep
    PROVE  QueueMoves
<1> USE DEF WakeIInv, WakeTypeOK, QueueTypeOK, CommandStatus, NoRow, QueueMoves, SendersAreReal
<1>1. ASSUME NEW m \in Machine, DeletePeer(m)
      PROVE  QueueMoves
  <2> DEFINE gone == {c \in Command : HasRow(c) /\ machine[c] = m}
  <2>1. /\ status' = [c \in Command |-> IF c \in gone THEN "deleted" ELSE status[c]]
        /\ machine' = [c \in Command |-> IF c \in gone THEN NoMachine ELSE machine[c]]
        /\ claimedBy' = [c \in Command |-> IF c \in gone THEN NoAgent ELSE claimedBy[c]]
        /\ result' = [c \in Command |-> IF c \in gone THEN "none" ELSE result[c]]
        /\ lapsed' = lapsed \ gone
        /\ UNCHANGED <<wakeRows, tick, histories>>
    BY <1>1 DEF DeletePeer, DeleteRows
  <2>2. \A c \in gone : status[c] # "unissued"
    BY DEF HasRow
  <2> HIDE DEF gone
  <2> QED
    BY <2>1, <2>2
<1>2. ASSUME NEW m \in Machine, NEW a \in Agent, RelayClaims(a, m)
      PROVE  QueueMoves
  <2>1. /\ status' = [c \in Command |->
                        IF c \in Claimable(m) THEN "claimed"
                        ELSE IF c \in PendingOf(m) THEN "expired" ELSE status[c]]
        /\ claimedBy' = [c \in Command |-> IF c \in Claimable(m) THEN a ELSE claimedBy[c]]
        /\ UNCHANGED <<machine, result, lapsed, wakeRows, tick, histories>>
    BY <1>2 DEF RelayClaims, Claim
  <2>2. \A c \in Claimable(m) \cup PendingOf(m) : status[c] = "pending"
    BY DEF Claimable, PendingOf
  <2> QED
    BY <2>1, <2>2
<1>3. ASSUME NEW c \in Command, LapseWake(c)
      PROVE  QueueMoves
  BY <1>3 DEF LapseWake, Lapse
<1>4. ASSUME NEW c \in Command, NEW ok \in BOOLEAN, RelayAnswers(c, ok)
      PROVE  QueueMoves
  <2>1. /\ result' = [result EXCEPT ![c] = IF ok THEN "ok" ELSE "fail"]
        /\ status' = [status EXCEPT ![c] = IF ok THEN "done" ELSE "failed"]
        /\ status[c] = "claimed" /\ (ok <=> c \in sentFor)
        /\ UNCHANGED <<machine, claimedBy, lapsed, wakeRows, tick, histories>>
    BY <1>4 DEF RelayAnswers, RecordResult, HasRow
  <2> QED
    BY <2>1
<1>5. CASE SweepWakes
  BY <1>5 DEF SweepWakes, ExpireStale
<1> QED
  BY <1>1, <1>2, <1>3, <1>4, <1>5 DEF RelayStep

(* The one-pass part of the invariant after a step, said of the primed     *)
(* tables, so that Quiet and OnlyBy need not be expanded where a step      *)
(* leaves the queue alone.                                                 *)
LiveNext(r) == {c \in Command : handed'[c] = r /\ status'[c] \in {"pending", "claimed"}}
QuietNext(r) == LiveNext(r) = {} /\ r \notin sentFor'
OnlyByNext(c, r) == LiveNext(r) \subseteq {c} /\ (r \in sentFor' => c \in sentFor')

NextOneByOne ==
    /\ \A p, q \in Pass : p = q \/ tick'[p].pc = "idle" \/ tick'[q].pc = "idle"
    /\ \A r \in Request : \A c, d \in LiveNext(r) : c = d
    /\ \A r \in Request : wake'[r].status = "pending" => wake'[r].command = NoCommand
    /\ \A r \in Request : wake'[r].status \in {"pending", "cancelled"} => QuietNext(r)
    /\ \A r \in Request : wake'[r].status = "relaying" /\ wake'[r].command # NoCommand
                          => OnlyByNext(wake'[r].command, r)
    /\ \A p \in Pass : tick'[p].pc \in {"queue", "record", "broadcast"} =>
        wake'[tick'[p].request].status \in {"relaying", "gone"}
    /\ \A p \in Pass : tick'[p].pc \in {"queue", "broadcast"} =>
        /\ wake'[tick'[p].request].command = NoCommand
        /\ QuietNext(tick'[p].request)
    /\ \A p \in Pass : tick'[p].pc = "record" => OnlyByNext(tick'[p].command, tick'[p].request)
    /\ \A p \in Pass : tick'[p].pc = "reconcile" => \A r \in tick'[p].todo :
        \/ wake'[r].status = "gone"
        \/ wake'[r].status = "relaying" /\ wake'[r].command = tick'[p].of[r]

LEMMA OneByOneIs ==
    ASSUME NextOneByOne
    PROVE  OneByOne'
<1>1. OneAtATime'
  BY DEF NextOneByOne, OneAtATime, WakeAt
<1>2. \A r \in Request : LiveNext(r) = LiveWakes(r)'
  BY DEF LiveNext, LiveWakes
<1>3. \A p \in Pass : tick'[p].pc \in {"queue", "broadcast"} => Quiet(tick[p].request)'
  BY DEF NextOneByOne, Quiet, QuietNext, LiveNext, LiveWakes
<1>4. \A p \in Pass : tick'[p].pc = "record" => OnlyBy(tick[p].command, tick[p].request)'
  BY DEF NextOneByOne, OnlyBy, OnlyByNext, LiveNext, LiveWakes
<1>5. \A r \in Request : wake'[r].status = "relaying" /\ wake'[r].command # NoCommand
                         => OnlyBy(wake[r].command, r)'
  BY DEF NextOneByOne, OnlyBy, OnlyByNext, LiveNext, LiveWakes
<1>6. \A r \in Request : wake'[r].status \in {"pending", "cancelled"} => Quiet(r)'
  BY DEF NextOneByOne, Quiet, QuietNext, LiveNext, LiveWakes
<1>11. \A p \in Pass : tick'[p].pc \in {"queue", "record", "broadcast"} =>
        wake'[tick'[p].request].status \in {"relaying", "gone"}
  BY DEF NextOneByOne
<1>7. \A p \in Pass : tick'[p].pc \in {"queue", "broadcast"} =>
        wake'[tick'[p].request].command = NoCommand
  BY DEF NextOneByOne
<1>8. \A r \in Request : \A c, d \in LiveWakes(r)' : c = d
  BY <1>2 DEF NextOneByOne
<1>9. \A r \in Request : wake'[r].status = "pending" => wake'[r].command = NoCommand
  BY DEF NextOneByOne
<1>10. \A p \in Pass : tick'[p].pc = "reconcile" => \A r \in tick'[p].todo :
        \/ wake'[r].status = "gone"
        \/ wake'[r].status = "relaying" /\ wake'[r].command = tick'[p].of[r]
  BY DEF NextOneByOne
<1> QED
  BY <1>1, <1>3, <1>4, <1>5, <1>6, <1>7, <1>8, <1>9, <1>10, <1>11
  DEF OneByOne, WakeIs, WakeAt, Quiet, OnlyBy

LEMMA QueueMovesKeep ==
    ASSUME WakeIInv, QueueMoves
    PROVE  WakeIInv'
<1> USE DEF WakeIInv, QueueMoves, wakeRows, restOfRows, histories, WakeIs, WakeAt
<1>1. WakeTypeOK'
  BY DEF WakeTypeOK
<1>2. TickTyped' /\ RelaysAreTheirs' /\ NoneIsUntouched' /\ PassesAreReal' /\ SentIsReal'
  BY DEF TickTyped, RelaysAreTheirs, MadeFor, NoneIsUntouched, PassesAreReal, SentIsReal
<1>3. SendersAreReal'
  BY DEF SendersAreReal
<1>4. \A r \in Request : LiveNext(r) \subseteq LiveWakes(r)
  BY DEF LiveWakes, LiveNext
<1>5. ASSUME OneByOne PROVE NextOneByOne
  <2>1. OneAtATime
    BY <1>5 DEF OneByOne
  <2>2. \A r : Quiet(r) => QuietNext(r)
    BY DEF Quiet, LiveWakes, QuietNext, LiveNext
  <2>3. \A r, c : OnlyBy(c, r) => OnlyByNext(c, r)
    BY DEF OnlyBy, LiveWakes, OnlyByNext, LiveNext
  <2>4. \A r \in Request : \A c, d \in LiveNext(r) : c = d
    BY <1>4, <1>5 DEF OneByOne
  <2> HIDE DEF Quiet, OnlyBy, LiveWakes, QuietNext, OnlyByNext, LiveNext
  <2> QED
    BY <1>5, <2>1, <2>2, <2>3, <2>4 DEF OneByOne, NextOneByOne, OneAtATime
<1> QED
  BY <1>1, <1>2, <1>3, <1>5, OneByOneIs

(* Operators, check-ins and time: rows are made and withdrawn, none of     *)
(* them while a relay has its command.                                     *)
RowMoves ==
    /\ WakeTypeOK'
    /\ UNCHANGED <<queueVars, tick, histories>>
    /\ \A r \in Request : r \in asking' => wake'[r].status = "none"
    /\ \A r \in Request :
        \/ wake'[r] = wake[r]
        \/ /\ wake[r].status # "none"
           /\ wake'[r].status = "gone" /\ wake'[r].command = NoCommand
        \/ /\ wake[r].status \in {"none", "pending"}
           /\ wake'[r].status \in {"pending", "already_awake", "unwakeable", "cancelled"}
           /\ wake'[r].command = wake[r].command

RowStep ==
    \/ \E r \in Request : \/ AskWake(r) \/ CancelWake(r) \/ PassDeadline(r) \/ WaitLong(r)
                          \/ \E to \in WakeOpen \cup WakeOver : RequestWake(r, to)
    \/ ForgetWakes \/ CheckIn

LEMMA OperatorsMoveRows ==
    ASSUME WakeIInv, RowStep
    PROVE  RowMoves
<1> USE DEF WakeIInv, WakeTypeOK, QueueTypeOK, queueVars, histories, RowMoves, WakeIs,
            WakeOpen, WakeOver, Heard
<1>1. \A r \in Request : r \in asking => wake[r].status = "none"
  BY DEF NoneIsUntouched
<1>2. ASSUME NEW r \in Request, AskWake(r)
      PROVE  RowMoves
  BY <1>1, <1>2 DEF AskWake
<1>3. ASSUME NEW r \in Request, CancelWake(r)
      PROVE  RowMoves
  <2>1. wake' = [wake EXCEPT ![r].status = "cancelled"] /\ wake[r].status = "pending"
    BY <1>3 DEF CancelWake, WakeSet
  <2> QED
    <3>1. UNCHANGED <<asking, queueVars, tick, histories, late, heard>>
      BY <1>3 DEF CancelWake
    <3>3. WakeTypeOK'
      BY <2>1, <3>1
    <3>2. /\ wake'[r].status = "cancelled" /\ wake'[r].command = wake[r].command
          /\ \A s \in Request : s # r => wake'[s] = wake[s]
      BY <2>1
    <3> HIDE DEF WakeIInv, WakeTypeOK, QueueTypeOK, queueVars, histories
    <3>4. \A s \in Request : s \in asking' => wake'[s].status = "none"
      BY <1>1, <2>1, <3>1, <3>2
    <3>5. \A s \in Request : s # r => wake'[s] = wake[s]
      BY <3>2
    <3> QED
      BY <2>1, <3>1, <3>2, <3>3, <3>4, <3>5
<1>4. ASSUME NEW r \in Request, PassDeadline(r) \/ WaitLong(r)
      PROVE  RowMoves
  <2>1. CASE PassDeadline(r)
    BY <1>1, <2>1 DEF PassDeadline
  <2>2. CASE WaitLong(r)
    BY <1>1, <2>2 DEF WaitLong
  <2> QED
    BY <1>4, <2>1, <2>2
<1>5. ASSUME NEW r \in Request, NEW to \in WakeOpen \cup WakeOver, RequestWake(r, to)
      PROVE  RowMoves
  <2>1. wake[r].status = "none" /\ r \in asking /\ to \in {"pending", "already_awake", "unwakeable"}
    BY <1>1, <1>5 DEF RequestWake
  <2>2. wake' = [wake EXCEPT ![r].status = to]
    BY <1>5, <2>1 DEF RequestWake, WakeSet
  <2> QED
    BY <1>1, <1>5, <2>1, <2>2 DEF RequestWake
<1>6. CASE ForgetWakes
  BY <1>1, <1>6 DEF ForgetWakes
<1>7. CASE CheckIn
  BY <1>1, <1>7 DEF CheckIn
<1> QED
  BY <1>2, <1>3, <1>4, <1>5, <1>6, <1>7 DEF RowStep

\* As long as a step leaves the queue and the histories alone.
QueueStands == UNCHANGED <<queueVars, sentFor, handed>>

LEMMA QuietStays ==
    ASSUME QueueStands
    PROVE  /\ \A r : LiveNext(r) = LiveWakes(r)
           /\ \A r : QuietNext(r) <=> Quiet(r)
           /\ \A r, c : OnlyByNext(c, r) <=> OnlyBy(c, r)
  BY DEF QueueStands, queueVars, LiveNext, LiveWakes, QuietNext, Quiet, OnlyByNext, OnlyBy

LEMMA RowMovesKeep ==
    ASSUME WakeIInv, RowMoves
    PROVE  WakeIInv'
<1> USE DEF WakeIInv, WakeIs, WakeAt
<1>1. /\ UNCHANGED <<status, machine, claimedBy, result, lapsed, tick, sentFor, handed, overlapped>>
      /\ WakeTypeOK'
      /\ QueueStands
  BY DEF RowMoves, queueVars, histories, QueueStands
<1>2. \A r \in Request :
        \/ wake'[r] = wake[r]
        \/ /\ wake[r].status # "none"
           /\ wake'[r].status = "gone" /\ wake'[r].command = NoCommand
        \/ /\ wake[r].status \in {"none", "pending"}
           /\ wake'[r].status \in {"pending", "already_awake", "unwakeable", "cancelled"}
           /\ wake'[r].command = wake[r].command
  BY DEF RowMoves
<1>3. TickTyped' /\ PassesAreReal' /\ SendersAreReal'
  BY <1>1 DEF TickTyped, PassesAreReal, SendersAreReal
<1>4. RelaysAreTheirs' /\ SentIsReal'
  BY <1>1, <1>2 DEF RelaysAreTheirs, MadeFor, SentIsReal
<1>5. NoneIsUntouched'
  <2>1. \A r \in Request : r \in asking' => wake'[r].status = "none"
    BY DEF RowMoves
  <2> QED
    BY <1>1, <1>2, <2>1 DEF NoneIsUntouched
<1>6. ASSUME OneByOne PROVE NextOneByOne
  <2>1. \A r \in Request : wake[r].status = "none" => Quiet(r) /\ wake[r].command = NoCommand
    BY DEF NoneIsUntouched, Quiet, LiveWakes
  <2>2. /\ \A r : LiveNext(r) = LiveWakes(r)
        /\ \A r : QuietNext(r) <=> Quiet(r)
        /\ \A r, c : OnlyByNext(c, r) <=> OnlyBy(c, r)
    BY <1>1, QuietStays
  <2>3. \A p \in Pass : tick[p].pc \in Holding => tick[p].request \in Request
    BY DEF TickTyped
  <2>4. \A p \in Pass : tick[p].todo \subseteq Request
    BY DEF WakeTypeOK
  <2> USE <1>1, <1>2, <1>6, <2>1, <2>2, <2>3, <2>4
  <2> HIDE DEF WakeIInv
  <2>5. /\ \A p, q \in Pass : p = q \/ tick'[p].pc = "idle" \/ tick'[q].pc = "idle"
        /\ \A r \in Request : \A c, d \in LiveNext(r) : c = d
    BY DEF OneByOne, OneAtATime
  <2>6. /\ \A r \in Request : wake'[r].status = "pending" => wake'[r].command = NoCommand
        /\ \A r \in Request : wake'[r].status \in {"pending", "cancelled"} => QuietNext(r)
        /\ \A r \in Request : wake'[r].status = "relaying" /\ wake'[r].command # NoCommand
                              => OnlyByNext(wake'[r].command, r)
    BY DEF OneByOne
  <2>7. /\ \A p \in Pass : tick'[p].pc \in {"queue", "record", "broadcast"} =>
            wake'[tick'[p].request].status \in {"relaying", "gone"}
        /\ \A p \in Pass : tick'[p].pc \in {"queue", "broadcast"} =>
            /\ wake'[tick'[p].request].command = NoCommand
            /\ QuietNext(tick'[p].request)
        /\ \A p \in Pass : tick'[p].pc = "record" => OnlyByNext(tick'[p].command, tick'[p].request)
    BY DEF OneByOne, Holding
  <2>8. \A p \in Pass : tick'[p].pc = "reconcile" => \A r \in tick'[p].todo :
            \/ wake'[r].status = "gone"
            \/ wake'[r].status = "relaying" /\ wake'[r].command = tick'[p].of[r]
    BY DEF OneByOne
  <2> QED
    BY <2>5, <2>6, <2>7, <2>8 DEF NextOneByOne
<1> QED
  BY <1>1, <1>3, <1>4, <1>5, <1>6, OneByOneIs

-------------------------------------------------------------------------------
(* A pass handles one of the rows that it has listed.                      *)
RowDone(p, r) ==
    /\ UNCHANGED <<queueVars, histories, asking>>
    /\ WakeTypeOK'
    /\ \A q \in Pass : /\ tick'[q].pc = tick[q].pc /\ tick'[q].of = tick[q].of
                       /\ tick'[q].request = tick[q].request /\ tick'[q].command = tick[q].command
                       /\ tick'[q].todo \subseteq tick[q].todo
    /\ tick'[p].todo = tick[p].todo \ {r}
    /\ r \in tick[p].todo /\ tick[p].pc \in {"reconcile", "confirm", "expire", "dispatch"}
    /\ \A s \in Request : s # r => wake'[s] = wake[s]
    /\ \/ wake'[r] = wake[r]
       \/ /\ wake'[r].command = wake[r].command
          /\ \/ wake'[r].status \in {"no_relay", "already_awake"}
             \/ wake'[r].status \in {"sent", "awake", "no_answer"} /\ r \in sentFor
       \/ /\ wake[r].status # "gone"
          /\ wake'[r].status = "pending" /\ wake'[r].command = NoCommand
          /\ tick[p].pc = "reconcile" /\ status[tick[p].of[r]] \in {"failed", "expired"}

LEMMA SetIs ==
    ASSUME WakeTypeOK, NEW r \in Request, NEW to \in WakeOpen \cup WakeOver, WakeSet(r, to)
    PROVE  /\ \A s \in Request : s # r => wake'[s] = wake[s]
           /\ wake'[r].command = wake[r].command
           /\ wake'[r].status = IF wake[r].status = "gone" THEN "gone" ELSE to
           /\ wake'[r].status # to => wake'[r] = wake[r]
           /\ wake' \in [Request -> Rowed]
<1>1. wake \in [Request -> Rowed] /\ wake[r] \in Rowed
  BY DEF WakeTypeOK, Rowed
<1>2. CASE wake[r].status = "gone"
  BY <1>1, <1>2 DEF WakeSet, WakeIs
<1>3. CASE wake[r].status # "gone"
  <2>1. wake' = [wake EXCEPT ![r].status = to]
    BY <1>3 DEF WakeSet, WakeIs
  <2> QED
    BY <1>1, <1>3, <2>1 DEF Rowed
<1> QED
  BY <1>2, <1>3

LEMMA HandledIs ==
    ASSUME WakeTypeOK, NEW p \in Pass, NEW r \in Request, Handled(p, r)
    PROVE  /\ \A q \in Pass : /\ tick'[q].pc = tick[q].pc /\ tick'[q].of = tick[q].of
                              /\ tick'[q].request = tick[q].request /\ tick'[q].command = tick[q].command
                              /\ tick'[q].todo \subseteq tick[q].todo
           /\ tick'[p].todo = tick[p].todo \ {r}
           /\ tick' \in [Pass -> Ticks]
<1>1. tick \in [Pass -> Ticks] /\ tick' = [tick EXCEPT ![p].todo = @ \ {r}]
  BY DEF WakeTypeOK, Handled, Ticks
<1>2. \A q \in Pass : tick[q] \in Ticks
  BY <1>1
<1>3. [tick[p] EXCEPT !.todo = @ \ {r}] \in Ticks
  BY <1>2 DEF Ticks
<1>4. \A q \in Pass : tick'[q] = IF q = p THEN [tick[p] EXCEPT !.todo = @ \ {r}] ELSE tick[q]
  BY <1>1
<1>5. tick' \in [Pass -> Ticks]
  BY <1>1, <1>2, <1>3
<1>6. ASSUME NEW q \in Pass
      PROVE  /\ tick'[q].pc = tick[q].pc /\ tick'[q].of = tick[q].of
             /\ tick'[q].request = tick[q].request /\ tick'[q].command = tick[q].command
             /\ tick'[q].todo \subseteq tick[q].todo
  <2>1. CASE q = p
    BY <1>2, <1>4, <2>1 DEF Ticks
  <2>2. CASE q # p
    <3>1. tick'[q] = tick[q]
      BY <1>4, <2>2
    <3> QED
      BY <3>1
  <2> QED
    BY <2>1, <2>2
<1>7. tick'[p].todo = tick[p].todo \ {r}
  BY <1>2, <1>4 DEF Ticks
<1> QED
  BY <1>5, <1>6, <1>7

LEMMA SentIs ==
    ASSUME WakeTypeOK, NEW r \in Request, MarkSent(r)
    PROVE  /\ heard' \in [Request -> Heard] /\ UNCHANGED <<asking, late>> /\ WakeSet(r, "sent")
  BY DEF WakeTypeOK, MarkSent, Heard

\* The types, once those of the two tables that a pass writes are known.
LEMMA PassTypes ==
    ASSUME WakeTypeOK, UNCHANGED <<queueVars, histories, asking, late>>,
           wake' \in [Request -> Rowed], tick' \in [Pass -> Ticks], heard' \in [Request -> Heard]
    PROVE  WakeTypeOK'
  BY DEF WakeTypeOK, QueueTypeOK, queueVars, histories, Rowed, Ticks

LEMMA PassHandlesARow ==
    ASSUME WakeIInv, NEW p \in Pass, NEW r \in tick[p].todo,
           \/ Reconcile(p, r) \/ Confirm(p, r) \/ ExpireWake(p, r)
           \/ LeavePending(p, r) \/ AlreadyAwake(p, r)
           \/ \E pc \in WakePc : ClaimWake(p, r, pc) /\ ~WakeIs(r, {"pending"})
    PROVE  RowDone(p, r)
<1>1. WakeTypeOK /\ r \in Request /\ tick[p].todo \subseteq Request
  BY DEF WakeIInv, WakeTypeOK
<1>2. wake \in [Request -> Rowed] /\ heard \in [Request -> Heard]
  BY <1>1 DEF WakeTypeOK, Rowed
<1>3. {"sent", "no_relay", "awake", "no_answer", "already_awake"} \subseteq WakeOpen \cup WakeOver
  BY DEF WakeOpen, WakeOver
<1>4. CASE Reconcile(p, r)
  <2> DEFINE c == tick[p].of[r]
  <2>1. /\ Handled(p, r) /\ WakeAt(p, "reconcile")
        /\ UNCHANGED <<queueVars, histories>>
    BY <1>4 DEF Reconcile, Doing
  <2>2. c \in Command /\ handed[c] = r
    BY <1>1, <2>1 DEF WakeIInv, TickTyped, RelaysAreTheirs, MadeFor
  <2>3. CASE status[c] = "done"
    <3>1. MarkSent(r)
      BY <1>4, <2>3 DEF Reconcile, NoRow
    <3>2. r \in sentFor
      BY <2>2, <2>3 DEF WakeIInv, SendersAreReal
    <3>3. heard' \in [Request -> Heard] /\ UNCHANGED <<asking, late>> /\ WakeSet(r, "sent")
      BY <1>1, <3>1, SentIs
    <3> QED
      BY <1>1, <1>3, <2>1, <3>2, <3>3, SetIs, HandledIs, PassTypes DEF RowDone, WakeAt
  <2>4. CASE status[c] \in NoRow
    <3>1. WakeSet(r, "no_relay") /\ UNCHANGED restOfRows
      BY <1>4, <2>4 DEF Reconcile, NoRow
    <3> QED
      BY <1>1, <1>2, <1>3, <2>1, <3>1, SetIs, HandledIs, PassTypes DEF RowDone, WakeAt, restOfRows
  <2>5. CASE status[c] \in {"failed", "expired"}
    <3>1. /\ wake' = IF wake[r].status = "gone" THEN wake
                     ELSE [wake EXCEPT ![r] = [status |-> "pending", command |-> NoCommand]]
          /\ UNCHANGED restOfRows
      BY <1>4, <2>5 DEF Reconcile, NoRow, WakeIs
    <3>2. wake' \in [Request -> Rowed]
      BY <1>2, <3>1 DEF Rowed, WakeOpen
    <3>3. /\ \A s \in Request : s # r => wake'[s] = wake[s]
          /\ \/ wake'[r] = wake[r]
             \/ /\ wake[r].status # "gone"
                /\ wake'[r].status = "pending" /\ wake'[r].command = NoCommand
      BY <1>1, <1>2, <3>1
    <3> QED
      BY <1>1, <1>2, <2>1, <2>5, <3>1, <3>2, <3>3, HandledIs, PassTypes DEF RowDone, WakeAt, restOfRows
  <2>6. CASE status[c] \notin NoRow \cup {"done", "failed", "expired"}
    <3>1. UNCHANGED wakeRows
      BY <1>4, <2>6 DEF Reconcile, NoRow
    <3> QED
      BY <1>1, <1>2, <2>1, <3>1, HandledIs, PassTypes DEF RowDone, WakeAt, wakeRows, restOfRows
  <2> QED
    BY <2>3, <2>4, <2>5, <2>6
<1>5. CASE Confirm(p, r)
  <2>1. /\ Handled(p, r) /\ WakeAt(p, "confirm")
        /\ UNCHANGED <<queueVars, histories, asking, late, heard>>
    BY <1>5 DEF Confirm, Doing, restOfRows
  <2>6. tick[p].heard[r] \in {"nothing", "checkIn", "timeout"}
    BY <1>1 DEF WakeTypeOK, Heard
  <2>7. WakeSet(r, "awake") \/ WakeSet(r, "no_answer") \/ UNCHANGED wake
    BY <1>5, <2>6 DEF Confirm
  <2>2. r \in sentFor
    BY <2>1 DEF WakeIInv, PassesAreReal
  <2>3. CASE WakeSet(r, "awake")
    BY <1>1, <1>2, <1>3, <2>1, <2>2, <2>3, SetIs, HandledIs, PassTypes DEF RowDone, WakeAt
  <2>4. CASE WakeSet(r, "no_answer")
    BY <1>1, <1>2, <1>3, <2>1, <2>2, <2>4, SetIs, HandledIs, PassTypes DEF RowDone, WakeAt
  <2>5. CASE UNCHANGED wake
    BY <1>1, <1>2, <2>1, <2>5, HandledIs, PassTypes DEF RowDone, WakeAt
  <2> QED
    BY <2>3, <2>4, <2>5, <2>7
<1>6. CASE ExpireWake(p, r)
  <2>1. /\ Handled(p, r) /\ WakeAt(p, "expire") /\ WakeSet(r, "no_relay")
        /\ UNCHANGED <<queueVars, histories, asking, late, heard>>
    BY <1>6 DEF ExpireWake, Doing, restOfRows
  <2> QED
    BY <1>1, <1>2, <1>3, <2>1, SetIs, HandledIs, PassTypes DEF RowDone, WakeAt
<1>7. CASE AlreadyAwake(p, r)
  <2>1. /\ Handled(p, r) /\ WakeAt(p, "dispatch") /\ WakeSet(r, "already_awake")
        /\ UNCHANGED <<queueVars, histories, asking, late, heard>>
    BY <1>7 DEF AlreadyAwake, Doing, restOfRows
  <2> QED
    BY <1>1, <1>2, <1>3, <2>1, SetIs, HandledIs, PassTypes DEF RowDone, WakeAt
<1>8. CASE LeavePending(p, r) \/ \E pc \in WakePc : ClaimWake(p, r, pc) /\ ~WakeIs(r, {"pending"})
  <2>1. /\ Handled(p, r) /\ WakeAt(p, "dispatch")
        /\ UNCHANGED <<queueVars, histories, asking, late, heard, wake>>
    BY <1>8 DEF LeavePending, ClaimWake, Doing, wakeRows, restOfRows
  <2> QED
    BY <1>1, <1>2, <2>1, HandledIs, PassTypes DEF RowDone, WakeAt
<1> QED
  BY <1>4, <1>5, <1>6, <1>7, <1>8

LEMMA RowDoneKeeps ==
    ASSUME WakeIInv, NEW p \in Pass, NEW r \in Request, RowDone(p, r)
    PROVE  WakeIInv'
<1> USE DEF WakeIInv, WakeIs, WakeAt
<1>1. /\ UNCHANGED <<status, machine, claimedBy, result, lapsed, sentFor, handed, overlapped, asking>>
      /\ WakeTypeOK' /\ QueueStands
  BY DEF RowDone, queueVars, histories, QueueStands
<1>2. \A q \in Pass : /\ tick'[q].pc = tick[q].pc /\ tick'[q].of = tick[q].of
                      /\ tick'[q].request = tick[q].request /\ tick'[q].command = tick[q].command
                      /\ tick'[q].todo \subseteq tick[q].todo
  BY DEF RowDone
<1>14. tick'[p].todo = tick[p].todo \ {r}
  BY DEF RowDone
<1>3. r \in tick[p].todo /\ tick[p].pc \in {"reconcile", "confirm", "expire", "dispatch"}
  BY DEF RowDone
<1>4. wake[r].status # "none"
  BY <1>3 DEF NoneIsUntouched
<1>5. /\ \A s \in Request : s # r => wake'[s] = wake[s]
      /\ \/ wake'[r] = wake[r]
         \/ /\ wake'[r].command = wake[r].command
            /\ \/ wake'[r].status \in {"no_relay", "already_awake"}
               \/ wake'[r].status \in {"sent", "awake", "no_answer"} /\ r \in sentFor
         \/ /\ wake'[r].status = "pending" /\ wake'[r].command = NoCommand
            /\ wake[r].status # "gone"
            /\ tick[p].pc = "reconcile" /\ status[tick[p].of[r]] \in {"failed", "expired"}
  BY DEF RowDone
<1>6. TickTyped' /\ PassesAreReal'
  BY <1>1, <1>2 DEF TickTyped, PassesAreReal
<1>7. SendersAreReal'
  BY <1>1 DEF SendersAreReal
<1>8. RelaysAreTheirs'
  BY <1>1, <1>2, <1>5 DEF RelaysAreTheirs, MadeFor
<1>9. SentIsReal'
  BY <1>1, <1>5 DEF SentIsReal
<1>10. \A s \in Request : wake'[s].status = "none" <=> wake[s].status = "none"
  BY <1>4, <1>5
<1>11. \A s \in Request : wake'[s].status = "none" => wake'[s] = wake[s]
  BY <1>4, <1>5, <1>10
<1>12. NoneIsUntouched'
  BY <1>1, <1>2, <1>10, <1>11 DEF NoneIsUntouched
<1>13. ASSUME OneByOne PROVE NextOneByOne
  <2>1. /\ \A s : LiveNext(s) = LiveWakes(s)
        /\ \A s : QuietNext(s) <=> Quiet(s)
        /\ \A s, c : OnlyByNext(c, s) <=> OnlyBy(c, s)
    BY <1>1, QuietStays
  <2>2. \A q \in Pass : q # p => tick[q].pc = "idle"
    BY <1>3, <1>13 DEF OneByOne, OneAtATime
  <2>3. \A q \in Pass : tick[q].pc \notin {"queue", "broadcast", "record"}
    BY <1>3, <2>2
  <2>4. ASSUME wake[r].status # "gone", tick[p].pc = "reconcile",
               status[tick[p].of[r]] \in {"failed", "expired"}
        PROVE  Quiet(r)
    <3>1. tick[p].of[r] \in Command
      BY <1>3, <2>4 DEF TickTyped
    <3>2. PICK c \in Command : c = tick[p].of[r]
      BY <3>1
    <3>3. wake[r].status = "relaying" /\ wake[r].command = c
      BY <1>3, <1>13, <2>4, <3>2 DEF OneByOne
    <3>4. OnlyBy(c, r)
      BY <1>13, <3>2, <3>3 DEF OneByOne
    <3>5. c \notin sentFor /\ c \notin LiveWakes(r)
      BY <2>4, <3>2 DEF SendersAreReal, LiveWakes
    <3> QED
      BY <3>4, <3>5 DEF OnlyBy, Quiet
  <2>5. \A q \in Pass : tick[q].todo \subseteq Request
    BY DEF WakeTypeOK
  <2> USE <1>1, <1>2, <1>5, <1>13, <2>1
  <2> HIDE DEF WakeIInv
  <2>6. /\ \A q, s \in Pass : q = s \/ tick'[q].pc = "idle" \/ tick'[s].pc = "idle"
        /\ \A s \in Request : \A c, d \in LiveNext(s) : c = d
    BY DEF OneByOne, OneAtATime
  <2>7. /\ \A s \in Request : wake'[s].status = "pending" => wake'[s].command = NoCommand
        /\ \A s \in Request : wake'[s].status \in {"pending", "cancelled"} => QuietNext(s)
        /\ \A s \in Request : wake'[s].status = "relaying" /\ wake'[s].command # NoCommand
                              => OnlyByNext(wake'[s].command, s)
    BY <2>4 DEF OneByOne
  <2>8. \A q \in Pass : tick'[q].pc = "reconcile" => \A s \in tick'[q].todo :
            \/ wake'[s].status = "gone"
            \/ wake'[s].status = "relaying" /\ wake'[s].command = tick'[q].of[s]
    <3> SUFFICES ASSUME NEW q \in Pass, tick'[q].pc = "reconcile", NEW s \in tick'[q].todo
                 PROVE  \/ wake'[s].status = "gone"
                        \/ wake'[s].status = "relaying" /\ wake'[s].command = tick'[q].of[s]
      OBVIOUS
    <3>1. q = p
      BY <2>2
    <3>2. s \in Request /\ s # r /\ s \in tick[p].todo
      BY <1>14, <2>5, <3>1
    <3>3. wake[s].status = "gone" \/ (wake[s].status = "relaying" /\ wake[s].command = tick[p].of[s])
      BY <3>1, <3>2 DEF OneByOne
    <3> QED
      BY <3>1, <3>2, <3>3
  <2> QED
    BY <2>3, <2>6, <2>7, <2>8 DEF NextOneByOne
<1> QED
  BY <1>1, <1>6, <1>7, <1>8, <1>9, <1>12, <1>13, OneByOneIs

-------------------------------------------------------------------------------
(* A pass starts, goes to its next part, ends or dies: it reads and writes *)
(* nothing.                                                                *)
Listing(p) ==
    /\ UNCHANGED <<queueVars, wakeRows, sentFor, handed>>
    /\ WakeTypeOK'
    /\ ~overlapped' => ~overlapped
    /\ \A q \in Pass : q # p => tick'[q] = tick[q]
    /\ tick'[p].pc \in {"idle", "reconcile", "confirm", "expire", "dispatch"}
    /\ \A s \in tick'[p].todo : wake[s].status # "none"
    /\ \A s \in Request : tick'[p].of[s] \in {NoCommand, wake[s].command}
    /\ tick'[p].pc = "confirm" => \A s \in tick'[p].todo : wake[s].status = "sent"
    /\ tick'[p].pc = "reconcile" => \A s \in tick'[p].todo :
        wake[s].status = "relaying" /\ wake[s].command # NoCommand /\ tick'[p].of[s] = wake[s].command
    /\ tick'[p].pc # "idle" /\ ~overlapped' =>
        tick[p].pc # "idle" \/ \A q \in Pass : q = p \/ tick[q].pc = "idle"

\* The types, when a pass writes one entry of tick only.
LEMMA OneTickTypes ==
    ASSUME WakeTypeOK, UNCHANGED <<queueVars, sentFor, handed, wake, asking, late, heard>>,
           overlapped' \in BOOLEAN, NEW p \in Pass, NEW t \in Ticks, tick' = [tick EXCEPT ![p] = t]
    PROVE  WakeTypeOK' /\ tick'[p] = t /\ \A q \in Pass : q # p => tick'[q] = tick[q]
<1>1. tick \in [Pass -> Ticks]
  BY DEF WakeTypeOK, Ticks
<1>2. tick' \in [Pass -> Ticks] /\ tick'[p] = t /\ \A q \in Pass : q # p => tick'[q] = tick[q]
  BY <1>1
<1>3. WakeTypeOK'
  BY <1>2 DEF WakeTypeOK, QueueTypeOK, queueVars, Ticks
<1> QED
  BY <1>2, <1>3

LEMMA PassLists ==
    ASSUME WakeIInv, NEW p \in Pass,
           \/ \E awake \in BOOLEAN : WakePassStart(p, awake)
           \/ ReadSent(p) \/ ReadLate(p) \/ ReadWaiting(p) \/ WakePassOver(p) \/ WakePassDies(p)
    PROVE  Listing(p)
<1>1. /\ WakeTypeOK /\ tick \in [Pass -> Ticks] /\ tick[p] \in Ticks /\ overlapped \in BOOLEAN
      /\ \A r \in Request : wake[r].command \in Command \cup {NoCommand}
      /\ wake \in [Request -> Rowed] /\ late \subseteq Request /\ heard \in [Request -> Heard]
  BY DEF WakeIInv, WakeTypeOK, Ticks, Rowed
<1>2. /\ NoTick.of = [r \in Request |-> NoCommand] /\ NoTick.todo = {} /\ NoTick.pc = "idle"
      /\ NoTick \in Ticks
  BY NoTickIsTyped DEF NoTick
<1>3. ASSUME NEW awake \in BOOLEAN, WakePassStart(p, awake)
      PROVE  Listing(p)
  <2>7. PICK todo : todo = {r \in Request : WakeIs(r, {"relaying"}) /\ wake[r].command # NoCommand}
    OBVIOUS
  <2>8. PICK of : of = [r \in Request |-> wake[r].command]
    OBVIOUS
  <2> DEFINE t == [NoTick EXCEPT !.pc = "reconcile", !.late = late, !.heard = heard,
                                 !.awake = awake, !.todo = todo, !.of = of]
  <2>1. t.pc = "reconcile" /\ t.todo = todo /\ t.of = of
    BY <1>2 DEF Ticks
  <2>2. tick' = [tick EXCEPT ![p] = t]
    BY <1>3, <2>7, <2>8 DEF WakePassStart
  <2>3. t \in Ticks
    BY <1>1, <1>2, <2>7, <2>8 DEF Ticks, WakePc
  <2>4. /\ UNCHANGED <<queueVars, wakeRows, sentFor, handed>> /\ tick[p].pc = "idle"
        /\ overlapped' = (overlapped \/ \E q \in Pass \ {p} : tick[q].pc # "idle")
    BY <1>3 DEF WakePassStart, WakeAt
  <2>5. /\ t.pc = "reconcile"
        /\ \A s \in t.todo : wake[s].status = "relaying" /\ wake[s].command # NoCommand
                             /\ s \in Request
        /\ \A s \in Request : t.of[s] = wake[s].command
    BY <2>1, <2>7, <2>8 DEF WakeIs
  <2> HIDE DEF t
  <2>6. WakeTypeOK' /\ tick'[p] = t /\ \A q \in Pass : q # p => tick'[q] = tick[q]
    BY <1>1, <2>2, <2>3, <2>4, OneTickTypes DEF wakeRows, restOfRows
  <2> QED
    BY <2>4, <2>5, <2>6 DEF Listing
<1>4. ASSUME NEW pc \in {"confirm", "expire", "dispatch"}, NEW todo \in SUBSET Request,
             Turn(p, pc, todo), UNCHANGED <<queueVars, wakeRows, histories>>,
             tick[p].pc # "idle", \A s \in todo : wake[s].status # "none",
             pc = "confirm" => \A s \in todo : wake[s].status = "sent"
      PROVE  Listing(p)
  <2> DEFINE t == [tick[p] EXCEPT !.pc = pc, !.todo = todo, !.of = NoTick.of,
                                  !.heard = IF pc = "confirm" THEN @ ELSE NoTick.heard]
  <2>1. tick' = [tick EXCEPT ![p] = t]
    BY <1>1, <1>4 DEF Turn
  <2>2. t \in Ticks
    BY <1>1, <1>2, <1>4 DEF Ticks, WakePc
  <2>3. t.pc = pc /\ t.todo = todo /\ t.of = NoTick.of
    BY <1>1 DEF Ticks
  <2> HIDE DEF t
  <2>4. WakeTypeOK' /\ tick'[p] = t /\ \A q \in Pass : q # p => tick'[q] = tick[q]
    BY <1>1, <1>4, <2>1, <2>2, OneTickTypes DEF wakeRows, restOfRows, histories
  <2> QED
    BY <1>2, <1>4, <2>3, <2>4 DEF Listing, histories
<1>5. CASE ReadSent(p)
  <2>1. {r \in Request : WakeIs(r, {"sent"})} \in SUBSET Request
    OBVIOUS
  <2> QED
    BY <1>4, <1>5, <2>1 DEF ReadSent, DoneWith, WakeAt, WakeIs
<1>6. CASE ReadLate(p)
  <2>1. /\ {r \in tick[p].late : WakeIs(r, {"pending", "relaying"})} \in SUBSET Request
        /\ \A s \in {r \in tick[p].late : WakeIs(r, {"pending", "relaying"})} : wake[s].status # "none"
    BY <1>1 DEF Ticks, WakeIs
  <2> QED
    BY <1>4, <1>6, <2>1 DEF ReadLate, DoneWith, WakeAt
<1>7. CASE ReadWaiting(p)
  <2>1. {r \in Request : WakeIs(r, {"pending"})} \in SUBSET Request
    OBVIOUS
  <2> QED
    BY <1>4, <1>7, <2>1 DEF ReadWaiting, DoneWith, WakeAt, WakeIs
<1>8. CASE WakePassOver(p) \/ WakePassDies(p)
  <2>1. tick' = [tick EXCEPT ![p] = NoTick] /\ UNCHANGED <<queueVars, wakeRows, histories>>
    BY <1>8 DEF WakePassOver, WakePassDies
  <2>2. WakeTypeOK' /\ tick'[p] = NoTick /\ \A q \in Pass : q # p => tick'[q] = tick[q]
    BY <1>1, <1>2, <2>1, OneTickTypes DEF wakeRows, restOfRows, histories
  <2> QED
    BY <1>2, <2>1, <2>2 DEF Listing, histories
<1> QED
  BY <1>3, <1>5, <1>6, <1>7, <1>8

LEMMA ListingKeeps ==
    ASSUME WakeIInv, NEW p \in Pass, Listing(p)
    PROVE  WakeIInv'
<1> USE DEF WakeIInv, WakeIs, WakeAt
<1>1. /\ UNCHANGED <<status, machine, claimedBy, result, lapsed, sentFor, handed, wake, asking>>
      /\ WakeTypeOK' /\ QueueStands
  BY DEF Listing, queueVars, wakeRows, restOfRows, QueueStands
<1>2. /\ \A q \in Pass : q # p => tick'[q] = tick[q]
      /\ tick'[p].pc \in {"idle", "reconcile", "confirm", "expire", "dispatch"}
      /\ \A s \in tick'[p].todo : wake[s].status # "none"
      /\ \A s \in Request : tick'[p].of[s] \in {NoCommand, wake[s].command}
      /\ tick'[p].pc = "confirm" => \A s \in tick'[p].todo : wake[s].status = "sent"
      /\ tick'[p].pc = "reconcile" => \A s \in tick'[p].todo :
            /\ wake[s].status = "relaying" /\ wake[s].command # NoCommand
            /\ tick'[p].of[s] = wake[s].command
      /\ tick'[p].todo \subseteq Request
      /\ \A s \in Request : wake[s].command \in Command \cup {NoCommand}
  BY <1>1 DEF Listing, WakeTypeOK
<1>3. TickTyped'
  BY <1>1, <1>2 DEF TickTyped, Holding
<1>4. RelaysAreTheirs'
  BY <1>1, <1>2 DEF RelaysAreTheirs, MadeFor
<1>5. NoneIsUntouched'
  BY <1>1, <1>2 DEF NoneIsUntouched, Holding
<1>6. SendersAreReal' /\ SentIsReal'
  BY <1>1 DEF SendersAreReal, SentIsReal
<1>7. PassesAreReal'
  BY <1>1, <1>2 DEF PassesAreReal, SentIsReal
<1>8. ASSUME ~overlapped' PROVE NextOneByOne
  <2>1. /\ \A s : LiveNext(s) = LiveWakes(s)
        /\ \A s : QuietNext(s) <=> Quiet(s)
        /\ \A s, c : OnlyByNext(c, s) <=> OnlyBy(c, s)
    BY <1>1, QuietStays
  <2>2. OneByOne /\ OneAtATime
    BY <1>8 DEF Listing, OneByOne
  <2>3. tick'[p].pc # "idle" => \A q \in Pass : q = p \/ tick[q].pc = "idle"
    BY <1>8, <2>2 DEF Listing, OneAtATime
  <2> USE <1>1, <1>2, <2>1, <2>2
  <2> HIDE DEF WakeIInv
  <2>4. /\ \A q, s \in Pass : q = s \/ tick'[q].pc = "idle" \/ tick'[s].pc = "idle"
        /\ \A s \in Request : \A c, d \in LiveNext(s) : c = d
    BY <2>3 DEF OneByOne, OneAtATime
  <2>5. /\ \A s \in Request : wake'[s].status = "pending" => wake'[s].command = NoCommand
        /\ \A s \in Request : wake'[s].status \in {"pending", "cancelled"} => QuietNext(s)
        /\ \A s \in Request : wake'[s].status = "relaying" /\ wake'[s].command # NoCommand
                              => OnlyByNext(wake'[s].command, s)
    BY DEF OneByOne
  <2>6. \A q \in Pass : tick'[q].pc \in {"queue", "record", "broadcast"} => q # p
    OBVIOUS
  <2>7. /\ \A q \in Pass : tick'[q].pc \in {"queue", "record", "broadcast"} =>
            wake'[tick'[q].request].status \in {"relaying", "gone"}
        /\ \A q \in Pass : tick'[q].pc \in {"queue", "broadcast"} =>
            /\ wake'[tick'[q].request].command = NoCommand
            /\ QuietNext(tick'[q].request)
        /\ \A q \in Pass : tick'[q].pc = "record" => OnlyByNext(tick'[q].command, tick'[q].request)
    BY <2>6 DEF OneByOne
  <2>8. \A q \in Pass : tick'[q].pc = "reconcile" => \A s \in tick'[q].todo :
            \/ wake'[s].status = "gone"
            \/ wake'[s].status = "relaying" /\ wake'[s].command = tick'[q].of[s]
    BY DEF OneByOne
  <2> QED
    BY <2>4, <2>5, <2>7, <2>8 DEF NextOneByOne
<1> QED
  BY <1>1, <1>3, <1>4, <1>5, <1>6, <1>7, <1>8, OneByOneIs

-------------------------------------------------------------------------------
(* A pass claims a row and holds it until it has written what became of    *)
(* it.                                                                     *)
LEMMA ClaimKeeps ==
    ASSUME WakeIInv, NEW p \in Pass, NEW r \in tick[p].todo, NEW pc \in WakePc,
           ClaimWake(p, r, pc), WakeIs(r, {"pending"})
    PROVE  WakeIInv'
<1> USE DEF WakeIInv, WakeIs, WakeAt
<1>1. /\ wake[r].status = "pending" /\ pc \in {"queue", "broadcast"} /\ tick[p].pc = "dispatch"
      /\ WakeSet(r, "relaying")
      /\ tick' = [tick EXCEPT ![p].pc = pc, ![p].todo = @ \ {r}, ![p].request = r]
      /\ UNCHANGED <<queueVars, histories, asking, late, heard>>
  BY DEF ClaimWake, Doing, restOfRows
<1>2. /\ tick \in [Pass -> Ticks] /\ r \in Request /\ tick[p] \in Ticks
  BY DEF WakeTypeOK, Ticks
<1>3. /\ \A s \in Request : s # r => wake'[s] = wake[s]
      /\ wake'[r].command = wake[r].command /\ wake'[r].status = "relaying"
      /\ wake' \in [Request -> Rowed]
  BY <1>1, <1>2, SetIs DEF WakeOpen
<1>4. /\ UNCHANGED <<status, machine, claimedBy, result, lapsed, sentFor, handed, overlapped, asking>>
      /\ QueueStands
  BY <1>1 DEF queueVars, histories, QueueStands
<1>5. /\ \A q \in Pass : q # p => tick'[q] = tick[q]
      /\ tick'[p].pc = pc /\ tick'[p].todo = tick[p].todo \ {r} /\ tick'[p].request = r
      /\ tick'[p].of = tick[p].of /\ tick'[p].command = tick[p].command
  BY <1>1, <1>2 DEF Ticks
<1>6. WakeTypeOK'
  <2>1. [tick[p] EXCEPT !.pc = pc, !.todo = @ \ {r}, !.request = r] \in Ticks
    BY <1>1, <1>2 DEF Ticks, WakePc
  <2>2. tick' \in [Pass -> Ticks]
    BY <1>1, <1>2, <2>1
  <2>3. heard' \in [Request -> Heard]
    BY <1>1 DEF WakeTypeOK
  <2> QED
    BY <1>1, <1>3, <2>2, <2>3, PassTypes
<1>7. TickTyped' /\ PassesAreReal'
  BY <1>1, <1>2, <1>4, <1>5 DEF TickTyped, PassesAreReal, Holding
<1>8. SendersAreReal' /\ SentIsReal'
  BY <1>3, <1>4 DEF SendersAreReal, SentIsReal
<1>12. /\ \A s \in Request : wake'[s].command = wake[s].command
       /\ \A s \in Request : wake'[s].status = "none" => wake[s].status = "none" /\ s # r
       /\ \A s \in Request : wake[s].status = "none" => wake'[s].status = "none"
       /\ \A q \in Pass : tick'[q].of = tick[q].of /\ tick'[q].command = tick[q].command
       /\ \A q \in Pass : tick'[q].todo \subseteq tick[q].todo
       /\ \A q \in Pass : tick'[q].pc = "record" => tick'[q] = tick[q]
       /\ \A q \in Pass : tick'[q].pc \in Holding =>
            tick'[q].request = r \/ (tick[q].pc \in Holding /\ tick'[q].request = tick[q].request)
  BY <1>1, <1>2, <1>3, <1>5
<1>9. RelaysAreTheirs'
  BY <1>4, <1>12 DEF RelaysAreTheirs, MadeFor
<1>10. NoneIsUntouched'
  BY <1>4, <1>12 DEF NoneIsUntouched
<1>11. ASSUME OneByOne PROVE NextOneByOne
  <2>1. /\ \A s : LiveNext(s) = LiveWakes(s)
        /\ \A s : QuietNext(s) <=> Quiet(s)
        /\ \A s, c : OnlyByNext(c, s) <=> OnlyBy(c, s)
    BY <1>4, QuietStays
  <2>2. \A q \in Pass : q # p => tick'[q].pc = "idle"
    <3>1. OneAtATime
      BY <1>11 DEF OneByOne
    <3>2. \A q \in Pass : q = p \/ tick[q].pc = "idle"
      BY <1>1, <3>1 DEF OneAtATime
    <3> QED
      BY <1>5, <3>2
  <2>3. Quiet(r) /\ wake[r].command = NoCommand
    BY <1>1, <1>2, <1>11 DEF OneByOne
  <2> USE <1>11, <2>1
  <2> HIDE DEF WakeIInv
  <2>4. \A s \in Request : \A c, d \in LiveNext(s) : c = d
    BY DEF OneByOne
  <2>5. /\ \A s \in Request : wake'[s].status = "pending" => wake'[s].command = NoCommand
        /\ \A s \in Request : wake'[s].status \in {"pending", "cancelled"} => QuietNext(s)
        /\ \A s \in Request : wake'[s].status = "relaying" /\ wake'[s].command # NoCommand
                              => OnlyByNext(wake'[s].command, s)
    BY <1>3, <2>3 DEF OneByOne
  <2>6. \A q, s \in Pass : q = s \/ tick'[q].pc = "idle" \/ tick'[s].pc = "idle"
    BY <2>2
  <2>7. \A q \in Pass : tick'[q].pc \in {"queue", "record", "broadcast"} =>
            wake'[tick'[q].request].status \in {"relaying", "gone"}
    BY <1>3, <1>5, <2>2
  <2>8. \A q \in Pass : tick'[q].pc \in {"queue", "broadcast"} =>
            /\ wake'[tick'[q].request].command = NoCommand
            /\ QuietNext(tick'[q].request)
    BY <1>3, <1>5, <2>2, <2>3
  <2>9. \A q \in Pass : tick'[q].pc \notin {"record", "reconcile"}
    BY <1>1, <1>5, <2>2
  <2> QED
    BY <2>4, <2>5, <2>6, <2>7, <2>8, <2>9 DEF NextOneByOne
<1> QED
  BY <1>4, <1>6, <1>7, <1>8, <1>9, <1>10, <1>11, OneByOneIs

\* What a pass writes of the row that it holds, before it goes on.
RowReleased(p, r) ==
    \/ wake'[r] = wake[r]
    \/ /\ wake'[r].status = "pending" /\ wake'[r].command = wake[r].command
       /\ wake[r].status # "gone" /\ tick[p].pc \in {"queue", "broadcast"}
    \/ /\ wake'[r].status = wake[r].status /\ wake'[r].command = tick[p].command
       /\ tick[p].pc = "record" /\ wake[r].status # "gone"
    \/ /\ wake'[r].status = "sent" /\ wake'[r].command = wake[r].command
       /\ r \in sentFor /\ tick[p].pc = "mark"

LEMMA PassReleasesItsRow ==
    ASSUME WakeIInv, NEW p \in Pass, CannotSend(p) \/ RecordWake(p) \/ MarkBroadcast(p)
    PROVE  \E r \in Request :
             /\ WakeTypeOK' /\ r = tick[p].request /\ tick[p].pc \in Holding
             /\ UNCHANGED <<queueVars, histories, asking>>
             /\ \A s \in Request : s # r => wake'[s] = wake[s]
             /\ RowReleased(p, r)
             /\ \A q \in Pass : q # p => tick'[q] = tick[q]
             /\ tick'[p].pc = "dispatch"
             /\ tick'[p].todo = tick[p].todo /\ tick'[p].of = tick[p].of
<1>1. /\ tick \in [Pass -> Ticks] /\ tick[p] \in Ticks /\ wake \in [Request -> Rowed]
      /\ WakeTypeOK /\ heard \in [Request -> Heard]
  BY DEF WakeIInv, WakeTypeOK, Ticks, Rowed
<1>2. Back(p) /\ UNCHANGED <<queueVars, histories>>
  BY DEF CannotSend, RecordWake, MarkBroadcast
<1>3. tick[p].pc \in Holding
  BY DEF CannotSend, RecordWake, MarkBroadcast, Holding, WakeAt
<1>4. PICK r \in Request : r = tick[p].request
  BY <1>3 DEF WakeIInv, TickTyped
<1>5. /\ \A q \in Pass : q # p => tick'[q] = tick[q]
      /\ tick'[p].pc = "dispatch"
      /\ tick'[p].todo = tick[p].todo /\ tick'[p].of = tick[p].of
      /\ tick' \in [Pass -> Ticks]
  <2>1. [tick[p] EXCEPT !.pc = "dispatch", !.request = NoRequest, !.command = NoCommand] \in Ticks
    BY <1>1 DEF Ticks, WakePc
  <2>2. tick' \in [Pass -> Ticks]
    BY <1>1, <1>2, <2>1 DEF Back
  <2> QED
    BY <1>1, <1>2, <2>2 DEF Back, Ticks
<1>6. CASE CannotSend(p)
  <2>1. /\ WakeSet(r, "pending") /\ UNCHANGED <<asking, late, heard>>
        /\ tick[p].pc \in {"queue", "broadcast"}
    BY <1>4, <1>6 DEF CannotSend, restOfRows, WakeAt
  <2>2. /\ \A s \in Request : s # r => wake'[s] = wake[s]
        /\ wake'[r].command = wake[r].command
        /\ wake'[r].status = IF wake[r].status = "gone" THEN "gone" ELSE "pending"
        /\ wake'[r].status # "pending" => wake'[r] = wake[r]
        /\ wake' \in [Request -> Rowed]
    BY <1>1, <2>1, SetIs DEF WakeOpen
  <2> QED
    BY <1>1, <1>2, <1>3, <1>4, <1>5, <2>1, <2>2, PassTypes DEF RowReleased
<1>7. CASE RecordWake(p)
  <2>1. /\ wake' = IF wake[r].status = "gone" THEN wake ELSE [wake EXCEPT ![r].command = tick[p].command]
        /\ UNCHANGED <<asking, late, heard>> /\ tick[p].pc = "record"
    BY <1>4, <1>7 DEF RecordWake, restOfRows, WakeAt, WakeIs
  <2>2. tick[p].command \in Command \cup {NoCommand} /\ wake[r] \in Rowed
    BY <1>1 DEF Ticks
  <2>3. wake' \in [Request -> Rowed] /\ \A s \in Request : s # r => wake'[s] = wake[s]
    <3>1. [wake[r] EXCEPT !.command = tick[p].command] \in Rowed
      BY <2>2 DEF Rowed
    <3> QED
      BY <1>1, <2>1, <3>1
  <2>4. wake'[r] = wake[r] \/ (wake'[r].status = wake[r].status
                               /\ wake'[r].command = tick[p].command /\ wake[r].status # "gone")
    BY <1>1, <2>1, <2>2 DEF Rowed
  <2> QED
    BY <1>1, <1>2, <1>3, <1>4, <1>5, <2>1, <2>3, <2>4, PassTypes DEF RowReleased
<1>8. CASE MarkBroadcast(p)
  <2>1. MarkSent(r) /\ tick[p].pc = "mark"
    BY <1>4, <1>8 DEF MarkBroadcast, WakeAt
  <2>2. heard' \in [Request -> Heard] /\ UNCHANGED <<asking, late>> /\ WakeSet(r, "sent")
    BY <1>1, <2>1, SentIs
  <2>3. r \in sentFor
    BY <1>4, <2>1 DEF WakeIInv, PassesAreReal, WakeAt
  <2>4. /\ \A s \in Request : s # r => wake'[s] = wake[s]
        /\ wake'[r].command = wake[r].command
        /\ wake'[r].status # "sent" => wake'[r] = wake[r]
        /\ wake' \in [Request -> Rowed]
    BY <1>1, <2>2, SetIs DEF WakeOpen
  <2> QED
    BY <1>1, <1>2, <1>3, <1>4, <1>5, <2>1, <2>2, <2>3, <2>4, PassTypes DEF RowReleased
<1> QED
  BY <1>6, <1>7, <1>8

LEMMA ReleaseKeeps ==
    ASSUME WakeIInv, NEW p \in Pass, CannotSend(p) \/ RecordWake(p) \/ MarkBroadcast(p)
    PROVE  WakeIInv'
<1> USE DEF WakeIInv, WakeIs, WakeAt
<1>1. PICK r \in Request :
             /\ WakeTypeOK' /\ r = tick[p].request /\ tick[p].pc \in Holding
             /\ UNCHANGED <<queueVars, histories, asking>>
             /\ \A s \in Request : s # r => wake'[s] = wake[s]
             /\ RowReleased(p, r)
             /\ \A q \in Pass : q # p => tick'[q] = tick[q]
             /\ tick'[p].pc = "dispatch"
             /\ tick'[p].todo = tick[p].todo /\ tick'[p].of = tick[p].of
  BY PassReleasesItsRow
<1>2. /\ UNCHANGED <<status, machine, claimedBy, result, lapsed, sentFor, handed, overlapped, asking>>
      /\ QueueStands
  BY <1>1 DEF queueVars, histories, QueueStands
<1>3. wake[r].status # "none"
  BY <1>1 DEF NoneIsUntouched
<1>4. tick[p].pc = "record" => MadeFor(tick[p].command, r)
  BY <1>1 DEF RelaysAreTheirs
<1>5. wake'[r].status # "none"
  BY <1>1, <1>3 DEF RowReleased
<1>6. TickTyped' /\ PassesAreReal'
  BY <1>1, <1>2 DEF TickTyped, PassesAreReal, Holding
<1>7. SendersAreReal'
  BY <1>2 DEF SendersAreReal
<1>8. SentIsReal'
  BY <1>1, <1>2 DEF SentIsReal, RowReleased
<1>9. RelaysAreTheirs'
  <2>1. MadeFor(wake'[r].command, r)
    BY <1>1, <1>4 DEF RelaysAreTheirs, RowReleased
  <2> QED
    BY <1>1, <1>2, <2>1 DEF RelaysAreTheirs, MadeFor
<1>10. NoneIsUntouched'
  BY <1>1, <1>2, <1>3, <1>5 DEF NoneIsUntouched, Holding
<1>11. ASSUME OneByOne PROVE NextOneByOne
  <2>1. /\ \A s : LiveNext(s) = LiveWakes(s)
        /\ \A s : QuietNext(s) <=> Quiet(s)
        /\ \A s, c : OnlyByNext(c, s) <=> OnlyBy(c, s)
    BY <1>2, QuietStays
  <2>2. \A q \in Pass : q # p => tick'[q].pc = "idle"
    BY <1>1, <1>11 DEF OneByOne, OneAtATime, Holding
  <2>3. tick[p].pc \in {"queue", "broadcast"} => Quiet(r) /\ wake[r].command = NoCommand
    BY <1>1, <1>11 DEF OneByOne
  <2>4. tick[p].pc = "record" => /\ OnlyBy(tick[p].command, r)
                                 /\ wake[r].status \in {"relaying", "gone"}
    BY <1>1, <1>11 DEF OneByOne
  <2> USE <1>11, <2>1
  <2> HIDE DEF WakeIInv
  <2>5. \A s \in Request : \A c, d \in LiveNext(s) : c = d
    BY DEF OneByOne
  <2>6. /\ wake'[r].status = "pending" => wake'[r].command = NoCommand /\ QuietNext(r)
        /\ wake'[r].status = "cancelled" => QuietNext(r)
        /\ wake'[r].status = "relaying" /\ wake'[r].command # NoCommand
                              => OnlyByNext(wake'[r].command, r)
    BY <1>1, <2>3, <2>4 DEF OneByOne, RowReleased
  <2>7. /\ \A s \in Request : wake'[s].status = "pending" => wake'[s].command = NoCommand
        /\ \A s \in Request : wake'[s].status \in {"pending", "cancelled"} => QuietNext(s)
        /\ \A s \in Request : wake'[s].status = "relaying" /\ wake'[s].command # NoCommand
                              => OnlyByNext(wake'[s].command, s)
    BY <1>1, <2>6 DEF OneByOne
  <2> QED
    BY <1>1, <2>2, <2>5, <2>7 DEF NextOneByOne
<1> QED
  BY <1>1, <1>2, <1>6, <1>7, <1>8, <1>9, <1>10, <1>11, OneByOneIs

LEMMA QueueWakeKeeps ==
    ASSUME WakeIInv, NEW p \in Pass, NEW m \in Machine, QueueWake(p, m)
    PROVE  WakeIInv'
<1> USE DEF WakeIInv, WakeIs, WakeAt
<1>1. PICK r \in Request : r = tick[p].request
  BY DEF QueueWake, TickTyped, Holding
<1>2. PICK c \in Command :
        /\ status[c] = "unissued" /\ Create(c, m)
        /\ handed' = [handed EXCEPT ![c] = r]
        /\ tick' = [tick EXCEPT ![p].pc = "record", ![p].command = c]
        /\ tick[p].pc = "queue" /\ UNCHANGED <<wakeRows, sentFor, overlapped>>
  BY <1>1 DEF QueueWake
<1>3. /\ tick \in [Pass -> Ticks] /\ tick[p] \in Ticks
      /\ handed \in [Command -> Request \cup {NoRequest}]
      /\ status \in [Command -> CommandStatus \cup NoRow]
  BY DEF WakeTypeOK, Ticks, QueueTypeOK
<1>4. /\ \A q \in Pass : q # p => tick'[q] = tick[q]
      /\ tick'[p].pc = "record" /\ tick'[p].command = c /\ tick'[p].request = r
      /\ tick'[p].todo = tick[p].todo /\ tick'[p].of = tick[p].of
      /\ UNCHANGED <<wake, asking, late, heard, sentFor, overlapped>>
  BY <1>1, <1>2, <1>3 DEF Ticks, wakeRows, restOfRows
<1>5. /\ \A d \in Command : d # c => status'[d] = status[d] /\ handed'[d] = handed[d]
      /\ status'[c] = "pending" /\ handed'[c] = r
  BY <1>2, <1>3 DEF Create
<1>6. WakeTypeOK'
  <2>1. QueueTypeOK'
    BY <1>2 DEF Create, QueueTypeOK, WakeTypeOK, CommandStatus
  <2>2. [tick[p] EXCEPT !.pc = "record", !.command = c] \in Ticks
    BY <1>3 DEF Ticks, WakePc
  <2>3. tick' \in [Pass -> Ticks]
    BY <1>2, <1>3, <2>2
  <2>4. handed' \in [Command -> Request \cup {NoRequest}]
    BY <1>2, <1>3
  <2> QED
    BY <1>4, <2>1, <2>3, <2>4 DEF WakeTypeOK, Ticks
<1>7. handed[c] = NoRequest /\ c \notin sentFor
  BY <1>2 DEF TickTyped, SendersAreReal
<1>8. \A d, s : s \in Request /\ MadeFor(d, s) /\ d \in Command \cup {NoCommand} => d # c
  BY <1>7 DEF MadeFor
<1>9. TickTyped'
  BY <1>1, <1>4, <1>5 DEF TickTyped, Holding
<1>10. SendersAreReal' /\ SentIsReal' /\ PassesAreReal'
  BY <1>4, <1>5, <1>7 DEF SendersAreReal, SentIsReal, PassesAreReal
<1>11. RelaysAreTheirs'
  <2>1. \A d : d \in Command /\ d # c => handed'[d] = handed[d]
    BY <1>5
  <2>2. \A s \in Request : wake[s].command \in Command \cup {NoCommand}
    BY DEF WakeTypeOK
  <2>3. \A q \in Pass, s \in Request : tick[q].of[s] \in Command \cup {NoCommand}
    BY DEF WakeTypeOK
  <2>4. \A s \in Request : MadeFor(wake[s].command, s) => (wake[s].command # NoCommand => handed'[wake[s].command] = s)
    BY <1>8, <2>1, <2>2 DEF MadeFor
  <2>5. \A q \in Pass, s \in Request :
            MadeFor(tick[q].of[s], s) => (tick[q].of[s] # NoCommand => handed'[tick[q].of[s]] = s)
    BY <1>8, <2>1, <2>3 DEF MadeFor
  <2>6. \A q \in Pass : q # p /\ tick[q].pc = "record" =>
            handed'[tick[q].command] = tick[q].request
    BY <1>8, <2>1 DEF MadeFor, RelaysAreTheirs, TickTyped, Holding
  <2> QED
    BY <1>4, <1>5, <2>4, <2>5, <2>6 DEF RelaysAreTheirs, MadeFor
<1>12. NoneIsUntouched'
  <2>1. wake[r].status # "none"
    BY <1>1, <1>2 DEF NoneIsUntouched, Holding
  <2>2. \A s \in Request : wake[s].status = "none" => \A d \in Command : handed'[d] # s
    BY <1>5, <2>1 DEF NoneIsUntouched
  <2>3. \A q \in Pass : tick'[q].todo = tick[q].todo
    BY <1>4
  <2>4. \A q \in Pass : tick'[q].pc \in Holding =>
            tick'[q].request = r \/ (tick[q].pc \in Holding /\ tick'[q].request = tick[q].request)
    BY <1>4
  <2> QED
    BY <1>4, <2>1, <2>2, <2>3, <2>4 DEF NoneIsUntouched
<1>13. ASSUME OneByOne PROVE NextOneByOne
  <2>1. \A q \in Pass : q # p => tick'[q].pc = "idle"
    <3>1. OneAtATime
      BY <1>13 DEF OneByOne
    <3>2. \A q \in Pass : q = p \/ tick[q].pc = "idle"
      BY <1>2, <3>1 DEF OneAtATime
    <3> QED
      BY <1>4, <3>2
  <2>2. /\ wake[r].status \in {"relaying", "gone"} /\ wake[r].command = NoCommand
        /\ LiveWakes(r) = {} /\ r \notin sentFor
    BY <1>1, <1>2, <1>13 DEF OneByOne, Quiet
  <2>3. /\ \A s \in Request : s # r => LiveNext(s) = LiveWakes(s)
        /\ LiveNext(r) = {c}
    BY <1>2, <1>5, <1>7, <2>2 DEF LiveNext, LiveWakes
  <2>4. /\ \A s \in Request : s # r => (QuietNext(s) <=> Quiet(s))
        /\ \A s, d : s \in Request /\ s # r => (OnlyByNext(d, s) <=> OnlyBy(d, s))
        /\ OnlyByNext(c, r)
    BY <1>4, <2>2, <2>3 DEF QuietNext, Quiet, OnlyByNext, OnlyBy
  <2> USE <1>13
  <2> HIDE DEF WakeIInv
  <2>5. \A s \in Request : \A d, e \in LiveNext(s) : d = e
    BY <2>3 DEF OneByOne
  <2>6. /\ \A s \in Request : wake'[s].status = "pending" => wake'[s].command = NoCommand
        /\ \A s \in Request : wake'[s].status \in {"pending", "cancelled"} => QuietNext(s)
        /\ \A s \in Request : wake'[s].status = "relaying" /\ wake'[s].command # NoCommand
                              => OnlyByNext(wake'[s].command, s)
    BY <1>4, <2>2, <2>4 DEF OneByOne
  <2> QED
    BY <1>4, <2>1, <2>2, <2>4, <2>5, <2>6 DEF NextOneByOne
<1> QED
  BY <1>4, <1>6, <1>9, <1>10, <1>11, <1>12, <1>13, OneByOneIs

LEMMA BroadcastKeeps ==
    ASSUME WakeIInv, NEW p \in Pass, Broadcast(p)
    PROVE  WakeIInv'
<1> USE DEF WakeIInv, WakeIs, WakeAt
<1>1. PICK r \in Request : r = tick[p].request
  BY DEF Broadcast, TickTyped, Holding
<1>2. /\ tick[p].pc = "broadcast" /\ sentFor' = sentFor \cup {r}
      /\ tick' = [tick EXCEPT ![p].pc = "mark"]
      /\ UNCHANGED <<queueVars, wakeRows, handed, overlapped>>
  BY <1>1 DEF Broadcast
<1>3. tick \in [Pass -> Ticks] /\ tick[p] \in Ticks /\ sentFor \subseteq Request \cup Command
  BY DEF WakeTypeOK, Ticks
<1>4. /\ \A q \in Pass : q # p => tick'[q] = tick[q]
      /\ tick'[p].pc = "mark" /\ tick'[p].command = tick[p].command /\ tick'[p].request = r
      /\ tick'[p].todo = tick[p].todo /\ tick'[p].of = tick[p].of
  BY <1>1, <1>2, <1>3 DEF Ticks
<1>5. UNCHANGED <<status, machine, claimedBy, result, lapsed, wake, asking, late, heard, handed, overlapped>>
  BY <1>2 DEF queueVars, wakeRows, restOfRows
<1>6. WakeTypeOK'
  <2>1. [tick[p] EXCEPT !.pc = "mark"] \in Ticks
    BY <1>3 DEF Ticks, WakePc
  <2>2. tick' \in [Pass -> Ticks]
    BY <1>2, <1>3, <2>1
  <2>3. QueueTypeOK' /\ sentFor' \subseteq Request \cup Command
    BY <1>2, <1>3, <1>5 DEF WakeTypeOK, QueueTypeOK
  <2> QED
    BY <1>5, <2>2, <2>3 DEF WakeTypeOK, Ticks
<1>7. TickTyped'
  BY <1>1, <1>4, <1>5 DEF TickTyped, Holding
<1>8. \A c \in Command : c \in sentFor' <=> c \in sentFor
  BY <1>1, <1>2
<1>9. SendersAreReal' /\ SentIsReal'
  BY <1>2, <1>5, <1>8 DEF SendersAreReal, SentIsReal
<1>10. PassesAreReal'
  BY <1>2, <1>4 DEF PassesAreReal
<1>11. RelaysAreTheirs'
  BY <1>4, <1>5 DEF RelaysAreTheirs, MadeFor
<1>12. wake[r].status # "none"
  BY <1>1, <1>2 DEF NoneIsUntouched, Holding
<1>13. NoneIsUntouched'
  BY <1>1, <1>2, <1>4, <1>5, <1>12 DEF NoneIsUntouched, Holding
<1>14. ASSUME OneByOne PROVE NextOneByOne
  <2>1. \A q \in Pass : q # p => tick'[q].pc = "idle"
    <3>1. OneAtATime
      BY <1>14 DEF OneByOne
    <3>2. \A q \in Pass : q = p \/ tick[q].pc = "idle"
      BY <1>2, <3>1 DEF OneAtATime
    <3> QED
      BY <1>4, <3>2
  <2>2. wake[r].status \in {"relaying", "gone"} /\ wake[r].command = NoCommand
    BY <1>1, <1>2, <1>14 DEF OneByOne
  <2>3. \A s \in Request : LiveNext(s) = LiveWakes(s)
    BY <1>5 DEF LiveNext, LiveWakes
  <2>4. /\ \A s \in Request : s # r => (QuietNext(s) <=> Quiet(s))
        /\ \A s \in Request, c \in Command : s # r => (OnlyByNext(c, s) <=> OnlyBy(c, s))
    BY <1>2, <1>8, <2>3 DEF QuietNext, Quiet, OnlyByNext, OnlyBy
  <2>5. \A s \in Request : wake[s].command \in Command \cup {NoCommand}
    BY DEF WakeTypeOK
  <2> USE <1>14
  <2> HIDE DEF WakeIInv
  <2>6. \A s \in Request : \A c, d \in LiveNext(s) : c = d
    BY <2>3 DEF OneByOne
  <2>7. /\ \A s \in Request : wake'[s].status = "pending" => wake'[s].command = NoCommand
        /\ \A s \in Request : wake'[s].status \in {"pending", "cancelled"} => QuietNext(s)
        /\ \A s \in Request : wake'[s].status = "relaying" /\ wake'[s].command # NoCommand
                              => OnlyByNext(wake'[s].command, s)
    BY <1>5, <2>2, <2>4, <2>5 DEF OneByOne
  <2> QED
    BY <1>4, <2>1, <2>6, <2>7 DEF NextOneByOne
<1> QED
  BY <1>5, <1>6, <1>7, <1>9, <1>10, <1>11, <1>13, <1>14, OneByOneIs

(* A relay sends: its command is claimed, so that the request is neither   *)
(* waiting nor withdrawn while passes do not overlap.                      *)
LEMMA RelaySendsKeeps ==
    ASSUME WakeIInv, NEW c \in Command, RelaySends(c)
    PROVE  WakeIInv'
<1> USE DEF WakeIInv, WakeIs, WakeAt
<1>1. PICK r : r = handed[c]
  OBVIOUS
<1>2. /\ status[c] = "claimed" /\ sentFor' = sentFor \cup {r, c}
      /\ UNCHANGED <<status, machine, claimedBy, result, lapsed, wake, asking, late, heard, tick,
                     handed, overlapped>>
  BY <1>1 DEF RelaySends, queueVars, wakeRows, restOfRows
<1>3. r \in Request
  BY <1>1, <1>2 DEF TickTyped, WakeTypeOK
<1>4. WakeTypeOK' /\ TickTyped' /\ RelaysAreTheirs'
  BY <1>2, <1>3 DEF WakeTypeOK, QueueTypeOK, TickTyped, RelaysAreTheirs, MadeFor
<1>5. /\ \A d \in Command : d \in sentFor' <=> d \in sentFor \/ d = c
      /\ \A s \in Request : s \in sentFor' <=> s \in sentFor \/ s = r
  BY <1>2, <1>3
<1>6. SendersAreReal'
  BY <1>1, <1>2, <1>5 DEF SendersAreReal
<1>7. SentIsReal' /\ PassesAreReal'
  BY <1>2, <1>3 DEF SentIsReal, PassesAreReal
<1>8. wake[r].status # "none"
  BY <1>1, <1>3 DEF NoneIsUntouched
<1>9. NoneIsUntouched'
  BY <1>2, <1>5, <1>8 DEF NoneIsUntouched
<1>10. ASSUME OneByOne PROVE NextOneByOne
  <2>1. \A s \in Request : LiveNext(s) = LiveWakes(s)
    BY <1>2 DEF LiveNext, LiveWakes
  <2>2. c \in LiveWakes(r)
    BY <1>1, <1>2 DEF LiveWakes
  <2>3. \A s \in Request : Quiet(s) => s # r /\ QuietNext(s)
    BY <1>5, <2>1, <2>2 DEF Quiet, QuietNext
  <2>4. \A s, d : s \in Request /\ OnlyBy(d, s) => OnlyByNext(d, s)
    <3> SUFFICES ASSUME NEW s \in Request, NEW d, OnlyBy(d, s), s \in sentFor'
                 PROVE  d \in sentFor'
      BY <2>1 DEF OnlyBy, OnlyByNext
    <3>1. CASE s = r
      <4>1. d = c
        BY <2>2, <3>1 DEF OnlyBy
      <4> QED
        BY <1>2, <4>1
    <3>2. CASE s # r
      BY <1>2, <1>5, <3>2 DEF OnlyBy
    <3> QED
      BY <3>1, <3>2
  <2>5. \A q \in Pass : tick[q].pc \in Holding => tick[q].request \in Request
    BY DEF TickTyped
  <2> USE <1>2, <1>10, <2>1
  <2> HIDE DEF WakeIInv
  <2>6. /\ \A q, s \in Pass : q = s \/ tick'[q].pc = "idle" \/ tick'[s].pc = "idle"
        /\ \A s \in Request : \A d, e \in LiveNext(s) : d = e
    BY DEF OneByOne, OneAtATime
  <2>7. /\ \A s \in Request : wake'[s].status = "pending" => wake'[s].command = NoCommand
        /\ \A s \in Request : wake'[s].status \in {"pending", "cancelled"} => QuietNext(s)
        /\ \A s \in Request : wake'[s].status = "relaying" /\ wake'[s].command # NoCommand
                              => OnlyByNext(wake'[s].command, s)
    BY <2>3, <2>4 DEF OneByOne
  <2>8. /\ \A q \in Pass : tick'[q].pc \in {"queue", "record", "broadcast"} =>
            wake'[tick'[q].request].status \in {"relaying", "gone"}
        /\ \A q \in Pass : tick'[q].pc \in {"queue", "broadcast"} =>
            /\ wake'[tick'[q].request].command = NoCommand
            /\ QuietNext(tick'[q].request)
        /\ \A q \in Pass : tick'[q].pc = "record" => OnlyByNext(tick'[q].command, tick'[q].request)
    BY <2>3, <2>4, <2>5 DEF OneByOne, Holding
  <2>9. \A q \in Pass : tick'[q].pc = "reconcile" => \A s \in tick'[q].todo :
            \/ wake'[s].status = "gone"
            \/ wake'[s].status = "relaying" /\ wake'[s].command = tick'[q].of[s]
    BY DEF OneByOne
  <2> QED
    BY <2>6, <2>7, <2>8, <2>9 DEF NextOneByOne
<1> QED
  BY <1>2, <1>4, <1>6, <1>7, <1>9, <1>10, OneByOneIs

LEMMA WakeStarts == WakeInit => WakeIInv
<1> SUFFICES ASSUME WakeInit PROVE WakeIInv
  OBVIOUS
<1> USE DEF WakeInit, QueueInit, WakeIs, WakeAt
<1>1. WakeTypeOK
  BY NoTickIsTyped
  DEF WakeTypeOK, QueueTypeOK, CommandStatus, NoRow, WakeOpen, WakeOver, Heard, Ticks
<1>2. \A p \in Pass : /\ tick[p].pc = "idle" /\ tick[p].todo = {}
                      /\ \A r \in Request : tick[p].of[r] = NoCommand
  BY DEF NoTick
<1>3. TickTyped /\ RelaysAreTheirs
  BY <1>2 DEF TickTyped, RelaysAreTheirs, MadeFor, Holding
<1>4. NoneIsUntouched /\ SendersAreReal /\ SentIsReal
  BY <1>2 DEF NoneIsUntouched, SendersAreReal, SentIsReal, Holding
<1>5. PassesAreReal
  BY <1>2 DEF PassesAreReal
<1>6. OneByOne
  <2>1. \A r \in Request : LiveWakes(r) = {} /\ wake[r].status = "none"
    BY DEF LiveWakes
  <2> QED
    BY <1>2, <2>1 DEF OneByOne, OneAtATime
<1> QED
  BY <1>1, <1>3, <1>4, <1>5, <1>6 DEF WakeIInv

LEMMA WakeSteps == WakeIInv /\ [WakeNext]_wakeVars => WakeIInv'
<1> SUFFICES ASSUME WakeIInv, [WakeNext]_wakeVars PROVE WakeIInv'
  OBVIOUS
<1>1. CASE RelayStep
  BY <1>1, RelaysMoveTheQueue, QueueMovesKeep
<1>2. CASE RowStep
  BY <1>2, OperatorsMoveRows, RowMovesKeep
<1>3. ASSUME NEW c \in Command, RelaySends(c) PROVE WakeIInv'
  BY <1>3, RelaySendsKeeps
<1>4. ASSUME NEW p \in Pass, NEW r \in tick[p].todo,
             \/ Reconcile(p, r) \/ Confirm(p, r) \/ ExpireWake(p, r)
             \/ LeavePending(p, r) \/ AlreadyAwake(p, r)
             \/ \E pc \in WakePc : ClaimWake(p, r, pc)
      PROVE  WakeIInv'
  <2>1. r \in Request
    BY DEF WakeIInv, WakeTypeOK
  <2>2. CASE \E pc \in WakePc : ClaimWake(p, r, pc) /\ WakeIs(r, {"pending"})
    BY <2>2, ClaimKeeps
  <2>3. CASE RowDone(p, r)
    BY <2>1, <2>3, RowDoneKeeps
  <2> QED
    BY <1>4, <2>2, <2>3, PassHandlesARow
<1>5. ASSUME NEW p \in Pass,
             \/ \E awake \in BOOLEAN : WakePassStart(p, awake)
             \/ ReadSent(p) \/ ReadLate(p) \/ ReadWaiting(p) \/ WakePassOver(p) \/ WakePassDies(p)
      PROVE  WakeIInv'
  BY <1>5, PassLists, ListingKeeps
<1>6. ASSUME NEW p \in Pass, CannotSend(p) \/ RecordWake(p) \/ MarkBroadcast(p) PROVE WakeIInv'
  BY <1>6, ReleaseKeeps
<1>7. ASSUME NEW p \in Pass, Broadcast(p) \/ \E m \in Machine : QueueWake(p, m) PROVE WakeIInv'
  BY <1>7, BroadcastKeeps, QueueWakeKeeps
<1>8. CASE UNCHANGED wakeVars
  <2>1. QueueMoves
    BY <1>8 DEF wakeVars, queueVars, histories, QueueMoves, WakeIInv, WakeTypeOK, QueueTypeOK, SendersAreReal
  <2> QED
    BY <2>1, QueueMovesKeep
<1>9. ASSUME NEW p \in Pass, TickStep(p) PROVE WakeIInv'
  BY <1>4, <1>5, <1>6, <1>7, <1>9 DEF TickStep
<1> QED
  BY <1>1, <1>2, <1>3, <1>5, <1>8, <1>9 DEF WakeNext, RelayStep, RowStep

(* A wake that is shown as sent, awake or not answering was sent, whoever  *)
(* wrote it; while passes do not overlap a request has one live command at *)
(* most, and one that says cancelled has none and was not sent             *)
(* (wake._claim, wake.cancel_request).                                     *)
THEOREM WakeSafety == WakeSpec => []WakeInv
<1>1. WakeIInv => WakeInv
  <2> SUFFICES ASSUME WakeIInv PROVE WakeInv
    OBVIOUS
  <2>1. OneRelay
    <3> SUFFICES ASSUME ~overlapped, NEW r \in Request
                 PROVE  Cardinality(LiveWakes(r)) <= 1
      BY DEF OneRelay
    <3>1. \A c, d \in LiveWakes(r) : c = d
      BY DEF WakeIInv, OneByOne
    <3>2. CASE LiveWakes(r) = {}
      BY <3>2, FS_EmptySet
    <3>3. CASE LiveWakes(r) # {}
      <4>1. PICK c \in LiveWakes(r) : TRUE
        BY <3>3
      <4>2. LiveWakes(r) = {c}
        BY <3>1, <4>1
      <4> QED
        BY <4>2, FS_Singleton
    <3> QED
      BY <3>2, <3>3
  <2>2. WithdrawnIsUnsent
    BY DEF WithdrawnIsUnsent, WakeIInv, OneByOne, Quiet, WakeIs
  <2> QED
    BY <2>1, <2>2 DEF WakeInv, WakeIInv
<1> QED
  BY <1>1, WakeStarts, WakeSteps, PTL DEF WakeSpec

===============================================================================
