-------------------------------- MODULE Invites --------------------------------
(***************************************************************************)
(* One invite link and the permission group it grants (hub/invites.py,     *)
(* permissions.update_group).  Every sign-in through the link is a visit   *)
(* that runs redeem: five transactions, beside other visits, an operator   *)
(* who revokes or deletes the invite, and admins who edit the group.       *)
(***************************************************************************)
EXTENDS Naturals, FiniteSets

CONSTANTS
    Person,     \* addresses
    Visit,      \* sign-ins under way at once
    MaxUses,    \* max_uses
    Pinned      \* pinned_emails; empty when anybody may come

ASSUME InviteAssumption == MaxUses \in Nat /\ Person # {} /\ Pinned \subseteq Person

VARIABLES
    invite,     \* the row: there, revoked, past its date, used_count
    redeemed,   \* invite_redemptions
    group,      \* the group: there, and its members
    visit,      \* where each visit is in redeem, and what it has read
    admitted    \* history: persons whom a visit has made members

inviteVars == <<invite, redeemed, group, visit, admitted>>

VisitPc == {"away", "look", "claim", "record", "read", "write"}
NoVisit == [pc |-> "away", person |-> CHOOSE p \in Person : TRUE, used |-> 0, inTime |-> FALSE,
            members |-> {}]

InviteTypeOK ==
    /\ invite \in [there : BOOLEAN, revoked : BOOLEAN, expired : BOOLEAN, used : Nat]
    /\ redeemed \subseteq Person /\ admitted \subseteq Person
    /\ group \in [there : BOOLEAN, members : SUBSET Person]
    /\ visit \in [Visit -> [pc : VisitPc, person : Person, used : Nat, inTime : BOOLEAN,
                            members : SUBSET Person]]

InviteInit ==
    /\ invite = [there |-> TRUE, revoked |-> FALSE, expired |-> FALSE, used |-> 0]
    /\ redeemed = {} /\ group = [there |-> TRUE, members |-> {}]
    /\ visit = [v \in Visit |-> NoVisit]
    /\ admitted = {}

VisitAt(v, pc) == visit[v].pc = pc
VisitGoes(v, pc) == visit' = [visit EXCEPT ![v].pc = pc]
VisitLeaves(v) == visit' = [visit EXCEPT ![v] = NoVisit]

-------------------------------------------------------------------------------
(* redeem.                                                                 *)

\* The row is read, and who the link was meant for.
FollowLink(v, p) ==
    /\ VisitAt(v, "away") /\ invite.there
    /\ Pinned # {} => p \in Pinned
    /\ visit' = [visit EXCEPT ![v] = [NoVisit EXCEPT !.pc = "look", !.person = p,
                     !.used = invite.used, !.inTime = ~invite.expired]]
    /\ UNCHANGED <<invite, redeemed, group, admitted>>

LookUp(v) ==
    /\ VisitAt(v, "look")
    /\ VisitGoes(v, IF visit[v].person \in redeemed THEN "read" ELSE "claim")
    /\ UNCHANGED <<invite, redeemed, group, admitted>>

(* Seeded fault: the check of what was read, and the write (the            *)
(* docstring's "would admit both").  No specification uses it.             *)
ClaimsFromTheRowRead(v) ==
    /\ VisitAt(v, "claim")
    /\ IF invite.there /\ ~invite.revoked /\ visit[v].used < MaxUses /\ visit[v].inTime
       THEN invite' = [invite EXCEPT !.used = @ + 1] /\ VisitGoes(v, "record")
       ELSE UNCHANGED invite /\ VisitLeaves(v)
    /\ UNCHANGED <<redeemed, group, admitted>>

(* One UPDATE whose WHERE clause holds every bound; a visit it does not    *)
(* serve is refused.                                                       *)
ClaimSeat(v) ==
    /\ VisitAt(v, "claim")
    /\ IF invite.there /\ ~invite.revoked /\ invite.used < MaxUses /\ visit[v].inTime
       THEN invite' = [invite EXCEPT !.used = @ + 1] /\ VisitGoes(v, "record")
       ELSE UNCHANGED invite /\ VisitLeaves(v)
    /\ UNCHANGED <<redeemed, group, admitted>>

RecordRedemption(v) ==
    /\ VisitAt(v, "record")
    /\ redeemed' = redeemed \cup {visit[v].person}
    /\ VisitGoes(v, "read")
    /\ UNCHANGED <<invite, group, admitted>>

(* get_group.  A group that is gone is skipped, a member is left alone.    *)
ReadGroup(v) ==
    /\ VisitAt(v, "read")
    /\ IF group.there /\ visit[v].person \notin group.members
       THEN visit' = [visit EXCEPT ![v].pc = "write", ![v].members = group.members]
       ELSE VisitLeaves(v)
    /\ UNCHANGED <<invite, redeemed, group, admitted>>

(* update_group: the whole list of e-mail members is replaced by the one   *)
(* that was read and the visitor; a group that went meanwhile is an error. *)
WriteGroup(v) ==
    /\ VisitAt(v, "write")
    /\ IF group.there
       THEN /\ group' = [group EXCEPT !.members = visit[v].members \cup {visit[v].person}]
            /\ admitted' = admitted \cup {visit[v].person}
       ELSE UNCHANGED <<group, admitted>>
    /\ VisitLeaves(v)
    /\ UNCHANGED <<invite, redeemed>>

\* The hub stops: every visit ends where it is.
HubStops ==
    /\ visit' = [v \in Visit |-> NoVisit]
    /\ UNCHANGED <<invite, redeemed, group, admitted>>

-------------------------------------------------------------------------------
(* Operators and time.                                                     *)

RevokeInvite ==
    /\ invite.there /\ invite' = [invite EXCEPT !.revoked = TRUE]
    /\ UNCHANGED <<redeemed, group, visit, admitted>>

\* The memberships that it granted stay.
DeleteInvite ==
    /\ invite.there /\ invite' = [invite EXCEPT !.there = FALSE]
    /\ redeemed' = {}
    /\ UNCHANGED <<group, visit, admitted>>

InviteExpires ==
    /\ ~invite.expired /\ invite' = [invite EXCEPT !.expired = TRUE]
    /\ UNCHANGED <<redeemed, group, visit, admitted>>

(* An admin saves a list of members, made from the list that the page was  *)
(* opened with, whoever joined or left since.                              *)
SaveGroup(members) ==
    /\ group.there /\ group' = [group EXCEPT !.members = members]
    /\ UNCHANGED <<invite, redeemed, visit, admitted>>

DeleteGroup ==
    /\ group.there /\ group' = [there |-> FALSE, members |-> {}]
    /\ UNCHANGED <<invite, redeemed, visit, admitted>>

InviteNext ==
    \/ \E v \in Visit : \/ \E p \in Person : FollowLink(v, p)
                        \/ LookUp(v) \/ ClaimSeat(v) \/ RecordRedemption(v)
                        \/ ReadGroup(v) \/ WriteGroup(v)
    \/ HubStops \/ RevokeInvite \/ DeleteInvite \/ InviteExpires
    \/ DeleteGroup \/ \E members \in SUBSET Person : SaveGroup(members)

InviteSpec == InviteInit /\ [][InviteNext]_inviteVars

-------------------------------------------------------------------------------
(* Properties.                                                             *)

(* "Two people racing the last seat cannot both be admitted" (redeem): no  *)
(* more persons than seats ever come in, and none that the count of used   *)
(* seats does not know of, whatever the visits have read and wherever the  *)
(* hub stopped.                                                            *)
SeatsHold ==
    /\ invite.used <= MaxUses
    /\ Cardinality(admitted) <= invite.used
    /\ Cardinality(redeemed) <= invite.used

(* The redemption rows are the answer to "who came in through this link"   *)
(* (revoke_invite): as long as the invite is there, nobody has been made a *)
(* member by it who is not on record.                                      *)
ArrivalsAreOnRecord == invite.there => admitted \subseteq redeemed

(* The two, and the kinds of values in the tables.                         *)
InviteInv == InviteTypeOK /\ SeatsHold /\ ArrivalsAreOnRecord

(* "Redemption is idempotent per address": a seat for each address.        *)
OneSeatEach == invite.there =>
    invite.used <= Cardinality(redeemed) + Cardinality({v \in Visit : VisitAt(v, "record")})

(* Nobody leaves the group, or comes back, by somebody else's visit.       *)
VisitsOnlyAdd == [][\A v \in Visit : WriteGroup(v) /\ group'.there =>
    group'.members = group.members \cup {visit[v].person}]_inviteVars
=============================================================================
