-------------------------------- MODULE Team --------------------------------
(***************************************************************************)
(* The people of one organization: how an account comes to exist, how a    *)
(* seat is offered, taken, and taken back.                                 *)
(*                                                                         *)
(* Every page reads, decides, and writes one transaction later, so an      *)
(* invitation, an acceptance, a revocation and a removal are two steps     *)
(* each: what the first step read may be old by the second.  Mail is not   *)
(* modelled: a link that never arrives is one that is never followed, and  *)
(* sending it again changes no row (ResendInvitationView does not give the *)
(* invitation another week).                                               *)
(***************************************************************************)
EXTENDS Integers, FiniteSets

CONSTANTS
  People,       \* one address and at most one account each
  Founder,      \* the one whose registration creates the organization
  Invitations,  \* invitation rows
  Pages,        \* requests being handled
  SeatLimits,   \* the limits of team members the plans on offer have
  MaxVisits     \* bound: requests in a behaviour

ASSUME TeamAssumption ==
  /\ Founder \in People
  /\ IsFiniteSet(People) /\ IsFiniteSet(Pages)
  /\ SeatLimits \subseteq Nat \ {0}
  /\ MaxVisits \in Nat

InvitableRoles == {"admin", "member"}
Roles == InvitableRoles \cup {"owner"}
Managers == {"owner", "admin"}
NoInvitation == [status |-> "none"]
Waiting == [does |-> "nothing"]

VARIABLES
  registered,  \* people with an account (a confirmed address gates launches, not seats)
  elsewhere,   \* people who registered a business of their own
  seat,        \* the OrganizationMember rows: a role or none
  invitation,  \* the Invitation rows
  page,        \* what each request has read
  seats,       \* the limit of the organization's plan
  granted,     \* history: <<registered, role>> somebody with authority gave
  raced,       \* history: an acceptance or plan change began beside another
  visits

teamVars == <<registered, elsewhere, seat, invitation, page, seats,
              granted, raced, visits>>

Members == {p \in People : seat[p] # "none"}
Pending == {i \in Invitations : invitation[i].status = "pending"}

\* can_administer, for the organization organization_for answers: the oldest
\* seat decides, so whoever owns another business manages only that one.
CanManage(p) == seat[p] \in Managers /\ p \notin elsewhere

\* Invitation.is_open: pending, and the clock has not run out.
IsOpen(i) == invitation[i].status = "pending" /\ ~invitation[i].expired

Visit == visits < MaxVisits /\ visits' = visits + 1

Spending == {r \in Pages : page[r].does \in {"accept", "plan"}}
Begin == raced' = (raced \/ Spending # {})

-----------------------------------------------------------------------------
(* Accounts *)

\* register: account, business, seat and subscription, all or nothing.
Register(p) ==
  /\ p \notin registered
  /\ registered' = registered \cup {p}
  /\ IF p = Founder
     THEN /\ seat' = [seat EXCEPT ![p] = "owner"]
          /\ granted' = granted \cup {<<p, "owner">>}
          /\ UNCHANGED elsewhere
     ELSE elsewhere' = elsewhere \cup {p} /\ UNCHANGED <<seat, granted>>
  /\ UNCHANGED <<invitation, page, visits, seats, raced>>

-----------------------------------------------------------------------------
(* Inviting *)

\* _seat_count: members and open invitations, expired ones included.
SeatCount == Cardinality(Members) + Cardinality(Pending)

\* invite, up to the row it will write: an open one for this address, or new.
Offer(r, by, p, role) ==
  LET existing == {i \in Pending : invitation[i].email = p}
      fresh == {i \in Invitations : invitation[i] = NoInvitation}
  IN /\ Visit
     /\ page[r] = Waiting
     /\ CanManage(by)
     /\ p \notin Members
     /\ SeatCount + 1 <= seats
     /\ \E i \in IF existing # {} THEN existing ELSE fresh :
          page' = [page EXCEPT ![r] = [does |-> "offer", of |-> i, email |-> p, role |-> role,
                                       resent |-> existing # {}]]
     /\ UNCHANGED <<registered, elsewhere, seat, invitation, granted, seats, raced>>

\* invitation.save(): every column, so a resent one is pending again whatever
\* it has become.  A second open one for the address breaks the constraint.
SendOffer(r) ==
  LET o == page[r]
  IN /\ o.does = "offer"
     /\ page' = [page EXCEPT ![r] = Waiting]
     /\ IF \/ \E i \in Pending \ {o.of} : invitation[i].email = o.email
           \/ ~o.resent /\ invitation[o.of] # NoInvitation
        THEN UNCHANGED <<invitation, granted>>
        ELSE /\ invitation' = [invitation EXCEPT ![o.of] =
                  [status |-> "pending", email |-> o.email, role |-> o.role, expired |-> FALSE]]
             /\ granted' = granted \cup {<<o.email, o.role>>}
     /\ UNCHANGED <<registered, elsewhere, seat, visits, seats, raced>>

\* INVITATION_EXPIRY_DAYS go by.
Expire(i) ==
  /\ IsOpen(i)
  /\ invitation' = [invitation EXCEPT ![i].expired = TRUE]
  /\ UNCHANGED <<registered, elsewhere, seat, page, granted, visits, seats, raced>>

\* RevokeInvitationView loads; revoke asks that copy whether it is pending.
OpenRevoke(r, by, i) ==
  /\ Visit
  /\ page[r] = Waiting
  /\ CanManage(by)
  /\ i \in Pending
  /\ page' = [page EXCEPT ![r] = [does |-> "revoke", of |-> i]]
  /\ UNCHANGED <<registered, elsewhere, seat, invitation, granted, seats, raced>>

Revoke(r) ==
  /\ page[r].does = "revoke"
  /\ page' = [page EXCEPT ![r] = Waiting]
  /\ invitation' = [invitation EXCEPT ![page[r].of].status = "revoked"]
  /\ UNCHANGED <<registered, elsewhere, seat, granted, visits, seats, raced>>

-----------------------------------------------------------------------------
(* Accepting *)

\* Faulty: whoever is signed in may follow the link.
AnyoneMayAccept(p, i) == p = invitation[i].email \/ p \in registered

\* AcceptInvitationView: a stranger fills in the form, somebody with an
\* account signs in first, and only as the invited address.
MayAccept(p, i) == p = invitation[i].email

\* Faulty: the seats were counted when the invitation was sent.
OpenAcceptUncounted(r, p, i) ==
  /\ Visit
  /\ page[r] = Waiting
  /\ IsOpen(i)
  /\ MayAccept(p, i)
  /\ page' = [page EXCEPT ![r] = [does |-> "accept", of |-> i, by |-> p,
                                  role |-> invitation[i].role, new |-> p \notin registered]]
  /\ Begin
  /\ UNCHANGED <<registered, elsewhere, seat, invitation, seats, granted>>

\* accept, up to its check: over the limit, the transaction is rolled back.
OpenAccept(r, p, i) ==
  /\ Visit
  /\ page[r] = Waiting
  /\ IsOpen(i)
  /\ MayAccept(p, i)
  /\ Cardinality(Members) + 1 <= seats
  /\ page' = [page EXCEPT ![r] = [does |-> "accept", of |-> i, by |-> p,
                                  role |-> invitation[i].role, new |-> p \notin registered]]
  /\ Begin
  /\ UNCHANGED <<registered, elsewhere, seat, invitation, seats, granted>>

\* The account, the seat and the invitation commit together; an address that
\* has been registered meanwhile fails them all.
Accept(r) ==
  LET a == page[r]
  IN /\ a.does = "accept"
     /\ page' = [page EXCEPT ![r] = Waiting]
     /\ IF a.new /\ a.by \in registered
        THEN UNCHANGED <<registered, seat, invitation>>
        ELSE /\ registered' = registered \cup {a.by}
             /\ seat' = [seat EXCEPT ![a.by] = IF @ = "none" THEN a.role ELSE @]
             /\ invitation' = [invitation EXCEPT ![a.of].status = "accepted"]
     /\ UNCHANGED <<elsewhere, granted, visits, seats, raced>>

-----------------------------------------------------------------------------
(* Leaving *)

\* RemoveMemberView and remove_member's check for another owner.
OpenRemove(r, by, p) ==
  /\ Visit
  /\ page[r] = Waiting
  /\ CanManage(by)
  /\ p \in Members
  /\ seat[p] = "owner" => \E q \in Members \ {p} : seat[q] = "owner"
  /\ page' = [page EXCEPT ![r] = [does |-> "remove", of |-> p]]
  /\ UNCHANGED <<registered, elsewhere, seat, invitation, granted, seats, raced>>

RemoveMember(r) ==
  /\ page[r].does = "remove"
  /\ page' = [page EXCEPT ![r] = Waiting]
  /\ seat' = [seat EXCEPT ![page[r].of] = "none"]
  /\ UNCHANGED <<registered, elsewhere, invitation, granted, visits, seats, raced>>

\* OrganizationMemberAdmin: staff may give a member any role.
ChangeRole(p, role) ==
  /\ Visit
  /\ p \in Members
  /\ seat' = [seat EXCEPT ![p] = role]
  /\ granted' = granted \cup {<<p, role>>}
  /\ UNCHANGED <<registered, elsewhere, invitation, page, seats, raced>>

\* ChangePlanView: a plan the members do not fit in is refused
\* (_downgrade_blockers); open invitations are not asked.
OpenChangePlan(r, by, limit) ==
  /\ Visit
  /\ page[r] = Waiting
  /\ CanManage(by)
  /\ Cardinality(Members) <= limit
  /\ page' = [page EXCEPT ![r] = [does |-> "plan", limit |-> limit]]
  /\ Begin
  /\ UNCHANGED <<registered, elsewhere, seat, invitation, seats, granted>>

ChangePlan(r) ==
  /\ page[r].does = "plan"
  /\ page' = [page EXCEPT ![r] = Waiting]
  /\ seats' = page[r].limit
  /\ UNCHANGED <<registered, elsewhere, seat, invitation, granted, raced, visits>>

-----------------------------------------------------------------------------
TeamInit ==
  /\ registered = {}
  /\ elsewhere = {}
  /\ seat = [p \in People |-> "none"]
  /\ invitation = [i \in Invitations |-> NoInvitation]
  /\ page = [r \in Pages |-> Waiting]
  /\ granted = {}
  /\ seats \in SeatLimits
  /\ raced = FALSE
  /\ visits = 0

TeamNext ==
  \/ \E p \in People : Register(p)
  \/ \E p \in People, role \in Roles : ChangeRole(p, role)
  \/ \E i \in Invitations : Expire(i)
  \/ \E r \in Pages :
       \/ \E by, p \in People, role \in InvitableRoles : Offer(r, by, p, role)
       \/ SendOffer(r)
       \/ \E by \in People, i \in Invitations : OpenRevoke(r, by, i)
       \/ Revoke(r)
       \/ \E p \in People, i \in Invitations \ {j \in Invitations : invitation[j] = NoInvitation} :
            OpenAccept(r, p, i)
       \/ Accept(r)
       \/ \E by, p \in People : OpenRemove(r, by, p)
       \/ RemoveMember(r)
       \/ \E by \in People, limit \in SeatLimits \ {seats} : OpenChangePlan(r, by, limit)
       \/ ChangePlan(r)

InvitationRow ==
  [status : {"pending", "accepted", "revoked"}, email : People, role : InvitableRoles,
   expired : BOOLEAN]

TeamTypeOK ==
  /\ registered \subseteq People
  /\ elsewhere \subseteq People
  /\ seat \in [People -> Roles \cup {"none"}]
  /\ invitation \in [Invitations -> InvitationRow \cup {NoInvitation}]
  /\ seats \in SeatLimits
  /\ granted \subseteq People \X Roles
  /\ visits \in 0 .. MaxVisits

-----------------------------------------------------------------------------
Accepting == {r \in Pages : page[r].does = "accept"}

\* The plan's limit holds at the moment a seat is spent, whatever has become of
\* the plan, the members and the invitation since it was sent; only requests
\* that ran beside each other can pass it.
SeatLimitKept ==
  ~raced => Cardinality(Members) + Cardinality(Accepting) <= seats

\* A seat, with the role it has, was given to that very person by somebody who
\* could: an administrator's invitation, the registration, or staff.
SeatsWereGranted ==
  \A p \in Members : <<p, seat[p]>> \in granted

-----------------------------------------------------------------------------
(* What the code does not keep (see the README) *)

\* invitations.py:21, acceptance "is the check that has to be right".
SeatsNeverOver == Cardinality(Members) <= seats

\* invitations.py:320, the organization "must keep at least one owner".
OwnerRemains ==
  [][\A r \in Pages :
       page[r].does = "remove" /\ page'[r] = Waiting /\ (\E p \in People : seat[p] = "owner") =>
         \E p \in People : seat'[p] = "owner"]_teamVars

\* invitations.py:4: pending "until somebody acts on it".
ActedOnStays ==
  [][\A i \in Invitations :
       invitation[i].status \in {"accepted", "revoked"} =>
         invitation'[i].status = invitation[i].status]_teamVars

=============================================================================
