----------------------- MODULE OrganizationProofs ------------------------
(***************************************************************************)
(* What an organization has and is told, proved for any people, pages,     *)
(* sweeps, reports and limits: seats, the numbers of its invoices, and     *)
(* its mail.  Each part moves alone (see Office), so each has an           *)
(* invariant of its own, kept by its own steps.                            *)
(***************************************************************************)
EXTENDS Office, FiniteSetTheorems, TLAPS

-----------------------------------------------------------------------------
(***************************************************************************)
(* Seats: who sits was given the seat, and the plan's limit holds unless   *)
(* requests ran beside each other.  Pages act on what they read earlier,   *)
(* so the invariants say what a page at work may hold.                     *)
(***************************************************************************)

PageStates ==
  {Waiting}
  \cup [does : {"offer"}, of : Invitations, email : People, role : InvitableRoles, resent : BOOLEAN]
  \cup [does : {"revoke"}, of : Invitations]
  \cup [does : {"accept"}, of : Invitations, by : People, role : InvitableRoles, new : BOOLEAN]
  \cup [does : {"remove"}, of : People]
  \cup [does : {"plan"}, limit : SeatLimits]

SeatTypes ==
  /\ registered \subseteq People
  /\ seat \in [People -> Roles \cup {"none"}]
  /\ invitation \in [Invitations -> InvitationRow \cup {NoInvitation}]
  /\ page \in [Pages -> PageStates]

\* An invitation offers what was granted, and so does an acceptance at work.
OffersWereGranted ==
  /\ \A i \in Invitations :
       invitation[i] # NoInvitation => <<invitation[i].email, invitation[i].role>> \in granted
  /\ \A r \in Pages : page[r].does = "accept" => <<page[r].by, page[r].role>> \in granted

\* What a page read is still there, if changed.
PagesHoldRows ==
  \A r \in Pages :
    page[r].does \in {"revoke", "accept"} => invitation[page[r].of] # NoInvitation

GrantInv == SeatTypes /\ OffersWereGranted /\ PagesHoldRows /\ SeatsWereGranted

-----------------------------------------------------------------------------
(* Who was given a seat *)

LEMMA EmptyInvitation == NoInvitation \notin InvitationRow
  BY DEF NoInvitation, InvitationRow

LEMMA RegisterGrants ==
  ASSUME GrantInv, NEW p \in People, Register(p)
  PROVE  GrantInv'
<1>1. UNCHANGED <<invitation, page>> /\ granted \subseteq granted' /\ registered' \subseteq People
  BY DEF Register, GrantInv, SeatTypes
<1>2. seat' \in [People -> Roles \cup {"none"}] /\ SeatsWereGranted'
  <2>1. CASE p = Founder
    BY <2>1 DEF Register, GrantInv, SeatTypes, SeatsWereGranted, Members, Roles
  <2>2. CASE p # Founder
    BY <2>2 DEF Register, GrantInv, SeatTypes, SeatsWereGranted, Members
  <2> QED BY <2>1, <2>2
<1> QED BY <1>1, <1>2 DEF GrantInv, SeatTypes, OffersWereGranted, PagesHoldRows

LEMMA ChangeRoleGrants ==
  ASSUME GrantInv, NEW p \in People, NEW role \in Roles, ChangeRole(p, role)
  PROVE  GrantInv'
<1>1. /\ UNCHANGED <<registered, invitation, page>>
      /\ granted' = granted \cup {<<p, role>>}
      /\ seat' = [seat EXCEPT ![p] = role]
  BY DEF ChangeRole
<1>2. SeatTypes' /\ SeatsWereGranted'
  BY <1>1 DEF GrantInv, SeatTypes, SeatsWereGranted, Members, Roles
<1> QED BY <1>1, <1>2 DEF GrantInv, OffersWereGranted, PagesHoldRows

\* A page that reads keeps the rows as they are.
LEMMA ReadingGrants ==
  ASSUME GrantInv, NEW r \in Pages, NEW what \in PageStates,
         page' = [page EXCEPT ![r] = what],
         UNCHANGED <<registered, seat, invitation, granted>>,
         what.does = "accept" => <<what.by, what.role>> \in granted,
         what.does \in {"revoke", "accept"} => invitation[what.of] # NoInvitation
  PROVE  GrantInv'
<1>1. \A q \in Pages : page'[q] = IF q = r THEN what ELSE page[q]
  BY DEF GrantInv, SeatTypes
<1>2. page' \in [Pages -> PageStates]
  BY DEF GrantInv, SeatTypes
<1>3. SeatTypes' /\ SeatsWereGranted'
  BY <1>2 DEF GrantInv, SeatTypes, SeatsWereGranted, Members
<1>4. OffersWereGranted'
  BY <1>1 DEF GrantInv, OffersWereGranted
<1>5. PagesHoldRows'
  BY <1>1 DEF GrantInv, PagesHoldRows
<1> QED BY <1>3, <1>4, <1>5 DEF GrantInv

LEMMA WaitingIsAPage == Waiting \in PageStates /\ Waiting.does = "nothing"
  BY DEF Waiting, PageStates

\* One invitation is written, and the page is done.
LEMMA WritingGrants ==
  ASSUME GrantInv, NEW r \in Pages, NEW i \in Invitations, NEW written \in InvitationRow,
         page' = [page EXCEPT ![r] = Waiting],
         invitation' = [invitation EXCEPT ![i] = written],
         granted \subseteq granted', <<written.email, written.role>> \in granted',
         UNCHANGED <<registered, seat>>
  PROVE  GrantInv'
<1>1. \A q \in Pages : page'[q] = IF q = r THEN Waiting ELSE page[q]
  BY DEF GrantInv, SeatTypes
<1>2. \A j \in Invitations : invitation'[j] = IF j = i THEN written ELSE invitation[j]
  BY DEF GrantInv, SeatTypes
<1>3. SeatTypes'
  BY WaitingIsAPage DEF GrantInv, SeatTypes
<1>4. OffersWereGranted'
  BY <1>1, <1>2, WaitingIsAPage DEF GrantInv, OffersWereGranted
<1>5. PagesHoldRows'
  BY <1>1, <1>2, WaitingIsAPage, EmptyInvitation DEF GrantInv, PagesHoldRows
<1>6. SeatsWereGranted'
  BY DEF GrantInv, SeatsWereGranted, Members
<1> QED BY <1>3, <1>4, <1>5, <1>6 DEF GrantInv

LEMMA OfferGrants ==
  ASSUME GrantInv, NEW r \in Pages, NEW by \in People, NEW p \in People,
         NEW role \in InvitableRoles, Offer(r, by, p, role)
  PROVE  GrantInv'
<1>1. PICK i \in Invitations, resent \in BOOLEAN :
        page' = [page EXCEPT ![r] = [does |-> "offer", of |-> i, email |-> p, role |-> role,
                                     resent |-> resent]]
  BY DEF Offer, Pending
<1>2. [does |-> "offer", of |-> i, email |-> p, role |-> role, resent |-> resent] \in PageStates
  BY DEF PageStates
<1> QED BY <1>1, <1>2, ReadingGrants DEF Offer

LEMMA SendOfferGrants ==
  ASSUME GrantInv, NEW r \in Pages, SendOffer(r)
  PROVE  GrantInv'
<1> DEFINE o == page[r]
           written == [status |-> "pending", email |-> o.email, role |-> o.role, expired |-> FALSE]
<1>1. o \in [does : {"offer"}, of : Invitations, email : People, role : InvitableRoles,
             resent : BOOLEAN]
  BY DEF SendOffer, GrantInv, SeatTypes, PageStates, Waiting
<1>2. CASE UNCHANGED <<invitation, granted>>
  BY <1>2, ReadingGrants, WaitingIsAPage DEF SendOffer
<1>3. CASE invitation' = [invitation EXCEPT ![o.of] = written]
           /\ granted' = granted \cup {<<o.email, o.role>>}
  <2>1. written \in InvitationRow
    BY <1>1 DEF InvitationRow
  <2>2. o.of \in Invitations
    BY <1>1
  <2> QED BY <1>3, <2>1, <2>2, WritingGrants DEF SendOffer
<1> QED BY <1>2, <1>3 DEF SendOffer

LEMMA ExpireGrants ==
  ASSUME GrantInv, NEW i \in Invitations, Expire(i)
  PROVE  GrantInv'
<1>1. invitation[i] \in InvitationRow
  BY DEF Expire, IsOpen, GrantInv, SeatTypes, NoInvitation
<1>2. PICK written \in InvitationRow :
        /\ written.email = invitation[i].email /\ written.role = invitation[i].role
        /\ invitation' = [invitation EXCEPT ![i] = written]
  <2> DEFINE written == [invitation[i] EXCEPT !.expired = TRUE]
  <2>1. written \in InvitationRow /\ written.email = invitation[i].email /\ written.role = invitation[i].role
    BY <1>1 DEF InvitationRow
  <2>2. invitation' = [invitation EXCEPT ![i] = written]
    BY DEF Expire
  <2> QED BY <2>1, <2>2
<1>3. \A j \in Invitations : invitation'[j] = IF j = i THEN written ELSE invitation[j]
  BY <1>2 DEF GrantInv, SeatTypes
<1>4. UNCHANGED <<registered, seat, page, granted>>
  BY DEF Expire
<1>5. SeatTypes'
  BY <1>2, <1>4 DEF GrantInv, SeatTypes
<1>6. OffersWereGranted'
  BY <1>1, <1>2, <1>3, <1>4, EmptyInvitation DEF GrantInv, OffersWereGranted
<1>7. PagesHoldRows' /\ SeatsWereGranted'
  BY <1>2, <1>3, <1>4, EmptyInvitation DEF GrantInv, PagesHoldRows, SeatsWereGranted, Members
<1> QED BY <1>5, <1>6, <1>7 DEF GrantInv

\* A page that answers an invitation leaves its address and its role alone.
LEMMA AnsweredRow ==
  ASSUME GrantInv, NEW i \in Invitations, invitation[i] # NoInvitation,
         NEW answer \in {"accepted", "revoked"}
  PROVE  LET written == [invitation[i] EXCEPT !.status = answer]
         IN written \in InvitationRow /\ <<written.email, written.role>> \in granted
<1>1. invitation[i] \in InvitationRow
  BY DEF GrantInv, SeatTypes
<1> QED BY <1>1 DEF GrantInv, OffersWereGranted, InvitationRow

LEMMA RevokeGrants ==
  ASSUME GrantInv, NEW r \in Pages, Revoke(r)
  PROVE  GrantInv'
<1> DEFINE i == page[r].of
           written == [invitation[i] EXCEPT !.status = "revoked"]
<1>1. i \in Invitations /\ invitation[i] # NoInvitation
  BY DEF Revoke, GrantInv, SeatTypes, PageStates, Waiting, PagesHoldRows
<1>2. written \in InvitationRow /\ <<written.email, written.role>> \in granted
  BY <1>1, AnsweredRow
<1>3. invitation' = [invitation EXCEPT ![i] = written]
  BY DEF Revoke
<1> QED BY <1>1, <1>2, <1>3, WritingGrants DEF Revoke

LEMMA AcceptGrants ==
  ASSUME GrantInv, NEW r \in Pages, Accept(r)
  PROVE  GrantInv'
<1> DEFINE a == page[r]
           written == [invitation[a.of] EXCEPT !.status = "accepted"]
<1>1. a \in [does : {"accept"}, of : Invitations, by : People, role : InvitableRoles, new : BOOLEAN]
      /\ invitation[a.of] # NoInvitation /\ <<a.by, a.role>> \in granted
  BY DEF Accept, GrantInv, SeatTypes, PageStates, Waiting, PagesHoldRows, OffersWereGranted
<1>2. page' = [page EXCEPT ![r] = Waiting] /\ UNCHANGED granted
  BY DEF Accept
<1>3. CASE UNCHANGED <<registered, seat, invitation>>
  BY <1>2, <1>3, ReadingGrants, WaitingIsAPage
<1>4. CASE /\ registered' = registered \cup {a.by}
           /\ seat' = [seat EXCEPT ![a.by] = IF @ = "none" THEN a.role ELSE @]
           /\ invitation' = [invitation EXCEPT ![a.of] = written]
  <2>1. written \in InvitationRow /\ <<written.email, written.role>> \in granted /\ a.of \in Invitations
    BY <1>1, AnsweredRow
  <2>2. \A q \in Pages : page'[q] = IF q = r THEN Waiting ELSE page[q]
    BY <1>2 DEF GrantInv, SeatTypes
  <2> HIDE DEF written
  <2>3. \A j \in Invitations : invitation'[j] = IF j = a.of THEN written ELSE invitation[j]
    BY <1>4 DEF GrantInv, SeatTypes
  <2>4. /\ registered' \subseteq People
        /\ seat' \in [People -> Roles \cup {"none"}]
        /\ SeatsWereGranted'
    BY <1>1, <1>2, <1>4 DEF GrantInv, SeatTypes, SeatsWereGranted, Members, Roles
  <2>5. SeatTypes'
    BY <1>2, <1>4, <2>1, <2>4, WaitingIsAPage DEF GrantInv, SeatTypes
  <2>6. OffersWereGranted'
    BY <1>2, <2>1, <2>2, <2>3, WaitingIsAPage DEF GrantInv, OffersWereGranted
  <2>7. PagesHoldRows'
    <3> SUFFICES ASSUME NEW q \in Pages, page'[q].does \in {"revoke", "accept"}
                 PROVE  invitation'[page'[q].of] # NoInvitation
      BY DEF PagesHoldRows
    <3>1. q # r /\ page'[q] = page[q]
      BY <2>2, WaitingIsAPage
    <3>2. page[q].of \in Invitations /\ invitation[page[q].of] # NoInvitation
      BY <3>1 DEF GrantInv, SeatTypes, PageStates, Waiting, PagesHoldRows
    <3> QED BY <2>1, <2>3, <3>1, <3>2, EmptyInvitation
  <2> QED BY <2>4, <2>5, <2>6, <2>7 DEF GrantInv
<1> QED BY <1>3, <1>4 DEF Accept

LEMMA RemoveMemberGrants ==
  ASSUME GrantInv, NEW r \in Pages, RemoveMember(r)
  PROVE  GrantInv'
<1>1. /\ page' = [page EXCEPT ![r] = Waiting]
      /\ seat' = [seat EXCEPT ![page[r].of] = "none"]
      /\ UNCHANGED <<registered, invitation, granted>>
  BY DEF RemoveMember
<1>2. page[r].of \in People
  BY DEF RemoveMember, GrantInv, SeatTypes, PageStates, Waiting
<1>3. \A q \in Pages : page'[q] = IF q = r THEN Waiting ELSE page[q]
  BY <1>1 DEF GrantInv, SeatTypes
<1>4. SeatTypes' /\ SeatsWereGranted'
  BY <1>1, <1>2, WaitingIsAPage DEF GrantInv, SeatTypes, SeatsWereGranted, Members
<1>5. OffersWereGranted' /\ PagesHoldRows'
  BY <1>1, <1>3, WaitingIsAPage DEF GrantInv, OffersWereGranted, PagesHoldRows
<1> QED BY <1>4, <1>5 DEF GrantInv

LEMMA TeamNextGrants ==
  ASSUME GrantInv, TeamNext
  PROVE  GrantInv'
<1>1. ASSUME NEW p \in People, Register(p) PROVE GrantInv'
  BY <1>1, RegisterGrants
<1>2. ASSUME NEW p \in People, NEW role \in Roles, ChangeRole(p, role) PROVE GrantInv'
  BY <1>2, ChangeRoleGrants
<1>3. ASSUME NEW i \in Invitations, Expire(i) PROVE GrantInv'
  BY <1>3, ExpireGrants
<1>4. ASSUME NEW r \in Pages, NEW by \in People, NEW p \in People,
             NEW role \in InvitableRoles, Offer(r, by, p, role)
      PROVE  GrantInv'
  BY <1>4, OfferGrants
<1>5. ASSUME NEW r \in Pages, SendOffer(r) \/ Revoke(r) \/ Accept(r) \/ RemoveMember(r)
      PROVE  GrantInv'
  BY <1>5, SendOfferGrants, RevokeGrants, AcceptGrants, RemoveMemberGrants
<1>6. ASSUME NEW r \in Pages, NEW by \in People, NEW i \in Invitations, OpenRevoke(r, by, i)
      PROVE  GrantInv'
  <2> DEFINE what == [does |-> "revoke", of |-> i]
  <2>1. what \in PageStates /\ what.does = "revoke"
    BY DEF PageStates
  <2>2. invitation[i] # NoInvitation
    BY <1>6 DEF OpenRevoke, Pending, NoInvitation
  <2>3. page' = [page EXCEPT ![r] = what] /\ UNCHANGED <<registered, seat, invitation, granted>>
    BY <1>6 DEF OpenRevoke
  <2> QED BY <2>1, <2>2, <2>3, ReadingGrants
<1>7. ASSUME NEW r \in Pages, NEW p \in People, NEW i \in Invitations,
             invitation[i] # NoInvitation, OpenAccept(r, p, i)
      PROVE  GrantInv'
  <2> DEFINE what == [does |-> "accept", of |-> i, by |-> p, role |-> invitation[i].role,
                      new |-> p \notin registered]
  <2>1. invitation[i] \in InvitationRow /\ p = invitation[i].email
        /\ <<p, invitation[i].role>> \in granted
    BY <1>7 DEF OpenAccept, MayAccept, GrantInv, SeatTypes, OffersWereGranted
  <2>2. what \in PageStates
    BY <2>1 DEF PageStates, InvitationRow
  <2>3. page' = [page EXCEPT ![r] = what] /\ UNCHANGED <<registered, seat, invitation, granted>>
    BY <1>7 DEF OpenAccept
  <2> QED BY <1>7, <2>1, <2>2, <2>3, ReadingGrants
<1>8. ASSUME NEW r \in Pages, NEW by \in People, NEW p \in People, OpenRemove(r, by, p)
      PROVE  GrantInv'
  <2> DEFINE what == [does |-> "remove", of |-> p]
  <2>1. what \in PageStates /\ what.does = "remove"
    BY DEF PageStates
  <2> QED BY <1>8, <2>1, ReadingGrants DEF OpenRemove
<1>9. ASSUME NEW r \in Pages, NEW by \in People, NEW limit \in SeatLimits,
             OpenChangePlan(r, by, limit)
      PROVE  GrantInv'
  <2> DEFINE what == [does |-> "plan", limit |-> limit]
  <2>1. what \in PageStates /\ what.does = "plan"
    BY DEF PageStates
  <2> QED BY <1>9, <2>1, ReadingGrants DEF OpenChangePlan
<1>10. ASSUME NEW r \in Pages, ChangePlan(r) PROVE GrantInv'
  BY <1>10, ReadingGrants, WaitingIsAPage DEF ChangePlan
<1> QED BY <1>1, <1>2, <1>3, <1>4, <1>5, <1>6, <1>7, <1>8, <1>9, <1>10 DEF TeamNext

-----------------------------------------------------------------------------
LEMMA GrantInit == Init => GrantInv
  BY WaitingIsAPage DEF Init, TeamInit, GrantInv, SeatTypes, OffersWereGranted, PagesHoldRows,
     SeatsWereGranted, Members

LEMMA GrantStep ==
  ASSUME GrantInv, [Next]_vars
  PROVE  GrantInv'
<1>1. CASE TeamMoves
  BY <1>1, TeamNextGrants DEF TeamMoves
<1>2. CASE UNCHANGED teamVars
  BY <1>2 DEF teamVars, GrantInv, SeatTypes, OffersWereGranted, PagesHoldRows, SeatsWereGranted,
     Members
<1> QED BY <1>1, <1>2 DEF Next, DoorsMove, SendRateMoves, NoticesMove, SendersMove, LedgerMoves,
     vars

\* organizations/invitations.py: a seat, with its role, was given to that very
\* person by somebody who could, whatever the pages had read.
THEOREM WhoSitsWasInvited == Spec => []SeatsWereGranted
<1>1. GrantInv /\ [Next]_vars => GrantInv'
  BY GrantStep
<1>2. GrantInv => SeatsWereGranted
  BY DEF GrantInv
<1> QED BY <1>1, <1>2, GrantInit, PTL DEF Spec
-----------------------------------------------------------------------------
(* The plan's limit *)

\* Before the founder registers there is nobody to invite, or to read a page.
NobodyYet ==
  Founder \notin registered =>
    /\ Members = {}
    /\ \A i \in Invitations : invitation[i] = NoInvitation
    /\ \A r \in Pages : page[r] = Waiting

\* The members fit, and one that a page is about to add, or in the plan it is
\* about to change to; without a race there is one such page at most.
Roomy ==
  ~raced =>
    /\ \A r, s \in Spending : r = s
    /\ Cardinality(Members) <= seats
    /\ \A r \in Pages :
         /\ page[r].does = "accept" => Cardinality(Members) + 1 <= seats
         /\ page[r].does = "plan" => Cardinality(Members) <= page[r].limit

RoomInv == GrantInv /\ seats \in SeatLimits /\ NobodyYet /\ Roomy

LEMMA MembersAreFinite == IsFiniteSet(Members) /\ Cardinality(Members) \in Nat
  BY TeamAssumption, FS_Subset, FS_CardinalityType DEF Members

LEMMA FewerCount ==
  ASSUME NEW S, IsFiniteSet(S), NEW T, T \subseteq S
  PROVE  Cardinality(T) \in Nat /\ Cardinality(T) <= Cardinality(S)
<1>1. T \in SUBSET S
  OBVIOUS
<1> QED BY <1>1, FS_Subset, FS_CardinalityType

\* Room is kept by whatever adds no member and starts no spending.
LEMMA NoSpendingKeepsRoom ==
  ASSUME RoomInv, GrantInv', Members' \subseteq Members, UNCHANGED seats,
         raced' = raced, \A r \in Pages : page'[r].does \in {"accept", "plan"} => page'[r] = page[r]
  PROVE  Roomy'
<1>1. Cardinality(Members') \in Nat /\ Cardinality(Members') <= Cardinality(Members)
  BY MembersAreFinite, FewerCount
<1>2. seats \in Nat /\ \A r \in Pages : page[r].does = "plan" => page[r].limit \in Nat
  <2>1. ASSUME NEW r \in Pages, page[r].does = "plan" PROVE page[r].limit \in SeatLimits
    BY <2>1 DEF RoomInv, GrantInv, SeatTypes, PageStates, Waiting
  <2> QED BY <2>1, TeamAssumption DEF RoomInv
<1>3. Spending' \subseteq Spending
  BY DEF Spending
<1> QED BY <1>1, <1>2, <1>3, MembersAreFinite DEF RoomInv, Roomy

\* One page begins to spend, alone or in a race.
LEMMA BeginKeepsRoom ==
  ASSUME RoomInv, NEW r \in Pages, NEW what \in PageStates, page[r] = Waiting,
         page' = [page EXCEPT ![r] = what], Begin, UNCHANGED <<seat, seats>>,
         what.does = "accept" => Cardinality(Members) + 1 <= seats,
         what.does = "plan" => Cardinality(Members) <= what.limit
  PROVE  Roomy'
<1>1. SUFFICES ASSUME ~raced' PROVE Roomy'
  BY DEF Roomy
<1>2. ~raced /\ Spending = {}
  BY <1>1 DEF Begin
<1>3. \A q \in Pages : page'[q] = IF q = r THEN what ELSE page[q]
  BY DEF RoomInv, GrantInv, SeatTypes
<1>4. Spending' \subseteq {r}
  BY <1>2, <1>3 DEF Spending
<1>5. \A q \in Pages : page'[q].does \in {"accept", "plan"} => q = r /\ page'[q] = what
  BY <1>2, <1>3 DEF Spending
<1>6. Members' = Members
  BY DEF Members
<1> QED BY <1>2, <1>4, <1>5, <1>6 DEF RoomInv, Roomy

\* The only page that spends is done.
LEMMA SpentKeepsRoom ==
  ASSUME RoomInv, NEW r \in Pages, page[r].does \in {"accept", "plan"},
         page' = [page EXCEPT ![r] = Waiting], raced' = raced,
         ~raced => Cardinality(Members') <= seats'
  PROVE  Roomy'
<1>1. SUFFICES ASSUME ~raced PROVE Roomy'
  BY DEF Roomy
<1>2. \A q \in Pages : page'[q] = IF q = r THEN Waiting ELSE page[q]
  BY DEF RoomInv, GrantInv, SeatTypes
<1>3. \A q \in Pages : page'[q].does \notin {"accept", "plan"}
  BY <1>1, <1>2, WaitingIsAPage DEF RoomInv, Roomy, Spending
<1>4. Spending' = {}
  BY <1>3 DEF Spending
<1> QED BY <1>1, <1>3, <1>4 DEF Roomy

\* Who manages, or follows a link, was let in after the founder.
LEMMA FounderCameFirst ==
  ASSUME RoomInv,
         \/ Members # {}
         \/ \E i \in Invitations : invitation[i] # NoInvitation
         \/ \E r \in Pages : page[r] # Waiting
  PROVE  Founder \in registered
BY DEF RoomInv, NobodyYet

LEMMA RegisterKeepsRoom ==
  ASSUME RoomInv, NEW p \in People, Register(p)
  PROVE  RoomInv'
<1>1. UNCHANGED <<invitation, page, seats, raced>> /\ registered' = registered \cup {p}
  BY DEF Register
<1>2. GrantInv'
  BY RegisterGrants DEF RoomInv
<1>3. CASE p = Founder
  <2>1. Members = {} /\ \A r \in Pages : page[r] = Waiting
    BY <1>3 DEF Register, RoomInv, NobodyYet
  <2>2. Members' \subseteq {Founder}
    BY <1>3, <2>1 DEF Register, Members, RoomInv, GrantInv, SeatTypes
  <2>3. Cardinality(Members') \in Nat /\ Cardinality(Members') <= 1
    <3>1. IsFiniteSet({Founder}) /\ Cardinality({Founder}) = 1
      BY FS_Singleton
    <3> QED BY <2>2, <3>1, FewerCount
  <2>4. seats \in Nat /\ seats >= 1
    BY TeamAssumption DEF RoomInv
  <2>5. Spending' = {} /\ \A r \in Pages : page'[r].does \notin {"accept", "plan"}
    BY <1>1, <2>1, WaitingIsAPage DEF Spending
  <2>6. Roomy'
    BY <1>1, <2>3, <2>4, <2>5 DEF Roomy
  <2> QED BY <1>1, <1>2, <1>3, <2>6 DEF RoomInv, NobodyYet
<1>4. CASE p # Founder
  <2>1. Members' = Members
    BY <1>4 DEF Register, Members
  <2>2. Roomy'
    BY <1>1, <1>2, <2>1, NoSpendingKeepsRoom
  <2> QED BY <1>1, <1>2, <1>4, <2>1, <2>2 DEF RoomInv, NobodyYet
<1> QED BY <1>3, <1>4

LEMMA AcceptKeepsRoom ==
  ASSUME RoomInv, NEW r \in Pages, Accept(r)
  PROVE  RoomInv'
<1> DEFINE a == page[r]
<1>1. a.does = "accept" /\ page' = [page EXCEPT ![r] = Waiting] /\ UNCHANGED <<seats, raced>>
      /\ registered \subseteq registered'
  BY DEF Accept
<1>2. GrantInv'
  BY AcceptGrants DEF RoomInv
<1>3. Members' \subseteq Members \cup {a.by}
  BY DEF Accept, Members, RoomInv, GrantInv, SeatTypes
<1>4. Cardinality(Members') <= Cardinality(Members) + 1
      /\ Cardinality(Members') \in Nat
  <2>1. IsFiniteSet(Members \cup {a.by})
        /\ Cardinality(Members \cup {a.by}) <= Cardinality(Members) + 1
        /\ Cardinality(Members \cup {a.by}) \in Nat
    <3>1. IsFiniteSet(Members)
      BY MembersAreFinite
    <3> HIDE DEF a
    <3>2. /\ IsFiniteSet(Members \cup {a.by})
          /\ Cardinality(Members \cup {a.by}) =
               IF a.by \in Members THEN Cardinality(Members) ELSE Cardinality(Members) + 1
      BY <3>1, FS_AddElement
    <3> QED BY <3>2, MembersAreFinite
  <2>2. Cardinality(Members') <= Cardinality(Members \cup {a.by}) /\ Cardinality(Members') \in Nat
    BY <1>3, <2>1, FewerCount
  <2> QED BY <2>1, <2>2, MembersAreFinite
<1>5. ~raced => Cardinality(Members') <= seats'
  <2>1. ~raced => Cardinality(Members) + 1 <= seats
    BY <1>1 DEF RoomInv, Roomy
  <2>2. seats \in Nat
    BY TeamAssumption DEF RoomInv
  <2> QED BY <1>1, <1>4, <2>1, <2>2, MembersAreFinite
<1>6. Roomy'
  BY <1>1, <1>5, SpentKeepsRoom
<1>7. Founder \in registered
  BY <1>1, WaitingIsAPage, FounderCameFirst
<1> QED BY <1>1, <1>2, <1>6, <1>7 DEF RoomInv, NobodyYet

LEMMA ChangePlanKeepsRoom ==
  ASSUME RoomInv, NEW r \in Pages, ChangePlan(r)
  PROVE  RoomInv'
<1>1. page[r].does = "plan" /\ page' = [page EXCEPT ![r] = Waiting] /\ seats' = page[r].limit
      /\ UNCHANGED <<registered, seat, raced>>
  BY DEF ChangePlan
<1>2. GrantInv'
  BY ReadingGrants, WaitingIsAPage DEF ChangePlan, RoomInv
<1>3. Members' = Members
  BY <1>1 DEF Members
<1>4. Roomy'
  <2>1. ~raced => Cardinality(Members) <= page[r].limit
    BY <1>1 DEF RoomInv, Roomy
  <2> QED BY <1>1, <1>3, <2>1, SpentKeepsRoom
<1>5. seats' \in SeatLimits
  BY <1>1 DEF RoomInv, GrantInv, SeatTypes, PageStates, Waiting
<1>6. Founder \in registered
  BY <1>1, WaitingIsAPage, FounderCameFirst
<1> QED BY <1>1, <1>2, <1>4, <1>5, <1>6 DEF RoomInv, NobodyYet

\* Whoever does it, a request follows the founder's registration.
LEMMA RequestsKeepRoom ==
  ASSUME RoomInv, GrantInv', Founder \in registered, registered \subseteq registered',
         UNCHANGED seats, Roomy'
  PROVE  RoomInv'
BY DEF RoomInv, NobodyYet

LEMMA ManagersFollowTheFounder ==
  ASSUME RoomInv, NEW by \in People, CanManage(by)
  PROVE  Founder \in registered
<1>1. by \in Members
  BY DEF CanManage, Managers, Members
<1> QED BY <1>1, FounderCameFirst

LEMMA TeamNextKeepsRoom ==
  ASSUME RoomInv, TeamNext
  PROVE  RoomInv'
<1>0. GrantInv'
  BY TeamNextGrants DEF RoomInv
<1>1. ASSUME NEW p \in People, Register(p) PROVE RoomInv'
  BY <1>1, RegisterKeepsRoom
<1>2. ASSUME NEW p \in People, NEW role \in Roles, ChangeRole(p, role) PROVE RoomInv'
  <2>1. Founder \in registered
    BY <1>2, FounderCameFirst DEF ChangeRole
  <2>2. Members' \subseteq Members
    BY <1>2 DEF ChangeRole, Members, RoomInv, GrantInv, SeatTypes
  <2>3. Roomy'
    BY <1>0, <1>2, <2>2, NoSpendingKeepsRoom DEF ChangeRole
  <2> QED BY <1>0, <1>2, <2>1, <2>3, RequestsKeepRoom DEF ChangeRole
<1>3. ASSUME NEW i \in Invitations, Expire(i) PROVE RoomInv'
  <2>1. Founder \in registered
    BY <1>3, FounderCameFirst DEF Expire, IsOpen, NoInvitation
  <2>2. Members' = Members
    BY <1>3 DEF Expire, Members
  <2>3. Roomy'
    BY <1>0, <1>3, <2>2, NoSpendingKeepsRoom DEF Expire
  <2> QED BY <1>0, <1>3, <2>1, <2>3, RequestsKeepRoom DEF Expire
<1>4. ASSUME NEW r \in Pages, NEW what \in PageStates, page' = [page EXCEPT ![r] = what],
             what.does \notin {"accept", "plan"}, Founder \in registered,
             registered' = registered, seats' = seats, raced' = raced, Members' \subseteq Members
      PROVE  RoomInv'
  <2>1. \A q \in Pages : page'[q] = IF q = r THEN what ELSE page[q]
    BY <1>4 DEF RoomInv, GrantInv, SeatTypes
  <2>2. Roomy'
    BY <1>0, <1>4, <2>1, NoSpendingKeepsRoom
  <2> QED BY <1>0, <1>4, <2>2, RequestsKeepRoom
<1>5. ASSUME NEW r \in Pages, NEW by \in People, NEW p \in People,
             NEW role \in InvitableRoles, Offer(r, by, p, role)
      PROVE  RoomInv'
  <2>1. PICK i \in Invitations, resent \in BOOLEAN :
          page' = [page EXCEPT ![r] = [does |-> "offer", of |-> i, email |-> p, role |-> role,
                                       resent |-> resent]]
    BY <1>5 DEF Offer, Pending
  <2> DEFINE what == [does |-> "offer", of |-> i, email |-> p, role |-> role, resent |-> resent]
  <2>2. what \in PageStates /\ what.does = "offer"
    BY DEF PageStates
  <2>3. Founder \in registered /\ Members' = Members
        /\ UNCHANGED <<registered, seats, raced>>
    BY <1>5, ManagersFollowTheFounder DEF Offer, Members
  <2> QED BY <1>4, <2>1, <2>2, <2>3
<1>6. ASSUME NEW r \in Pages, SendOffer(r) \/ Revoke(r) PROVE RoomInv'
  <2>1. page[r] # Waiting
    BY <1>6, WaitingIsAPage DEF SendOffer, Revoke
  <2>2. page' = [page EXCEPT ![r] = Waiting] /\ UNCHANGED <<registered, seat, seats, raced>>
    BY <1>6 DEF SendOffer, Revoke
  <2> QED BY <1>4, <2>1, <2>2, WaitingIsAPage, FounderCameFirst DEF Members
<1>7. ASSUME NEW r \in Pages, Accept(r) \/ ChangePlan(r) PROVE RoomInv'
  BY <1>7, AcceptKeepsRoom, ChangePlanKeepsRoom
<1>8. ASSUME NEW r \in Pages, RemoveMember(r) PROVE RoomInv'
  <2>1. page[r] # Waiting
    BY <1>8, WaitingIsAPage DEF RemoveMember
  <2>2. page' = [page EXCEPT ![r] = Waiting] /\ UNCHANGED <<registered, seats, raced>>
    BY <1>8 DEF RemoveMember
  <2>3. Members' \subseteq Members
    BY <1>8 DEF RemoveMember, Members, RoomInv, GrantInv, SeatTypes
  <2> QED BY <1>4, <2>1, <2>2, <2>3, WaitingIsAPage, FounderCameFirst
<1>9. ASSUME NEW r \in Pages, NEW by \in People, NEW i \in Invitations, OpenRevoke(r, by, i)
      PROVE  RoomInv'
  <2> DEFINE what == [does |-> "revoke", of |-> i]
  <2>1. what \in PageStates /\ what.does = "revoke"
    BY DEF PageStates
  <2> QED BY <1>4, <1>9, <2>1, ManagersFollowTheFounder DEF OpenRevoke, Members
<1>10. ASSUME NEW r \in Pages, NEW by \in People, NEW p \in People, OpenRemove(r, by, p)
      PROVE  RoomInv'
  <2> DEFINE what == [does |-> "remove", of |-> p]
  <2>1. what \in PageStates /\ what.does = "remove"
    BY DEF PageStates
  <2> QED BY <1>4, <1>10, <2>1, ManagersFollowTheFounder DEF OpenRemove, Members
<1>11. ASSUME NEW r \in Pages, NEW p \in People, NEW i \in Invitations,
              invitation[i] # NoInvitation, OpenAccept(r, p, i)
      PROVE  RoomInv'
  <2> DEFINE what == [does |-> "accept", of |-> i, by |-> p, role |-> invitation[i].role,
                      new |-> p \notin registered]
  <2>1. what \in PageStates /\ what.does = "accept"
    BY <1>11 DEF RoomInv, GrantInv, SeatTypes, InvitationRow, PageStates
  <2>2. Roomy'
    BY <1>11, <2>1, BeginKeepsRoom DEF OpenAccept
  <2>3. Founder \in registered
    BY <1>11, FounderCameFirst
  <2> QED BY <1>0, <1>11, <2>2, <2>3, RequestsKeepRoom DEF OpenAccept
<1>12. ASSUME NEW r \in Pages, NEW by \in People, NEW limit \in SeatLimits,
              OpenChangePlan(r, by, limit)
      PROVE  RoomInv'
  <2> DEFINE what == [does |-> "plan", limit |-> limit]
  <2>1. what \in PageStates /\ what.does = "plan" /\ what.limit = limit
    BY DEF PageStates
  <2>2. Roomy'
    BY <1>12, <2>1, BeginKeepsRoom DEF OpenChangePlan
  <2>3. Founder \in registered
    BY <1>12, ManagersFollowTheFounder DEF OpenChangePlan
  <2> QED BY <1>0, <1>12, <2>2, <2>3, RequestsKeepRoom DEF OpenChangePlan
<1> QED BY <1>1, <1>2, <1>3, <1>5, <1>6, <1>7, <1>8, <1>9, <1>10, <1>11, <1>12 DEF TeamNext

LEMMA RoomInit == Init => RoomInv
<1> SUFFICES ASSUME Init PROVE RoomInv
  OBVIOUS
<1>1. Members = {} /\ Spending = {} /\ seats \in SeatLimits /\ seats \in Nat
      /\ \A r \in Pages : page[r] = Waiting
  BY TeamAssumption, WaitingIsAPage DEF Init, TeamInit, Members, Spending
<1>2. NobodyYet
  BY <1>1 DEF Init, TeamInit, NobodyYet
<1>3. Roomy
  BY <1>1, FS_EmptySet, WaitingIsAPage DEF Roomy
<1> QED BY <1>1, <1>2, <1>3, GrantInit DEF RoomInv

LEMMA RoomStep ==
  ASSUME RoomInv, [Next]_vars
  PROVE  RoomInv'
<1>1. CASE TeamMoves
  BY <1>1, TeamNextKeepsRoom DEF TeamMoves
<1>2. CASE UNCHANGED teamVars
  BY <1>2 DEF teamVars, RoomInv, NobodyYet, Roomy, Members, Spending, GrantInv, SeatTypes,
     OffersWereGranted, PagesHoldRows, SeatsWereGranted
<1> QED BY <1>1, <1>2 DEF Next, DoorsMove, SendRateMoves, NoticesMove, SendersMove, LedgerMoves,
     vars

\* An acceptance at work has room, and without a race it is the only one.
LEMMA RoomIsEnough == RoomInv => SeatLimitKept
<1> SUFFICES ASSUME RoomInv, ~raced
             PROVE  Cardinality(Members) + Cardinality(Accepting) <= seats
  BY DEF SeatLimitKept
<1>1. Accepting \subseteq Spending
  BY DEF Accepting, Spending
<1>2. CASE Accepting = {}
  BY <1>2, FS_EmptySet, MembersAreFinite DEF RoomInv, Roomy
<1>3. ASSUME NEW r \in Accepting PROVE Cardinality(Members) + Cardinality(Accepting) <= seats
  <2>1. Accepting = {r}
    BY <1>1, <1>3 DEF RoomInv, Roomy
  <2>2. Cardinality(Accepting) = 1
    BY <2>1, FS_Singleton
  <2> QED BY <1>3, <2>2 DEF RoomInv, Roomy, Accepting
<1> QED BY <1>2, <1>3

\* organizations/invitations.py and billing/services.py: the members and the
\* acceptance at work fit the plan, unless requests ran beside each other.
THEOREM SeatsFitThePlan == Spec => []SeatLimitKept
<1>1. RoomInv /\ [Next]_vars => RoomInv'
  BY RoomStep
<1> QED BY <1>1, RoomInit, RoomIsEnough, PTL DEF Spec

-----------------------------------------------------------------------------
(***************************************************************************)
(* The numbers of invoices: while nobody writes a counter by hand they     *)
(* run from 1 to the counter.  What has to be shown with it is who may     *)
(* write a counter: the one sweep that holds the year's row, with the      *)
(* number that comes next.                                                 *)
(***************************************************************************)

InvoiceRow == [number : Nat, year : Years, status : Statuses, total : Nat, lines : Nat]

BillerRow ==
  [at : {"off", "asking", "numbered", "inserted", "made", "done"}, period : Periods \cup {"none"},
   year : Years \cup {0}, number : Nat, copy : Statuses \cup {"none"}]

LedgerTypes ==
  /\ year \in Years
  /\ counter \in [Years -> Nat]
  /\ invoice \in [Periods -> InvoiceRow \cup {NoInvoice}]
  /\ biller \in [Billers -> BillerRow]

HasLock(b) == biller[b].at \in {"numbered", "inserted"}

\* A sweep with the lock of a year's row has it alone, and the number after the
\* row's; one that entered an invoice is alone with the period.
LocksAreExclusive ==
  /\ \A b \in Billers : HasLock(b) => biller[b].number = counter[biller[b].year] + 1
  /\ \A b, c \in Billers : HasLock(b) /\ HasLock(c) /\ biller[b].year = biller[c].year => b = c
  /\ \A b \in Billers : Is(b, "inserted") => biller[b].period \notin Billed
  /\ \A b, c \in Billers :
       Is(b, "inserted") /\ Is(c, "inserted") /\ biller[b].period = biller[c].period => b = c

\* What a call or a form works on is there.
WorkIsThere ==
  /\ \A b \in Billers :
       /\ biller[b].at \in {"asking", "numbered", "inserted", "made"} => biller[b].period \in Periods
       /\ biller[b].at \in {"asking", "numbered", "inserted"} => biller[b].year \in Years
       /\ Is(b, "made") => biller[b].period \in Billed
  /\ form # NoForm =>
       /\ form.period \in Billed
       /\ form.row \in InvoiceRow
       /\ form.row.number = invoice[form.period].number
       /\ form.row.year = invoice[form.period].year

Numbered(y) == {p \in Billed : invoice[p].year = y /\ invoice[p].number # 0}
NumbersOf(y) == {invoice[p].number : p \in Numbered(y)}

Gapless ==
  ~tampered =>
    \A y \in Years :
      /\ IsFiniteSet(Numbered(y))
      /\ NumbersOf(y) = 1 .. counter[y]
      /\ Cardinality(Numbered(y)) = counter[y]

LedgerInv == LedgerTypes /\ LocksAreExclusive /\ WorkIsThere /\ Gapless

-----------------------------------------------------------------------------
(* Values *)

LEMMA NoInvoiceIsNoRow == NoInvoice \notin InvoiceRow
  BY DEF NoInvoice, InvoiceRow, Statuses

LEMMA OffIsABiller == Off \in BillerRow /\ Off.at = "off"
  BY DEF Off, BillerRow

LEMMA TotalsAreCounts == \A n \in Nat : Recalculated(n) \in Nat
<1>1. Amount(100, Price) \in Nat
  BY LedgerAssumption DEF Amount, Money
<1>2. \A n, m \in Nat : n * m \in Nat
  OBVIOUS
<1> QED BY <1>1, <1>2 DEF Recalculated

LEMMA BilledIsARow ==
  ASSUME LedgerInv
  PROVE  \A p \in Periods : p \in Billed <=> invoice[p] \in InvoiceRow
BY NoInvoiceIsNoRow DEF Billed, LedgerInv, LedgerTypes

\* The date, and what is not an invoice's, change none of this.
LEMMA RestKeeps ==
  ASSUME LedgerInv, UNCHANGED <<counter, invoice, biller, form, tampered>>, year' \in Years
  PROVE  LedgerInv'
<1>1. Billed' = Billed /\ \A b \in Billers : biller'[b] = biller[b]
  BY DEF Billed
<1>2. \A y \in Years : Numbered(y)' = Numbered(y) /\ NumbersOf(y)' = NumbersOf(y)
  BY <1>1 DEF Numbered, NumbersOf
<1>3. LedgerTypes'
  BY DEF LedgerInv, LedgerTypes
<1>4. LocksAreExclusive' /\ WorkIsThere'
  BY <1>1 DEF LedgerInv, LocksAreExclusive, HasLock, Is, WorkIsThere
<1>5. Gapless'
  BY <1>2 DEF LedgerInv, Gapless
<1> QED BY <1>3, <1>4, <1>5 DEF LedgerInv

\* The numbers stay as they are when no invoice changes its year or number and
\* only ones without a number are added.
LEMMA SameNumbersStayGapless ==
  ASSUME LedgerInv,
         Billed \subseteq Billed',
         \A p \in Billed : invoice'[p].year = invoice[p].year /\ invoice'[p].number = invoice[p].number,
         \A p \in Billed' \ Billed : invoice'[p].number = 0,
         ~tampered' => ~tampered /\ counter' = counter
  PROVE  Gapless'
<1> SUFFICES ASSUME ~tampered', NEW y \in Years
             PROVE  /\ IsFiniteSet(Numbered(y)')
                    /\ NumbersOf(y)' = 1 .. counter'[y]
                    /\ Cardinality(Numbered(y)') = counter'[y]
  BY DEF Gapless
<1>1. Numbered(y)' = Numbered(y)
  BY DEF Numbered
<1>2. NumbersOf(y)' = NumbersOf(y)
  BY <1>1 DEF NumbersOf, Numbered
<1> QED BY <1>1, <1>2 DEF LedgerInv, Gapless

-----------------------------------------------------------------------------
(* Sweeps *)

\* A call that moves on without a row of the database.
LEMMA CallsKeep ==
  ASSUME LedgerInv, NEW b \in Billers, NEW written \in BillerRow,
         biller' = [biller EXCEPT ![b] = written],
         UNCHANGED <<year, counter, invoice, form, tampered>>,
         written.at \in {"asking", "numbered", "inserted", "made"} => written.period \in Periods,
         written.at \in {"asking", "numbered", "inserted"} => written.year \in Years,
         written.at = "made" => written.period \in Billed,
         written.at \in {"numbered", "inserted"} =>
           /\ written.number = counter[written.year] + 1
           /\ \A c \in Billers \ {b} : HasLock(c) => biller[c].year # written.year,
         written.at = "inserted" =>
           /\ written.period \notin Billed
           /\ \A c \in Billers \ {b} : Is(c, "inserted") => biller[c].period # written.period
  PROVE  LedgerInv'
<1>1. \A c \in Billers : biller'[c] = IF c = b THEN written ELSE biller[c]
  BY DEF LedgerInv, LedgerTypes
<1>2. Billed' = Billed
  BY DEF Billed
<1>3. LedgerTypes'
  BY DEF LedgerInv, LedgerTypes
<1>4. LocksAreExclusive'
  BY <1>1, <1>2 DEF LedgerInv, LocksAreExclusive, HasLock, Is
<1>5. WorkIsThere'
  BY <1>1, <1>2 DEF LedgerInv, WorkIsThere, Is
<1>6. Gapless'
  BY <1>2, SameNumbersStayGapless
<1> QED BY <1>3, <1>4, <1>5, <1>6 DEF LedgerInv

LEMMA AskKeeps ==
  ASSUME LedgerInv, NEW b \in Billers, NEW p \in Periods, Ask(b, p)
  PROVE  LedgerInv'
<1>1. CASE p \in Billed
  <2> DEFINE written == [Off EXCEPT !.at = "made", !.period = p, !.copy = invoice[p].status]
  <2>1. invoice[p].status \in Statuses
    BY <1>1, BilledIsARow DEF InvoiceRow
  <2>2. written \in BillerRow /\ written.at = "made" /\ written.period = p
    BY <2>1 DEF Off, BillerRow
  <2> QED BY <1>1, <2>2, CallsKeep DEF Ask
<1>2. CASE p \notin Billed
  <2> DEFINE written == [Off EXCEPT !.at = "asking", !.period = p, !.year = year]
  <2>1. written \in BillerRow /\ written.at = "asking" /\ written.period = p /\ written.year = year
        /\ year \in Years
    BY DEF Off, BillerRow, LedgerInv, LedgerTypes
  <2> QED BY <1>2, <2>1, CallsKeep DEF Ask
<1> QED BY <1>1, <1>2

LEMMA NextNumberKeeps ==
  ASSUME LedgerInv, NEW b \in Billers, NextNumber(b)
  PROVE  LedgerInv'
<1> DEFINE written == [biller[b] EXCEPT !.at = "numbered", !.number = counter[biller[b].year] + 1]
<1>1. biller[b] \in BillerRow /\ biller[b].year \in Years /\ biller[b].period \in Periods
  BY DEF NextNumber, Is, LedgerInv, LedgerTypes, WorkIsThere
<1>2. counter[biller[b].year] + 1 \in Nat
  BY <1>1 DEF LedgerInv, LedgerTypes
<1>3. written \in BillerRow /\ written.at = "numbered" /\ written.year = biller[b].year
      /\ written.period = biller[b].period /\ written.number = counter[biller[b].year] + 1
  BY <1>1, <1>2 DEF BillerRow
<1>4. \A c \in Billers : HasLock(c) => biller[c].year # biller[b].year
  BY DEF NextNumber, Held, HasLock
<1>5. biller' = [biller EXCEPT ![b] = written] /\ UNCHANGED <<year, counter, invoice, form, tampered>>
  BY DEF NextNumber
<1> QED BY <1>1, <1>3, <1>4, <1>5, CallsKeep

LEMMA InsertKeeps ==
  ASSUME LedgerInv, NEW b \in Billers, Insert(b)
  PROVE  LedgerInv'
<1> DEFINE p == biller[b].period
<1>1. biller[b] \in BillerRow /\ p \in Periods /\ biller[b].year \in Years /\ HasLock(b)
      /\ UNCHANGED <<year, counter, invoice, form, tampered>>
  BY DEF Insert, Is, HasLock, LedgerInv, LedgerTypes, WorkIsThere
<1>2. CASE p \notin Billed /\ Moves(b, "inserted")
  <2> DEFINE written == [biller[b] EXCEPT !.at = "inserted"]
  <2>1. written \in BillerRow /\ written.at = "inserted" /\ written.period = p /\ written.year = biller[b].year
        /\ written.number = biller[b].number
    BY <1>1 DEF BillerRow
  <2>2. \A c \in Billers : Is(c, "inserted") => biller[c].period # p
    BY DEF Insert, Entered, Is
  <2>3. biller[b].number = counter[biller[b].year] + 1
        /\ \A c \in Billers \ {b} : HasLock(c) => biller[c].year # biller[b].year
    BY <1>1 DEF LedgerInv, LocksAreExclusive
  <2>4. biller' = [biller EXCEPT ![b] = written]
    BY <1>2 DEF Moves
  <2> QED BY <1>1, <1>2, <2>1, <2>2, <2>3, <2>4, CallsKeep
<1>3. CASE p \in Billed /\ biller' = [biller EXCEPT ![b] =
                [Off EXCEPT !.at = "made", !.period = p, !.copy = invoice[p].status]]
  <2> DEFINE written == [Off EXCEPT !.at = "made", !.period = p, !.copy = invoice[p].status]
  <2>1. invoice[p].status \in Statuses
    BY <1>1, <1>3, BilledIsARow DEF InvoiceRow
  <2>2. written \in BillerRow /\ written.at = "made" /\ written.period = p
    BY <1>1, <2>1 DEF Off, BillerRow
  <2> QED BY <1>1, <1>3, <2>2, CallsKeep
<1>4. CASE biller' = [biller EXCEPT ![b] = Off]
  BY <1>1, <1>4, OffIsABiller, CallsKeep
<1> QED BY <1>2, <1>3, <1>4 DEF Insert

\* The next number is the counter's, and the period's only one.
LEMMA CommitIsGapless ==
  ASSUME LedgerInv, NEW b \in Billers, CommitInvoice(b),
         NEW p, p = biller[b].period, NEW y, y = biller[b].year
  PROVE  Gapless'
<1>1. /\ p \in Periods /\ p \notin Billed /\ y \in Years
      /\ biller[b].number = counter[y] + 1 /\ counter[y] \in Nat
  BY DEF CommitInvoice, Is, HasLock, LedgerInv, LedgerTypes, LocksAreExclusive, WorkIsThere
<1>2. /\ invoice'[p].number = biller[b].number /\ invoice'[p].year = y /\ invoice'[p].status = "draft"
      /\ \A q \in Periods \ {p} : invoice'[q] = invoice[q]
      /\ counter'[y] = biller[b].number /\ \A z \in Years \ {y} : counter'[z] = counter[z]
      /\ tampered' = tampered
  BY <1>1 DEF CommitInvoice, LedgerInv, LedgerTypes
<1>3. Billed' = Billed \cup {p}
  BY <1>1, <1>2 DEF Billed, NoInvoice
<1>4. \A z \in Years \ {y} : Numbered(z)' = Numbered(z) /\ NumbersOf(z)' = NumbersOf(z)
  <2> SUFFICES ASSUME NEW z \in Years \ {y}
               PROVE  Numbered(z)' = Numbered(z) /\ NumbersOf(z)' = NumbersOf(z)
    OBVIOUS
  <2>1. Numbered(z)' = Numbered(z)
    BY <1>1, <1>2, <1>3 DEF Numbered, Billed
  <2>2. \A q \in Numbered(z) : invoice'[q] = invoice[q]
    BY <1>1, <1>2 DEF Numbered, Billed
  <2> QED BY <2>1, <2>2 DEF NumbersOf
<1>5. Numbered(y)' = Numbered(y) \cup {p} /\ p \notin Numbered(y)
  <2>1. \A q \in Billed : q # p /\ invoice'[q] = invoice[q]
    BY <1>1, <1>2 DEF Billed
  <2>2. invoice'[p].number # 0 /\ invoice'[p].year = y
    BY <1>1, <1>2
  <2>3. p \notin Numbered(y)
    BY <1>1 DEF Numbered
  <2> QED BY <1>3, <2>1, <2>2, <2>3 DEF Numbered
<1>6. NumbersOf(y)' = NumbersOf(y) \cup {counter[y] + 1}
  <2>1. \A q \in Numbered(y) : invoice'[q] = invoice[q]
    BY <1>1, <1>2 DEF Numbered, Billed
  <2> QED BY <1>1, <1>2, <1>5, <2>1 DEF NumbersOf
<1>7. ASSUME ~tampered'
      PROVE  /\ IsFiniteSet(Numbered(y)')
             /\ NumbersOf(y)' = 1 .. counter'[y]
             /\ Cardinality(Numbered(y)') = counter'[y]
  <2>1. IsFiniteSet(Numbered(y)) /\ NumbersOf(y) = 1 .. counter[y]
        /\ Cardinality(Numbered(y)) = counter[y]
    BY <1>1, <1>2, <1>7 DEF LedgerInv, Gapless
  <2>2. IsFiniteSet(Numbered(y) \cup {p}) /\ Cardinality(Numbered(y) \cup {p}) = counter[y] + 1
    BY <1>5, <2>1, FS_AddElement
  <2>3. NumbersOf(y)' = 1 .. counter[y] + 1
    BY <1>1, <1>6, <2>1
  <2> QED BY <1>1, <1>2, <1>5, <2>2, <2>3
<1> SUFFICES ASSUME ~tampered', NEW z \in Years
             PROVE  /\ IsFiniteSet(Numbered(z)')
                    /\ NumbersOf(z)' = 1 .. counter'[z]
                    /\ Cardinality(Numbered(z)') = counter'[z]
  BY DEF Gapless
<1>8. CASE z # y
  <2>1. Numbered(z)' = Numbered(z) /\ NumbersOf(z)' = NumbersOf(z) /\ counter'[z] = counter[z]
    BY <1>2, <1>4, <1>8
  <2>2. IsFiniteSet(Numbered(z)) /\ NumbersOf(z) = 1 .. counter[z]
        /\ Cardinality(Numbered(z)) = counter[z]
    BY <1>2 DEF LedgerInv, Gapless
  <2> QED BY <2>1, <2>2
<1> QED BY <1>7, <1>8

LEMMA CommitKeeps ==
  ASSUME LedgerInv, NEW b \in Billers, CommitInvoice(b)
  PROVE  LedgerInv'
<1> DEFINE made == biller[b]
           written == [number |-> made.number, year |-> made.year, status |-> "draft",
                   total |-> Recalculated(1), lines |-> 1]
           finished == [Off EXCEPT !.at = "made", !.period = made.period, !.copy = "draft"]
<1>1. /\ made \in BillerRow /\ HasLock(b) /\ made.at = "inserted"
      /\ made.period \in Periods /\ made.year \in Years /\ made.number \in Nat
      /\ made.period \notin Billed
  BY DEF CommitInvoice, Is, HasLock, LedgerInv, LedgerTypes, LocksAreExclusive, WorkIsThere,
     BillerRow
<1>2. written \in InvoiceRow
  BY <1>1, TotalsAreCounts DEF InvoiceRow, Statuses
<1>3. finished \in BillerRow /\ finished.at = "made" /\ finished.period = made.period
  BY <1>1 DEF Off, BillerRow, Statuses
<1>4. /\ counter' = [counter EXCEPT ![made.year] = made.number]
      /\ invoice' = [invoice EXCEPT ![made.period] = written]
      /\ biller' = [biller EXCEPT ![b] = finished]
      /\ UNCHANGED <<year, form, tampered>>
  BY DEF CommitInvoice
<1>5. Gapless'
  BY CommitIsGapless
<1> HIDE DEF written, finished
<1>6. LedgerTypes'
  BY <1>1, <1>2, <1>3, <1>4 DEF LedgerInv, LedgerTypes
<1>7. /\ \A c \in Billers : biller'[c] = IF c = b THEN finished ELSE biller[c]
      /\ \A z \in Years : z # made.year => counter'[z] = counter[z]
      /\ \A q \in Periods : invoice'[q] = IF q = made.period THEN written ELSE invoice[q]
  BY <1>1, <1>4 DEF LedgerInv, LedgerTypes
<1>8. Billed' = Billed \cup {made.period}
  BY <1>1, <1>2, <1>7, NoInvoiceIsNoRow DEF Billed
<1>9. \A c \in Billers : HasLock(c)' => c # b /\ HasLock(c) /\ biller'[c] = biller[c]
                                       /\ biller[c].year # made.year /\ biller[c].year \in Years
  BY <1>1, <1>3, <1>7 DEF HasLock, LedgerInv, LocksAreExclusive, WorkIsThere
<1>10. \A c \in Billers : Is(c, "inserted")' =>
         c # b /\ Is(c, "inserted") /\ biller'[c] = biller[c] /\ biller[c].period # made.period
  BY <1>1, <1>3, <1>7 DEF Is, LedgerInv, LocksAreExclusive
<1>11. LocksAreExclusive'
  BY <1>7, <1>8, <1>9, <1>10 DEF LedgerInv, LocksAreExclusive
<1>12. WorkIsThere'
  <2>1. form' # NoForm => form.period \in Billed /\ invoice'[form.period] = invoice[form.period]
    BY <1>1, <1>4, <1>7 DEF LedgerInv, WorkIsThere, Billed
  <2> QED BY <1>1, <1>3, <1>4, <1>7, <1>8, <2>1 DEF LedgerInv, WorkIsThere, Is
<1> QED BY <1>5, <1>6, <1>11, <1>12 DEF LedgerInv

-----------------------------------------------------------------------------
(* Invoices and forms *)

\* One invoice changes, or is added, and keeps its year and number; a new one
\* has none.
LEMMA RowsKeep ==
  ASSUME LedgerInv, NEW p \in Periods, NEW written \in InvoiceRow,
         invoice' = [invoice EXCEPT ![p] = written],
         p \in Billed => written.number = invoice[p].number /\ written.year = invoice[p].year,
         p \notin Billed => written.number = 0 /\ ~Entered(p),
         UNCHANGED <<year, counter, biller, tampered>>,
         form' = form \/ form' = NoForm
  PROVE  LedgerInv'
<1>1. \A q \in Periods : invoice'[q] = IF q = p THEN written ELSE invoice[q]
  BY DEF LedgerInv, LedgerTypes
<1>2. Billed' = Billed \cup {p}
  BY <1>1, NoInvoiceIsNoRow DEF Billed
<1>3. LedgerTypes'
  BY DEF LedgerInv, LedgerTypes
<1>4. LocksAreExclusive'
  BY <1>2 DEF LedgerInv, LocksAreExclusive, HasLock, Is, Entered
<1>5. WorkIsThere'
  BY <1>1, <1>2 DEF LedgerInv, WorkIsThere, Is, Billed
<1>6. Gapless'
  <2>1. \A q \in Billed : invoice'[q].year = invoice[q].year /\ invoice'[q].number = invoice[q].number
    BY <1>1 DEF Billed
  <2>2. \A q \in Billed' \ Billed : invoice'[q].number = 0
    BY <1>1, <1>2
  <2> QED BY <1>2, <2>1, <2>2, SameNumbersStayGapless
<1> QED BY <1>3, <1>4, <1>5, <1>6 DEF LedgerInv

\* A status is all that issuing and voiding write.
LEMMA StatusWritten ==
  ASSUME LedgerInv, NEW p \in Billed, NEW status \in Statuses
  PROVE  LET written == [invoice[p] EXCEPT !.status = status]
         IN written \in InvoiceRow /\ written.number = invoice[p].number /\ written.year = invoice[p].year
<1>1. invoice[p] \in InvoiceRow
  BY BilledIsARow DEF Billed
<1> QED BY <1>1 DEF InvoiceRow

LEMMA IssueKeeps ==
  ASSUME LedgerInv, NEW b \in Billers, IssueInvoice(b)
  PROVE  LedgerInv'
<1> DEFINE made == biller[b]
<1>1. made \in BillerRow /\ made.period \in Billed /\ made.period \in Periods /\ Is(b, "made")
      /\ UNCHANGED <<year, counter, form, tampered>>
  BY DEF IssueInvoice, Is, LedgerInv, LedgerTypes, WorkIsThere
<1>2. PICK finished \in BillerRow : finished.at = "done" /\ biller' = [biller EXCEPT ![b] = finished]
  <2> DEFINE old == [made EXCEPT !.at = "done"]
             new == [made EXCEPT !.at = "done", !.copy = "open"]
  <2>1. old \in BillerRow /\ old.at = "done" /\ new \in BillerRow /\ new.at = "done"
    BY <1>1 DEF BillerRow, Statuses
  <2>2. biller' = [biller EXCEPT ![b] = old] \/ biller' = [biller EXCEPT ![b] = new]
    BY DEF IssueInvoice, Moves
  <2> HIDE DEF old, new
  <2> QED BY <2>1, <2>2
<1>3. CASE UNCHANGED invoice
  BY <1>1, <1>2, <1>3, CallsKeep
<1>4. CASE invoice' = [invoice EXCEPT ![made.period].status = "open"]
  <2> DEFINE written == [invoice[made.period] EXCEPT !.status = "open"]
  <2>1. written \in InvoiceRow /\ written.number = invoice[made.period].number
        /\ written.year = invoice[made.period].year
    BY <1>1, StatusWritten DEF Statuses
  <2>2. \A q \in Periods : invoice'[q] = IF q = made.period THEN written ELSE invoice[q]
    BY <1>1, <1>4 DEF LedgerInv, LedgerTypes
  <2>3. \A c \in Billers : biller'[c] = IF c = b THEN finished ELSE biller[c]
    BY <1>2 DEF LedgerInv, LedgerTypes
  <2> HIDE DEF written
  <2>4. Billed' = Billed
    BY <1>1, <2>1, <2>2, NoInvoiceIsNoRow DEF Billed
  <2>5. LedgerTypes'
    BY <1>1, <1>2, <1>4, <2>1, <2>2, <2>3 DEF LedgerInv, LedgerTypes
  <2>6. LocksAreExclusive'
    BY <1>1, <1>2, <2>3, <2>4 DEF LedgerInv, LocksAreExclusive, HasLock, Is
  <2>7. WorkIsThere'
    BY <1>1, <1>2, <2>1, <2>2, <2>3, <2>4 DEF LedgerInv, WorkIsThere, Is, Billed
  <2>8. Gapless'
    <3>1. \A q \in Billed : invoice'[q].year = invoice[q].year
                            /\ invoice'[q].number = invoice[q].number
      BY <2>1, <2>2 DEF Billed
    <3> QED BY <1>1, <2>4, <3>1, SameNumbersStayGapless
  <2> QED BY <2>5, <2>6, <2>7, <2>8 DEF LedgerInv
<1> QED BY <1>3, <1>4 DEF IssueInvoice

LEMMA VoidKeeps ==
  ASSUME LedgerInv, NEW p \in Periods, Void(p)
  PROVE  LedgerInv'
<1> DEFINE written == [invoice[p] EXCEPT !.status = "void"]
<1>1. p \in Billed /\ invoice' = [invoice EXCEPT ![p] = written]
      /\ UNCHANGED <<year, counter, biller, tampered, form>>
  BY DEF Void, Desk
<1>2. written \in InvoiceRow /\ written.number = invoice[p].number /\ written.year = invoice[p].year
  BY <1>1, StatusWritten DEF Statuses
<1> QED BY <1>1, <1>2, RowsKeep

LEMMA AddByHandKeeps ==
  ASSUME LedgerInv, NEW p \in Periods, NEW status \in Statuses, AddByHand(p, status)
  PROVE  LedgerInv'
<1> DEFINE written == [number |-> 0, year |-> year, status |-> status, total |-> Recalculated(1),
                   lines |-> 1]
<1>1. written \in InvoiceRow /\ written.number = 0
  BY TotalsAreCounts DEF InvoiceRow, LedgerInv, LedgerTypes
<1> QED BY <1>1, RowsKeep DEF AddByHand, Desk

LEMMA LoadKeeps ==
  ASSUME LedgerInv, NEW p \in Periods, Load(p)
  PROVE  LedgerInv'
<1>1. p \in Billed /\ form' = [period |-> p, row |-> invoice[p]]
      /\ UNCHANGED <<year, counter, invoice, biller, tampered>>
  BY DEF Load, Desk
<1>2. invoice[p] \in InvoiceRow
  BY <1>1, BilledIsARow
<1>3. WorkIsThere'
  BY <1>1, <1>2 DEF LedgerInv, WorkIsThere, Is, Billed
<1> QED BY <1>1, <1>3 DEF LedgerInv, LedgerTypes, LocksAreExclusive, HasLock, Is, Billed,
     Gapless, Numbered, NumbersOf

LEMMA SaveKeeps ==
  ASSUME LedgerInv, NEW status \in Statuses, NEW n \in 0 .. MaxLines, Save(status, n)
  PROVE  LedgerInv'
<1> DEFINE p == form.period
           written == [form.row EXCEPT !.status = status, !.lines = n]
<1>1. form # NoForm /\ invoice' = [invoice EXCEPT ![p] = written] /\ form' = NoForm
      /\ UNCHANGED <<year, counter, biller, tampered>>
  BY DEF Save, Desk
<1>2. p \in Billed /\ form.row \in InvoiceRow /\ form.row.number = invoice[p].number
      /\ form.row.year = invoice[p].year
  BY <1>1 DEF LedgerInv, WorkIsThere
<1>3. n \in Nat
  BY LedgerAssumption
<1>4. written \in InvoiceRow /\ written.number = form.row.number /\ written.year = form.row.year
  BY <1>2, <1>3 DEF InvoiceRow
<1> QED BY <1>1, <1>2, <1>4, RowsKeep DEF Billed

LEMMA EditCounterKeeps ==
  ASSUME LedgerInv, NEW y \in Years, NEW n \in Typed, EditCounter(y, n)
  PROVE  LedgerInv'
<1>1. counter' = [counter EXCEPT ![y] = n] /\ tampered' /\ ~Held(y) /\ n \in Nat
      /\ UNCHANGED <<year, invoice, biller, form>>
  BY LedgerAssumption DEF EditCounter
<1>2. \A b \in Billers : HasLock(b) => counter'[biller[b].year] = counter[biller[b].year]
  BY <1>1 DEF HasLock, Held, LedgerInv, LedgerTypes, WorkIsThere
<1>3. LocksAreExclusive'
  BY <1>1, <1>2 DEF LedgerInv, LocksAreExclusive, HasLock, Is, Billed
<1> QED BY <1>1, <1>3 DEF LedgerInv, LedgerTypes, WorkIsThere, Gapless, Is, Billed

LEMMA LedgerNextKeeps ==
  ASSUME LedgerInv, LedgerNext
  PROVE  LedgerInv'
<1>1. ASSUME NEW b \in Billers, NEW p \in Periods, Ask(b, p) PROVE LedgerInv'
  BY <1>1, AskKeeps
<1>2. ASSUME NEW b \in Billers,
             NextNumber(b) \/ Insert(b) \/ CommitInvoice(b) \/ IssueInvoice(b)
      PROVE  LedgerInv'
  BY <1>2, NextNumberKeeps, InsertKeeps, CommitKeeps, IssueKeeps
<1>3. ASSUME NEW b \in Billers, Abandon(b) PROVE LedgerInv'
  BY <1>3, OffIsABiller, CallsKeep DEF Abandon
<1>4. ASSUME NEW p \in Periods, Void(p) \/ Load(p) PROVE LedgerInv'
  BY <1>4, VoidKeeps, LoadKeeps
<1>5. ASSUME NEW p \in Periods, NEW s \in Statuses, AddByHand(p, s) PROVE LedgerInv'
  BY <1>5, AddByHandKeeps
<1>6. ASSUME NEW s \in Statuses, NEW n \in 0 .. MaxLines, Save(s, n) PROVE LedgerInv'
  BY <1>6, SaveKeeps
<1>7. ASSUME NEW y \in Years, NEW n \in Typed, EditCounter(y, n) PROVE LedgerInv'
  BY <1>7, EditCounterKeeps
<1>8. CASE NewYear
  BY <1>8, RestKeeps DEF NewYear
<1> QED BY <1>1, <1>2, <1>3, <1>4, <1>5, <1>6, <1>7, <1>8 DEF LedgerNext

-----------------------------------------------------------------------------
LEMMA LedgerInitially == Init => LedgerInv
<1> SUFFICES ASSUME Init PROVE LedgerInv
  OBVIOUS
<1>1. /\ year \in Years /\ counter = [y \in Years |-> 0] /\ form = NoForm
      /\ invoice = [p \in Periods |-> NoInvoice] /\ biller = [b \in Billers |-> Off]
  BY DEF Init, LedgerInit
<1>2. Billed = {} /\ \A b \in Billers : biller[b].at = "off"
  BY <1>1, OffIsABiller DEF Billed
<1>3. LedgerTypes
  BY <1>1, OffIsABiller DEF LedgerTypes
<1>4. \A y \in Years : Numbered(y) = {} /\ NumbersOf(y) = 1 .. counter[y] /\ counter[y] = 0
  <2>1. \A y \in Years : Numbered(y) = {} /\ NumbersOf(y) = {} /\ counter[y] = 0
    BY <1>1, <1>2 DEF Numbered, NumbersOf
  <2>2. 1 .. 0 = {}
    OBVIOUS
  <2> QED BY <2>1, <2>2
<1>5. Gapless
  BY <1>4, FS_EmptySet DEF Gapless
<1> QED BY <1>1, <1>2, <1>3, <1>5 DEF LedgerInv, LocksAreExclusive, HasLock, Is, WorkIsThere

LEMMA LedgerStep ==
  ASSUME LedgerInv, [Next]_vars
  PROVE  LedgerInv'
<1>1. CASE LedgerMoves
  BY <1>1, LedgerNextKeeps DEF LedgerMoves
<1>2. CASE UNCHANGED ledgerVars
  BY <1>2, RestKeeps DEF ledgerVars, LedgerInv, LedgerTypes
<1> QED BY <1>1, <1>2 DEF Next, TeamMoves, DoorsMove, SendRateMoves, NoticesMove, SendersMove, vars

\* billing/invoicing.py, next_number under the lock of the year's row: the
\* numbers of a year run from 1 to its counter, each given once.
THEOREM NumbersRunOn == Spec => []NumbersAreGapless
<1>1. LedgerInv /\ [Next]_vars => LedgerInv'
  BY LedgerStep
<1>2. LedgerInv => NumbersAreGapless
  BY DEF LedgerInv, Gapless, NumbersAreGapless, Numbered, NumbersOf
<1> QED BY <1>1, <1>2, LedgerInitially, PTL DEF Spec
-----------------------------------------------------------------------------
(***************************************************************************)
(* Notices: under one key nobody is mailed twice unless a transaction took *)
(* the row back.  A row belongs to the transaction that wrote it until it  *)
(* commits, and the mail for a row is owed by the one report that claimed  *)
(* it: until that report mails, the key has had no mail since its last     *)
(* undoing.                                                                *)
(***************************************************************************)

ReportRow ==
  [event : Events \cup {"none", "nothing"}, left : Seq(Users), own : BOOLEAN,
   atomic : BOOLEAN, held : SUBSET Keys, key : Keys \cup {<<>>}, adds : Nat]

\* A report with somebody left to tell is about something that happened.
ToldOf(w) == w.left # <<>> => w.event \in Events

NoticeTypes ==
  /\ logged \subseteq Keys
  /\ mails \in [Keys -> Nat]
  /\ undone \in [Keys -> Nat]
  /\ day \in 0 .. MaxDay
  /\ reporter \in [Reporters -> ReportRow]
  /\ \A r \in Reporters : ToldOf(reporter[r])

\* An uncommitted row is held by one transaction, and is not committed.
RowsAreOnes ==
  \A r \in Reporters :
    /\ reporter[r].held \cap logged = {}
    /\ ~reporter[r].atomic => reporter[r].held = {}
    /\ \A s \in Reporters \ {r} : reporter[r].held \cap reporter[s].held = {}

\* The row a report claimed is there, unmailed, and claimed by it alone.
ClaimsAreKept ==
  \A r \in Reporters :
    reporter[r].key # <<>> =>
      /\ reporter[r].left # <<>>
      /\ reporter[r].key \in logged \cup reporter[r].held
      /\ mails[reporter[r].key] <= undone[reporter[r].key]
      /\ \A s \in Reporters \ {r} : reporter[s].key # reporter[r].key

Written == logged \cup UNION {reporter[r].held : r \in Reporters}

MailsAreFew ==
  \A k \in Keys :
    /\ k \in Written => mails[k] <= undone[k] + 1
    /\ k \notin Written => mails[k] <= undone[k]

NoticeInv == NoticeTypes /\ RowsAreOnes /\ ClaimsAreKept /\ MailsAreFew

-----------------------------------------------------------------------------
LEMMA RestingRow == Resting \in ReportRow /\ ToldOf(Resting) /\ Resting.key = <<>>
                    /\ Resting.held = {} /\ Resting.left = <<>>
  BY DEF Resting, ReportRow, ToldOf

LEMMA KeyIsAKey ==
  ASSUME NoticeTypes, NEW r \in Reporters, reporter[r].left # <<>>
  PROVE  Key(r) \in Keys
<1>1. /\ reporter[r].event \in Events /\ reporter[r].left \in Seq(Users)
      /\ day \in 0 .. MaxDay
  BY DEF NoticeTypes, ToldOf, ReportRow
<1>2. Head(reporter[r].left) \in Users
  BY <1>1
<1> QED BY <1>1, <1>2 DEF Key, Keys

LEMMA PassedRow ==
  ASSUME NEW w \in ReportRow, ToldOf(w), w.left # <<>>
  PROVE  /\ Passed(w) \in ReportRow /\ ToldOf(Passed(w)) /\ Passed(w).key = <<>>
         /\ Passed(w).held = w.held /\ Passed(w).atomic = w.atomic
<1>1. Tail(w.left) \in Seq(Users)
  BY DEF ReportRow
<1> QED BY <1>1 DEF ReportRow, ToldOf, Passed

\* One report has no claim any more: it passed on, was undone or committed.
LEMMA ReportPasses ==
  ASSUME NoticeInv, NEW r \in Reporters, NEW w \in ReportRow, ToldOf(w), w.key = <<>>,
         reporter' = [reporter EXCEPT ![r] = w],
         w.held \subseteq reporter[r].held, ~w.atomic => w.held = {},
         logged \subseteq logged', logged' \subseteq logged \cup reporter[r].held,
         logged' \cap w.held = {}, day' \in 0 .. MaxDay,
         mails' \in [Keys -> Nat], undone' \in [Keys -> Nat],
         \A k \in Keys : undone[k] <= undone'[k],
         \A k \in Keys : mails'[k] = mails[k] \/ k = reporter[r].key
  PROVE  NoticeTypes' /\ RowsAreOnes' /\ ClaimsAreKept'
<1>1. /\ reporter \in [Reporters -> ReportRow]
      /\ \A s \in Reporters : reporter'[s] = IF s = r THEN w ELSE reporter[s]
      /\ \A s \in Reporters : reporter[s].held \subseteq Keys
  BY DEF NoticeInv, NoticeTypes, ReportRow
<1>2. NoticeTypes'
  <2>1. logged' \subseteq Keys
    BY <1>1 DEF NoticeInv, NoticeTypes
  <2>2. reporter' \in [Reporters -> ReportRow]
    BY <1>1
  <2>3. \A s \in Reporters : ToldOf(reporter'[s])
    BY <1>1 DEF NoticeInv, NoticeTypes
  <2> QED BY <2>1, <2>2, <2>3 DEF NoticeTypes, ToldOf
<1>3. RowsAreOnes'
  BY <1>1 DEF NoticeInv, RowsAreOnes
<1>4. ClaimsAreKept'
  <2> SUFFICES ASSUME NEW s \in Reporters, reporter'[s].key # <<>>
               PROVE  /\ reporter'[s].left # <<>>
                      /\ reporter'[s].key \in logged' \cup reporter'[s].held
                      /\ mails'[reporter'[s].key] <= undone'[reporter'[s].key]
                      /\ \A t \in Reporters \ {s} : reporter'[t].key # reporter'[s].key
    BY DEF ClaimsAreKept
  <2> DEFINE k == reporter[s].key
  <2>1. s # r /\ reporter'[s] = reporter[s]
    BY <1>1
  <2>2. /\ reporter[s].left # <<>>
        /\ k \in Keys /\ k # <<>> /\ k \in logged \cup reporter[s].held
        /\ mails[k] <= undone[k]
        /\ \A t \in Reporters \ {s} : reporter[t].key # k
    BY <1>1, <2>1 DEF NoticeInv, ClaimsAreKept, ReportRow
  <2>3. mails'[k] = mails[k] /\ undone[k] <= undone'[k]
    BY <2>1, <2>2
  <2>4. /\ mails[k] \in Nat /\ undone[k] \in Nat /\ undone'[k] \in Nat
    BY <2>2 DEF NoticeInv, NoticeTypes
  <2>5. mails'[k] <= undone'[k]
    BY <2>2, <2>3, <2>4
  <2>6. \A t \in Reporters \ {s} : reporter'[t].key # k
    BY <1>1, <2>2
  <2> QED BY <2>1, <2>2, <2>5, <2>6
<1> QED BY <1>2, <1>3, <1>4

\* Passing on with the rows and the mails as they are.
LEMMA PassingKeeps ==
  ASSUME NoticeInv, NEW r \in Reporters, NEW w \in ReportRow, ToldOf(w), w.key = <<>>,
         reporter' = [reporter EXCEPT ![r] = w], w.held = reporter[r].held,
         ~w.atomic => w.held = {}, UNCHANGED <<logged, mails, undone, day>>
  PROVE  NoticeInv'
<1>1. /\ mails \in [Keys -> Nat] /\ undone \in [Keys -> Nat] /\ day \in 0 .. MaxDay
      /\ logged \cap w.held = {}
  BY DEF NoticeInv, NoticeTypes, RowsAreOnes
<1>2. NoticeTypes' /\ RowsAreOnes' /\ ClaimsAreKept'
  <2>1. \A k \in Keys : undone[k] <= undone'[k]
    BY <1>1
  <2> QED BY <1>1, <2>1, ReportPasses
<1>3. \A s \in Reporters : reporter'[s].held = reporter[s].held
  BY DEF NoticeInv, NoticeTypes
<1>4. MailsAreFew'
  BY <1>3 DEF NoticeInv, MailsAreFew, Written
<1> QED BY <1>2, <1>4 DEF NoticeInv

LEMMA ReportKeeps ==
  ASSUME NoticeInv, NEW r \in Reporters, NEW e \in Events \cup {"nothing"},
         NEW atomic \in BOOLEAN, NEW adds \in Nat, Report(r, e, atomic, adds)
  PROVE  NoticeInv'
<1> DEFINE left == IF e = "nothing" THEN <<>> ELSE Recipients(e)
           w == [event |-> e, left |-> left, own |-> TRUE, atomic |-> atomic,
                 held |-> {}, key |-> <<>>, adds |-> adds]
<1>1. left \in Seq(Users) /\ (left # <<>> => e \in Events)
  BY NoticesAssumption DEF Recipients
<1>2. w \in ReportRow /\ ToldOf(w)
  BY <1>1 DEF ReportRow, ToldOf
<1>3. reporter[r].held = {} /\ UNCHANGED <<logged, mails, undone, day>>
  BY RestingRow DEF Report
<1>4. reporter' = [reporter EXCEPT ![r] = w]
  BY DEF Report
<1>5. w.key = <<>> /\ w.held = {}
  OBVIOUS
<1> HIDE DEF w
<1> QED BY <1>2, <1>3, <1>4, <1>5, PassingKeeps

LEMMA SkipKeeps ==
  ASSUME NoticeInv, NEW r \in Reporters, reporter[r].left # <<>>,
         reporter' = [reporter EXCEPT ![r] = Passed(@)],
         UNCHANGED <<logged, mails, undone, day>>
  PROVE  NoticeInv'
<1>1. reporter \in [Reporters -> ReportRow] /\ ToldOf(reporter[r])
  BY DEF NoticeInv, NoticeTypes
<1>2. ~reporter[r].atomic => reporter[r].held = {}
  BY DEF NoticeInv, RowsAreOnes
<1> QED BY <1>1, <1>2, PassedRow, PassingKeeps

\* The row is written: in the transaction, or committed by itself.
LEMMA WriteKeeps ==
  ASSUME NoticeInv, NEW r \in Reporters, NEW key \in Keys, NEW w \in ReportRow, ToldOf(w),
         key \notin logged \cup reporter[r].held, key \notin HeldByOthers(r),
         reporter' = [reporter EXCEPT ![r] = w], w.key = key, w.left # <<>>,
         \/ w.atomic /\ w.held = reporter[r].held \cup {key} /\ logged' = logged
         \/ w.held = reporter[r].held /\ w.held = {} /\ logged' = logged \cup {key},
         UNCHANGED <<mails, undone, day>>
  PROVE  NoticeInv'
<1> DEFINE was == reporter[r]
<1>1. /\ reporter \in [Reporters -> ReportRow] /\ was \in ReportRow
      /\ mails \in [Keys -> Nat] /\ undone \in [Keys -> Nat] /\ logged \subseteq Keys
  BY DEF NoticeInv, NoticeTypes
<1>4. \A s \in Reporters : reporter'[s] = IF s = r THEN w ELSE reporter[s]
  BY <1>1
<1>5. /\ key \notin Written /\ mails[key] <= undone[key]
      /\ \A s \in Reporters : key \notin reporter[s].held
  BY DEF Written, HeldByOthers, NoticeInv, MailsAreFew
<1>6. NoticeTypes'
  <2>1. logged' \subseteq Keys
    BY <1>1
  <2>2. reporter' \in [Reporters -> ReportRow]
    BY <1>1
  <2>3. \A s \in Reporters : ToldOf(reporter'[s])
    BY <1>4 DEF NoticeInv, NoticeTypes
  <2> QED BY <2>1, <2>2, <2>3 DEF NoticeInv, NoticeTypes, ToldOf
<1>7. RowsAreOnes'
  <2>1. \A s \in Reporters : reporter'[s].held \cap logged' = {}
    BY <1>4, <1>5 DEF NoticeInv, RowsAreOnes
  <2>2. \A s \in Reporters : ~reporter'[s].atomic => reporter'[s].held = {}
    BY <1>4 DEF NoticeInv, RowsAreOnes
  <2>3. \A s, t \in Reporters : s # t => reporter'[s].held \cap reporter'[t].held = {}
    BY <1>4, <1>5 DEF NoticeInv, RowsAreOnes
  <2> QED BY <2>1, <2>2, <2>3 DEF RowsAreOnes
<1>8. \A s \in Reporters : reporter[s].key # <<>> => reporter[s].key \in Written
  BY DEF NoticeInv, ClaimsAreKept, Written
<1>9. ClaimsAreKept'
  <2> SUFFICES ASSUME NEW s \in Reporters, reporter'[s].key # <<>>
               PROVE  /\ reporter'[s].left # <<>>
                      /\ reporter'[s].key \in logged' \cup reporter'[s].held
                      /\ mails[reporter'[s].key] <= undone[reporter'[s].key]
                      /\ \A t \in Reporters \ {s} : reporter'[t].key # reporter'[s].key
    BY DEF ClaimsAreKept
  <2>1. CASE s = r
    <3>1. reporter'[s] = w /\ w.left # <<>> /\ w.key = key /\ key \in logged' \cup w.held
      BY <1>4, <2>1
    <3>2. \A t \in Reporters \ {s} : reporter'[t].key # key
      <4> SUFFICES ASSUME NEW t \in Reporters \ {s}, reporter'[t].key = key PROVE FALSE
        OBVIOUS
      <4>1. reporter[t].key = key
        BY <1>4, <2>1
      <4>2. reporter'[s].key = key /\ key # <<>>
        BY <3>1
      <4> QED BY <1>5, <1>8, <4>1, <4>2
    <3> QED BY <1>5, <3>1, <3>2
  <2>2. CASE s # r
    <3>1. reporter'[s] = reporter[s] /\ reporter[s].key # <<>>
      BY <1>4, <2>2
    <3>2. \A t \in Reporters \ {s} : reporter'[t].key # reporter[s].key
      BY <1>4, <1>5, <1>8, <3>1 DEF NoticeInv, ClaimsAreKept
    <3>3. /\ reporter[s].left # <<>>
          /\ reporter[s].key \in logged \cup reporter[s].held
          /\ mails[reporter[s].key] <= undone[reporter[s].key]
      BY <3>1 DEF NoticeInv, ClaimsAreKept
    <3>4. logged \subseteq logged'
      OBVIOUS
    <3> QED BY <3>1, <3>2, <3>3, <3>4
  <2> QED BY <2>1, <2>2
<1>10. MailsAreFew'
  <2>1. \A k \in Keys : k \in Written' <=> k \in Written \/ k = key
    BY <1>4 DEF Written
  <2> SUFFICES ASSUME NEW k \in Keys
               PROVE  /\ k \in Written' => mails[k] <= undone[k] + 1
                      /\ k \notin Written' => mails[k] <= undone[k]
    BY DEF MailsAreFew
  <2>2. mails[k] \in Nat /\ undone[k] \in Nat
    BY <1>1
  <2>3. /\ k \in Written => mails[k] <= undone[k] + 1
        /\ k \notin Written => mails[k] <= undone[k]
    BY DEF NoticeInv, MailsAreFew
  <2> QED BY <1>5, <2>1, <2>2, <2>3
<1> QED BY <1>6, <1>7, <1>9, <1>10 DEF NoticeInv

LEMMA ClaimKeeps ==
  ASSUME NoticeInv, NEW r \in Reporters, Claim(r)
  PROVE  NoticeInv'
<1>1. Key(r) \in Keys /\ reporter[r].left # <<>>
  BY KeyIsAKey DEF Claim, NoticeInv
<1>2. CASE Key(r) \in logged \cup reporter[r].held
  BY <1>1, <1>2, SkipKeeps DEF Claim
<1>3. CASE Key(r) \notin logged \cup reporter[r].held
  <2> DEFINE key == Key(r)
             was == reporter[r]
             held == IF was.atomic THEN was.held \cup {key} ELSE was.held
             rows == IF was.atomic THEN logged ELSE logged \cup {key}
  <2>1. key \in Keys /\ key \notin logged \cup was.held /\ key \notin HeldByOthers(r)
    BY <1>1, <1>3 DEF Claim
  <2>2. /\ reporter' = [reporter EXCEPT ![r] = [was EXCEPT !.key = key, !.held = held]]
        /\ logged' = rows
        /\ UNCHANGED <<mails, undone, day>>
    <3>1. key \notin logged \cup was.held
      BY <1>3
    <3>2. reporter' = [reporter EXCEPT ![r] = [was EXCEPT !.key = key, !.held = held]]
      BY <3>1 DEF Claim
    <3>3. logged' = rows
      BY <3>1 DEF Claim
    <3> QED BY <3>2, <3>3 DEF Claim
  <2>3. /\ was \in ReportRow /\ ToldOf(was) /\ (~was.atomic => was.held = {})
        /\ reporter \in [Reporters -> ReportRow]
    BY DEF NoticeInv, NoticeTypes, RowsAreOnes
  <2> HIDE DEF key
  <2>4. CASE was.atomic
    <3> DEFINE w == [was EXCEPT !.key = key, !.held = was.held \cup {key}]
    <3>1. w \in ReportRow /\ ToldOf(w) /\ w.key = key /\ w.left # <<>> /\ w.atomic /\ w.held = was.held \cup {key}
      BY <1>1, <2>1, <2>3, <2>4 DEF ReportRow, ToldOf
    <3>2. reporter' = [reporter EXCEPT ![r] = w] /\ logged' = logged
      <4>1. held = was.held \cup {key} /\ rows = logged
        BY <2>4
      <4> HIDE DEF held, rows
      <4> QED BY <2>2, <4>1
    <3> HIDE DEF w
    <3> QED BY <2>1, <2>2, <3>1, <3>2, WriteKeeps
  <2>5. CASE ~was.atomic
    <3> DEFINE w == [was EXCEPT !.key = key]
    <3>1. w \in ReportRow /\ ToldOf(w) /\ w.key = key /\ w.left # <<>> /\ w.held = was.held /\ w.held = {}
      BY <1>1, <2>1, <2>3, <2>5 DEF ReportRow, ToldOf
    <3>2. reporter' = [reporter EXCEPT ![r] = w] /\ logged' = logged \cup {key}
      <4>1. held = was.held /\ rows = logged \cup {key}
        BY <2>5
      <4> HIDE DEF held, rows
      <4>2. [was EXCEPT !.key = key, !.held = was.held] = w
        BY <2>3 DEF ReportRow
      <4> QED BY <2>2, <4>1, <4>2
    <3> HIDE DEF w
    <3> QED BY <2>1, <2>2, <3>1, <3>2, WriteKeeps
  <2> QED BY <2>4, <2>5
<1> QED BY <1>2, <1>3

LEMMA MailKeeps ==
  ASSUME NoticeInv, NEW r \in Reporters, Mail(r)
  PROVE  NoticeInv'
<1> DEFINE k == reporter[r].key
<1>1. /\ reporter \in [Reporters -> ReportRow] /\ ToldOf(reporter[r])
      /\ mails \in [Keys -> Nat] /\ undone \in [Keys -> Nat] /\ day \in 0 .. MaxDay
  BY DEF NoticeInv, NoticeTypes
<1>2. /\ reporter[r].left # <<>> /\ k # <<>> /\ k \in Written /\ mails[k] <= undone[k] /\ k \in Keys
  BY <1>1 DEF Mail, NoticeInv, ClaimsAreKept, Written, ReportRow
<1>3. CASE UNCHANGED mails
  BY <1>2, <1>3, SkipKeeps DEF Mail
<1>4. CASE mails' = [mails EXCEPT ![k] = @ + 1]
  <2> DEFINE w == Passed(reporter[r])
  <2>1. /\ w \in ReportRow /\ ToldOf(w) /\ w.key = <<>>
        /\ w.held = reporter[r].held /\ w.atomic = reporter[r].atomic
    BY <1>1, <1>2, PassedRow
  <2>2. reporter' = [reporter EXCEPT ![r] = w] /\ UNCHANGED <<logged, undone, day>>
    BY DEF Mail
  <2> HIDE DEF w
  <2>3. /\ mails' \in [Keys -> Nat] /\ mails'[k] = mails[k] + 1
        /\ \A j \in Keys : j # k => mails'[j] = mails[j]
    BY <1>1, <1>2, <1>4
  <2>4. /\ logged \cap w.held = {} /\ (~w.atomic => w.held = {})
        /\ \A j \in Keys : undone[j] <= undone'[j]
    BY <1>1, <2>1, <2>2 DEF NoticeInv, RowsAreOnes
  <2>5. NoticeTypes' /\ RowsAreOnes' /\ ClaimsAreKept'
    BY <1>1, <2>1, <2>2, <2>3, <2>4, ReportPasses
  <2>6. Written' = Written
    BY <1>1, <2>1, <2>2 DEF Written
  <2>7. MailsAreFew'
    <3> SUFFICES ASSUME NEW j \in Keys
                 PROVE  /\ j \in Written => mails'[j] <= undone[j] + 1
                        /\ j \notin Written => mails'[j] <= undone[j]
      BY <2>2, <2>6 DEF MailsAreFew
    <3>1. CASE j = k
      BY <1>1, <1>2, <2>3, <3>1
    <3>2. CASE j # k
      BY <2>3, <3>2 DEF NoticeInv, MailsAreFew
    <3> QED BY <3>1, <3>2
  <2> QED BY <2>5, <2>7 DEF NoticeInv
<1> QED BY <1>3, <1>4 DEF Mail

\* The transaction ends: its rows go, or stay for good.
LEMMA UndoKeeps ==
  ASSUME NoticeInv, NEW r \in Reporters, Undo(r)
  PROVE  NoticeInv'
<1> DEFINE held == reporter[r].held
<1>1. /\ reporter \in [Reporters -> ReportRow] /\ held \subseteq Keys
      /\ mails \in [Keys -> Nat] /\ undone \in [Keys -> Nat] /\ day \in 0 .. MaxDay
  BY DEF NoticeInv, NoticeTypes, ReportRow
<1>2. /\ reporter' = [reporter EXCEPT ![r] = Resting]
      /\ UNCHANGED <<logged, mails, day>>
      /\ undone' = [k \in Keys |-> undone[k] + IF k \in held THEN 1 ELSE 0]
  BY DEF Undo
<1> HIDE DEF held
<1>3. /\ undone' \in [Keys -> Nat]
      /\ \A k \in Keys : undone[k] <= undone'[k]
      /\ \A k \in Keys : k \in held => undone'[k] = undone[k] + 1
  BY <1>1, <1>2
<1>4. NoticeTypes' /\ RowsAreOnes' /\ ClaimsAreKept'
  BY <1>1, <1>2, <1>3, RestingRow, ReportPasses
<1>5. \A s \in Reporters : reporter'[s] = IF s = r THEN Resting ELSE reporter[s]
  BY <1>1, <1>2
<1>6. \A k \in Keys : k \in Written => k \in Written' \/ k \in held
  BY <1>2, <1>5 DEF Written, held
<1>7. MailsAreFew'
  <2> SUFFICES ASSUME NEW k \in Keys
               PROVE  /\ k \in Written' => mails[k] <= undone'[k] + 1
                      /\ k \notin Written' => mails[k] <= undone'[k]
    BY <1>2 DEF MailsAreFew
  <2>1. /\ mails[k] \in Nat /\ undone[k] \in Nat /\ undone'[k] \in Nat
        /\ undone[k] <= undone'[k] /\ (k \in held => undone'[k] = undone[k] + 1)
    BY <1>1, <1>3
  <2>2. /\ k \in Written => mails[k] <= undone[k] + 1
        /\ k \notin Written => mails[k] <= undone[k]
    BY DEF NoticeInv, MailsAreFew
  <2> QED BY <1>6, <2>1, <2>2
<1> QED BY <1>4, <1>7 DEF NoticeInv

LEMMA CommitReportKeeps ==
  ASSUME NoticeInv, NEW r \in Reporters, Commit(r)
  PROVE  NoticeInv'
<1>1. /\ reporter \in [Reporters -> ReportRow]
      /\ mails \in [Keys -> Nat] /\ undone \in [Keys -> Nat] /\ day \in 0 .. MaxDay
  BY DEF NoticeInv, NoticeTypes
<1>2. /\ reporter' = [reporter EXCEPT ![r] = Resting]
      /\ logged' = logged \cup reporter[r].held
      /\ UNCHANGED <<mails, undone, day>>
  BY DEF Commit
<1>3. NoticeTypes' /\ RowsAreOnes' /\ ClaimsAreKept'
  <2>1. \A k \in Keys : undone[k] <= undone'[k]
    BY <1>1, <1>2
  <2> QED BY <1>1, <1>2, <2>1, RestingRow, ReportPasses
<1>4. \A s \in Reporters : reporter'[s] = IF s = r THEN Resting ELSE reporter[s]
  BY <1>1, <1>2
<1>5. Written' = Written
  BY <1>2, <1>4, RestingRow DEF Written
<1>6. MailsAreFew'
  BY <1>2, <1>5 DEF NoticeInv, MailsAreFew
<1> QED BY <1>3, <1>6 DEF NoticeInv

\* Nothing of a report moves.
LEMMA OtherwiseKeeps ==
  ASSUME NoticeInv, UNCHANGED <<logged, mails, undone, reporter>>, day' \in 0 .. MaxDay
  PROVE  NoticeInv'
BY DEF NoticeInv, NoticeTypes, RowsAreOnes, ClaimsAreKept, MailsAreFew, Written

LEMMA NoticesNextKeeps ==
  ASSUME NoticeInv, NoticesNext
  PROVE  NoticeInv'
<1>1. ASSUME NEW r \in Reporters, NEW c \in Finishes, CampaignFinished(r, c) PROVE NoticeInv'
  BY <1>1, ReportKeeps DEF CampaignFinished, Events
<1>2. ASSUME NEW r \in Reporters, PaymentFailed(r) PROVE NoticeInv'
  BY <1>2, ReportKeeps DEF PaymentFailed, Events
<1>3. ASSUME NEW r \in Reporters, NEW n \in 1 .. Quota, LaunchCheck(r, n) PROVE NoticeInv'
  <2> DEFINE e == CASE launched.sent + n > Quota -> "quota reached"
                    [] launched.sent + n <= Quota /\ Quota > 0 /\ 10 * launched.sent >= 8 * Quota
                         -> "quota warning"
                    [] OTHER -> "nothing"
  <2>1. Report(r, e, TRUE, n) /\ e \in {"quota reached", "quota warning", "nothing"}
    BY <1>3 DEF LaunchCheck
  <2> HIDE DEF e
  <2>2. e \in Events \cup {"nothing"}
    BY <2>1 DEF Events, QuotaEvents
  <2>3. n \in Nat /\ TRUE \in BOOLEAN
    OBVIOUS
  <2> QED BY <2>1, <2>2, <2>3, ReportKeeps
<1>4. ASSUME NEW r \in Reporters, Skip(r) PROVE NoticeInv'
  BY <1>4, SkipKeeps DEF Skip
<1>5. ASSUME NEW r \in Reporters, Claim(r) \/ Mail(r) \/ Commit(r) PROVE NoticeInv'
  BY <1>5, ClaimKeeps, MailKeeps, CommitReportKeeps
<1>6. ASSUME NEW r \in Reporters, RollBack(r) \/ Lost(r) PROVE NoticeInv'
  BY <1>6, UndoKeeps DEF RollBack, Lost
<1>7. CASE MessageSent
  BY <1>7, OtherwiseKeeps DEF MessageSent, NoticeInv, NoticeTypes
<1>8. ASSUME NEW u \in Users, SavePreferences(u) PROVE NoticeInv'
  BY <1>8, OtherwiseKeeps DEF SavePreferences, NoticeInv, NoticeTypes
<1>9. CASE NextDay
  <2>1. day' \in 0 .. MaxDay
    BY <1>9, NoticesAssumption DEF NextDay, NoticeInv, NoticeTypes
  <2> QED BY <1>9, <2>1, OtherwiseKeeps DEF NextDay
<1> QED BY <1>1, <1>2, <1>3, <1>4, <1>5, <1>6, <1>7, <1>8, <1>9 DEF NoticesNext

LEMMA NoticesInitially == Init => NoticeInv
<1> SUFFICES ASSUME Init PROVE NoticeInv
  OBVIOUS
<1>1. /\ logged = {} /\ mails = [k \in Keys |-> 0] /\ undone = [k \in Keys |-> 0]
      /\ reporter = [r \in Reporters |-> Resting] /\ day = 0 /\ MaxDay \in Nat
  BY NoticesAssumption DEF Init, NoticesInit
<1>2. NoticeTypes
  BY <1>1, RestingRow DEF NoticeTypes
<1>3. RowsAreOnes /\ ClaimsAreKept /\ MailsAreFew
  BY <1>1, RestingRow DEF RowsAreOnes, ClaimsAreKept, MailsAreFew
<1> QED BY <1>2, <1>3 DEF NoticeInv

LEMMA NoticesStep ==
  ASSUME NoticeInv, [Next]_vars
  PROVE  NoticeInv'
<1>1. CASE NoticesMove
  BY <1>1, NoticesNextKeeps DEF NoticesMove
<1>2. CASE UNCHANGED noticesVars
  BY <1>2, OtherwiseKeeps DEF noticesVars, NoticeInv, NoticeTypes
<1> QED BY <1>1, <1>2 DEF Next, TeamMoves, DoorsMove, SendRateMoves, SendersMove, LedgerMoves, vars

\* core/notifications.py, notify: the row is inserted under its unique key
\* before the mail goes, so whichever workers report at once and wherever one
\* is lost, a key is mailed once, and once more for each time a transaction
\* took its row back.
THEOREM RowsAreMailedOnce == Spec => []MailedOncePerRow
<1>1. NoticeInv /\ [Next]_vars => NoticeInv'
  BY NoticesStep
<1>2. NoticeInv => MailedOncePerRow
  <2> SUFFICES ASSUME NoticeInv, NEW k \in Keys
               PROVE  mails[k] <= undone[k] + IF k \in Written THEN 1 ELSE 0
    BY DEF MailedOncePerRow, Written
  <2>1. /\ mails[k] \in Nat /\ undone[k] \in Nat
        /\ k \in Written => mails[k] <= undone[k] + 1
        /\ k \notin Written => mails[k] <= undone[k]
    BY DEF NoticeInv, NoticeTypes, MailsAreFew
  <2> QED BY <2>1
<1> QED BY <1>1, <1>2, NoticesInitially, PTL DEF Spec

=============================================================================
