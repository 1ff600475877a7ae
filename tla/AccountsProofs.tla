--------------------------- MODULE AccountsProofs ---------------------------
(***************************************************************************)
(* Proofs about Accounts: how people get an account and a membership, by   *)
(* registering, founding an organization, entering it or being invited,    *)
(* for any number of requests and people.                                  *)
(***************************************************************************)
EXTENDS Accounts, MembershipProofs

Settled(i) == invites[i].status \notin {"absent", "pending"}

(***************************************************************************)
(* What the tables hold.                                                   *)
(***************************************************************************)
InviteTables ==
    /\ invites \in [Invites -> InviteRows]
    /\ inviteRequests \in [InviteRequests -> InviteRequestStates]

AccountTables ==
    /\ users \subseteq People
    /\ roles \in [People -> Roles \cup {None}]
    /\ organization \in Slugs \cup {None}
    /\ others \in [People -> Slugs \cup {None}]
    /\ newcomers \in [Newcomers -> NewcomerStates]
    /\ \A j \in joined : j = [who |-> j.who, by |-> j.by] /\ j.who \in People

\* An invite exists only among accounts, and at most one is pending for an address.
InvitesHold ==
    /\ \A i \in Invites : invites[i].status # "absent" =>
          /\ invites[i].email \in People /\ invites[i].role \in Roles
          /\ users # {} /\ organization # None
    /\ \A i, j \in Invites :
          /\ invites[i].status = "pending" /\ invites[j].status = "pending"
          /\ invites[i].email = invites[j].email
          => i = j

\* What a request on invites holds of what it loaded.
InviteRequestHolds(r) ==
    LET q == inviteRequests[r] IN
    /\ q.pc = "loaded" =>
          /\ q.kind = "create" =>
                /\ q.email \in People /\ q.role \in Roles
                /\ users # {} /\ organization # None
                /\ q.invite # None =>
                      q.invite \in Invites /\ invites[q.invite].status # "absent"
          /\ q.kind = "revoke" => q.wants \in {"expired", "revoked"}
          /\ q.kind \in {"accept", "revoke"} =>
                q.invite \in Invites /\ invites[q.invite].status # "absent"
    /\ q.pc = "idle" => q.after = {}

\* A deactivation or a change of role is of somebody who is a member.
ChangeHolds(c) ==
    changes[c].pc \in {"loaded", "locking", "checked"} =>
        changes[c].target \in People /\ members[changes[c].target].status # "absent"

MembersHold ==
    \A p \in People :
        /\ roles[p] # None <=> p \in users
        /\ members[p].status # "absent" => p \in users /\ organization # None

\* What a registration, a bootstrap or an entry holds at each of its steps.
NewcomerHolds(n) ==
    LET q == newcomers[n] IN
    /\ q.pc = "idle" => q.into = "none" /\ q.slug = None
    /\ q.pc = "counted" =>
          /\ q.who \in People /\ q.role \in Roles
          /\ q.kind = "register" /\ q.role # "admin" => users # {}
          /\ q.kind = "bootstrap" => q.role = "admin"
          /\ q.slug # None => q.kind = "bootstrap"
          /\ q.into = "none"
    /\ q.pc = "created" => q.kind = "register"
    /\ q.pc \in {"created", "finding", "joining", "joined"} => q.who \in users /\ q.role \in Roles
    /\ q.pc \in {"finding", "joining", "joined"} => q.kind \in {"register", "enter"}
    /\ q.pc = "joining" =>
          /\ q.into \in {"new", "first"}
          /\ q.into = "first" =>
                /\ organization # None
                /\ organization = Default \/ (q.kind = "register" /\ q.counted = 0)

JoinedHold ==
    \A j \in joined :
        \/ j.by = None
        \/ /\ j.by \in Newcomers
           /\ newcomers[j.by].pc \in {"joined", "done", "failed"}
           /\ \/ organization = Default
              \/ newcomers[j.by].kind = "bootstrap"
              \/ newcomers[j.by].kind = "register" /\ newcomers[j.by].counted = 0

\* An acceptance in the log is of an invite, and a membership has one origin.
JoinsOf(p) == {j \in joined : j.who = p}

OriginsHold ==
    /\ \A e \in trail : e.action = "accepted" =>
          e.about \in Invites /\ invites[e.about].status # "absent"
    /\ \A p \in People :
          \/ members[p].status = "absent" /\ AcceptancesOf(p) = {} /\ JoinsOf(p) = {}
          \/ /\ members[p].status # "absent"
             /\ \/ JoinsOf(p) = {} /\ \E e \in AcceptancesOf(p) : AcceptancesOf(p) = {e}
                \/ AcceptancesOf(p) = {} /\ \E j \in JoinsOf(p) : JoinsOf(p) = {j}

LateUseHolds ==
    /\ \A r \in InviteRequests, i \in Invites : Succeeded(r, i) => Settled(i)
    /\ \A r \in InviteRequests : inviteRequests[r].after \subseteq AnsweredInviteRequests
    /\ \A r, q \in InviteRequests :
          /\ inviteRequests[r].pc = "loaded" /\ inviteRequests[r].kind \in {"accept", "revoke"}
          /\ q \in inviteRequests[r].after
          => ~Succeeded(q, inviteRequests[r].invite)
    /\ LateUseRefused

InviteSide ==
    /\ InviteTables /\ InvitesHold /\ LateUseHolds
    /\ \A r \in InviteRequests : InviteRequestHolds(r)

MemberSide == MembershipTypeOK /\ \A c \in Changes : ChangeHolds(c)

AccountSide ==
    /\ AccountTables /\ MembersHold /\ SomebodyIsAdmin
    /\ \A n \in Newcomers : NewcomerHolds(n)
    /\ JoinedHold

AccountsInv == InviteSide /\ MemberSide /\ AccountSide /\ OriginsHold

-----------------------------------------------------------------------------
(***************************************************************************)
(* Invites and the requests on them.                                       *)
(***************************************************************************)
\* Once there are accounts and an organization, both stay.
PlaceStays ==
    /\ users \subseteq users'
    /\ organization # None => organization' = organization

LEMMA InvitesUntouched ==
    ASSUME InviteSide, UNCHANGED <<invites, inviteRequests>>, PlaceStays
    PROVE  InviteSide'
<1> USE DEF InviteSide
<1>1. InviteTables' /\ InvitesHold'
  BY DEF InviteTables, InvitesHold, PlaceStays
<1>2. ASSUME NEW r \in InviteRequests
      PROVE  InviteRequestHolds(r)'
  BY DEF InviteRequestHolds, PlaceStays
<1>3. LateUseHolds'
  BY DEF LateUseHolds, LateUseRefused, Succeeded, Settled, AnsweredInviteRequests
<1> QED BY <1>1, <1>2, <1>3

\* A request loads what it checks; after it had been answered, nobody could.
LEMMA LoadingKept ==
    ASSUME InviteSide, NEW r \in InviteRequests, inviteRequests[r].pc = "idle",
           NEW next \in InviteRequestStates,
           inviteRequests' = [inviteRequests EXCEPT ![r] = next],
           next.after = AnsweredInviteRequests,
           next.pc \in {"loaded", "refused"},
           next.pc = "loaded" =>
              /\ next.kind = "create" =>
                    /\ next.email \in People /\ next.role \in Roles
                    /\ users # {} /\ organization # None
                    /\ next.invite # None =>
                          next.invite \in Invites /\ invites[next.invite].status # "absent"
              /\ next.kind = "revoke" => next.wants \in {"expired", "revoked"}
              /\ next.kind \in {"accept", "revoke"} =>
                    next.invite \in Invites /\ invites[next.invite].status = "pending",
           UNCHANGED <<invites, users, organization>>
    PROVE  InviteSide'
<1> USE DEF InviteSide
<1>1. /\ inviteRequests'[r] = next
      /\ \A q \in InviteRequests \ {r} : inviteRequests'[q] = inviteRequests[q]
      /\ inviteRequests' \in [InviteRequests -> InviteRequestStates]
  BY DEF InviteTables
<1>2. InviteTables' /\ InvitesHold'
  BY <1>1 DEF InviteTables, InvitesHold
<1>3. ASSUME NEW q \in InviteRequests
      PROVE  InviteRequestHolds(q)'
  <2>1. CASE q = r
    BY <1>1, <2>1 DEF InviteRequestHolds
  <2>2. CASE q # r
    BY <1>1, <2>2 DEF InviteRequestHolds
  <2> QED BY <2>1, <2>2
<1>4. /\ \A q \in InviteRequests : \A i : Succeeded(q, i)' <=> Succeeded(q, i)
      /\ AnsweredInviteRequests \subseteq AnsweredInviteRequests'
      /\ r \notin AnsweredInviteRequests
      /\ \A i : ~Succeeded(r, i)
  BY <1>1 DEF Succeeded, AnsweredInviteRequests
<1>5. (\A q \in InviteRequests, i \in Invites : Succeeded(q, i) => Settled(i))'
  BY <1>4 DEF LateUseHolds, Settled
<1>6. (\A q \in InviteRequests : inviteRequests[q].after \subseteq AnsweredInviteRequests)'
  BY <1>1, <1>4 DEF LateUseHolds
<1>7. ASSUME NEW q \in InviteRequests, NEW w \in InviteRequests,
             inviteRequests'[q].pc = "loaded",
             inviteRequests'[q].kind \in {"accept", "revoke"}, w \in inviteRequests'[q].after
      PROVE  ~Succeeded(w, inviteRequests'[q].invite)
  <2>1. CASE q = r
    BY <1>1, <1>7, <2>1 DEF LateUseHolds, Settled
  <2>2. CASE q # r
    BY <1>1, <1>7, <2>2 DEF LateUseHolds
  <2> QED BY <2>1, <2>2
<1>8. LateUseRefused'
  BY <1>1, <1>4 DEF LateUseHolds, LateUseRefused
<1>9. LateUseHolds'
  BY <1>4, <1>5, <1>6, <1>7, <1>8 DEF LateUseHolds
<1> QED BY <1>2, <1>3, <1>9

\* What the transaction that answers a request may do to the invites.
InvitesStay ==
    /\ invites' \in [Invites -> InviteRows]
    /\ \A i \in Invites : invites[i].status # "absent" =>
          invites'[i].status # "absent" /\ invites'[i].email = invites[i].email
    /\ \A i \in Invites : Settled(i) => Settled(i)'

LEMMA AnsweringKept ==
    ASSUME InviteSide, NEW r \in InviteRequests, inviteRequests[r].pc = "loaded",
           NEW pc \in {"done", "refused", "failed"}, Answers(r, pc),
           InvitesStay, InvitesHold', PlaceStays,
           pc = "done" /\ inviteRequests[r].kind \in {"accept", "revoke"}
              => Settled(inviteRequests[r].invite)'
    PROVE  InviteSide'
<1> USE DEF InviteSide
<1> DEFINE next == [inviteRequests[r] EXCEPT !.pc = pc]
<1>1. /\ inviteRequests' = [inviteRequests EXCEPT ![r] = next]
      /\ next \in InviteRequestStates /\ next.pc = pc /\ next.kind = inviteRequests[r].kind
      /\ next.invite = inviteRequests[r].invite /\ next.after = inviteRequests[r].after
  BY DEF Answers, InviteTables, InviteRequestStates
<1> HIDE DEF next
<1>2. /\ inviteRequests'[r] = next
      /\ \A q \in InviteRequests \ {r} : inviteRequests'[q] = inviteRequests[q]
      /\ inviteRequests' \in [InviteRequests -> InviteRequestStates]
  BY <1>1 DEF InviteTables
<1>3. InviteTables'
  BY <1>2 DEF InviteTables, InvitesStay
<1>4. ASSUME NEW q \in InviteRequests
      PROVE  InviteRequestHolds(q)'
  <2>1. CASE q = r
    BY <1>1, <1>2, <2>1 DEF InviteRequestHolds
  <2>2. CASE q # r
    BY <1>2, <2>2 DEF InviteRequestHolds, InvitesStay, PlaceStays
  <2> QED BY <2>1, <2>2
<1>5. /\ \A q \in InviteRequests \ {r} : \A i : Succeeded(q, i)' <=> Succeeded(q, i)
      /\ AnsweredInviteRequests \subseteq AnsweredInviteRequests'
      /\ r \notin AnsweredInviteRequests
      /\ \A i : Succeeded(r, i)' =>
             /\ i = inviteRequests[r].invite /\ pc = "done"
             /\ inviteRequests[r].kind \in {"accept", "revoke"}
  BY <1>1, <1>2 DEF Succeeded, AnsweredInviteRequests
<1>6. \A q \in InviteRequests : r \notin inviteRequests[q].after
                                /\ inviteRequests'[q].after = inviteRequests[q].after
  BY <1>1, <1>2, <1>5 DEF LateUseHolds
<1>7. ASSUME NEW q \in InviteRequests, NEW i \in Invites, Succeeded(q, i)'
      PROVE  Settled(i)'
  <2>1. CASE q = r
    BY <1>1, <1>2, <1>5, <1>7, <2>1 DEF Settled
  <2>2. CASE q # r
    BY <1>5, <1>7, <2>2 DEF LateUseHolds, InvitesStay
  <2> QED BY <2>1, <2>2
<1>8. (\A q \in InviteRequests : inviteRequests[q].after \subseteq AnsweredInviteRequests)'
  BY <1>5, <1>6 DEF LateUseHolds
<1>9. ASSUME NEW q \in InviteRequests, NEW w \in InviteRequests,
             inviteRequests'[q].pc = "loaded",
             inviteRequests'[q].kind \in {"accept", "revoke"}, w \in inviteRequests'[q].after
      PROVE  ~Succeeded(w, inviteRequests[q].invite)'
  <2>1. q # r /\ w # r
    BY <1>1, <1>2, <1>6, <1>9
  <2>2. ~Succeeded(w, inviteRequests[q].invite)
    BY <1>2, <1>9, <2>1 DEF LateUseHolds
  <2>3. inviteRequests'[q] = inviteRequests[q] /\ inviteRequests'[w] = inviteRequests[w]
    BY <1>2, <2>1
  <2> QED BY <2>2, <2>3 DEF Succeeded
<1>10. LateUseRefused'
  <2> SUFFICES ASSUME NEW q \in InviteRequests, NEW w \in InviteRequests, NEW i \in Invites,
                      Succeeded(q, i)', Succeeded(w, i)', w \in inviteRequests'[q].after
               PROVE  FALSE
    BY DEF LateUseRefused
  <2>1. w # r /\ w \in inviteRequests[q].after /\ Succeeded(w, i)
    BY <1>5, <1>6
  <2>2. CASE q = r
    BY <1>5, <2>1, <2>2 DEF LateUseHolds
  <2>3. CASE q # r
    BY <1>5, <2>1, <2>3 DEF LateUseHolds, LateUseRefused
  <2> QED BY <2>2, <2>3
<1>11. LateUseHolds'
  BY <1>7, <1>8, <1>9, <1>10 DEF LateUseHolds
<1> QED BY <1>3, <1>4, <1>11

\* There are accounts and an organization when there are administrators.
LEMMA AdminsHaveAPlace ==
    ASSUME MembersHold, ActiveAdmins # {}
    PROVE  users # {} /\ organization # None
BY DEF MembersHold, ActiveAdmins, IsActiveAdmin

LEMMA LoadCreateKept ==
    ASSUME InviteSide, MembersHold, NEW r \in InviteRequests, NEW email \in People,
           NEW role \in Roles, LoadCreate(r, email, role), UNCHANGED organization
    PROVE  InviteSide'
<1> DEFINE base(pc) == [IdleInviteRequest EXCEPT !.pc = pc, !.after = AnsweredInviteRequests]
           full(i) == [kind |-> "create", invite |-> i, email |-> email, role |-> role,
                       wants |-> "expired"]
<1>1. users # {} /\ organization # None
  BY AdminsHaveAPlace DEF LoadCreate
<1>2. CASE Loads(r, "refused", [kind |-> "create"])
  <2> DEFINE next == With(base("refused"), [kind |-> "create"])
  <2>1. next \in InviteRequestStates /\ next.pc = "refused"
        /\ next.after = AnsweredInviteRequests
    BY DEF With, IdleInviteRequest, InviteRequestStates, AnsweredInviteRequests
  <2>2. /\ inviteRequests' = [inviteRequests EXCEPT ![r] = next]
        /\ inviteRequests[r].pc = "idle" /\ UNCHANGED <<invites, users>>
    BY <1>2 DEF Loads
  <2> HIDE DEF next
  <2> QED BY <2>1, <2>2, LoadingKept
<1>3. ASSUME NEW i \in Invites \cup {None}, Loads(r, "loaded", full(i)),
             i # None => invites[i].status # "absent"
      PROVE  InviteSide'
  <2> DEFINE next == With(base("loaded"), full(i))
  <2>1. /\ next \in InviteRequestStates /\ next.pc = "loaded"
        /\ next.after = AnsweredInviteRequests
        /\ next.kind = "create" /\ next.email = email /\ next.role = role
        /\ next.invite = i
    BY DEF With, IdleInviteRequest, InviteRequestStates, AnsweredInviteRequests
  <2>2. /\ inviteRequests' = [inviteRequests EXCEPT ![r] = next]
        /\ inviteRequests[r].pc = "idle" /\ UNCHANGED <<invites, users>>
    BY <1>3 DEF Loads
  <2> HIDE DEF next
  <2> QED BY <1>1, <1>3, <2>1, <2>2, LoadingKept
<1>4. CASE ~\E i \in Pending(email) : ~invites[i].due
  <2>1. PICK i \in IF Pending(email) = {} THEN {None} ELSE Pending(email) :
           Loads(r, "loaded", full(i))
    BY <1>4 DEF LoadCreate
  <2>2. i # None => i \in Invites /\ invites[i].status # "absent"
    BY <2>1 DEF Pending
  <2>3. i \in Invites \cup {None}
    BY <2>2
  <2> QED BY <1>3, <2>1, <2>2, <2>3
<1> QED BY <1>2, <1>4 DEF LoadCreate

LEMMA LoadUseKept ==
    ASSUME InviteSide, NEW r \in InviteRequests, NEW i \in Invites,
           LoadRevoke(r, i) \/ LoadAccept(r, i), UNCHANGED organization
    PROVE  InviteSide'
<1> DEFINE base(pc) == [IdleInviteRequest EXCEPT !.pc = pc, !.after = AnsweredInviteRequests]
<1>1. ASSUME NEW kind \in {"revoke", "accept"},
             Loads(r, "refused", [kind |-> kind, invite |-> i])
      PROVE  InviteSide'
  <2> DEFINE next == With(base("refused"), [kind |-> kind, invite |-> i])
  <2>1. /\ next \in InviteRequestStates /\ next.pc = "refused"
        /\ next.after = AnsweredInviteRequests
    BY DEF With, IdleInviteRequest, InviteRequestStates, AnsweredInviteRequests
  <2>2. /\ inviteRequests' = [inviteRequests EXCEPT ![r] = next]
        /\ inviteRequests[r].pc = "idle" /\ UNCHANGED <<invites, users>>
    BY <1>1 DEF Loads
  <2> HIDE DEF next
  <2> QED BY <2>1, <2>2, LoadingKept
<1>2. ASSUME NEW wants \in {"expired", "revoked"}, invites[i].status = "pending",
             Loads(r, "loaded", [kind |-> "revoke", invite |-> i, wants |-> wants])
      PROVE  InviteSide'
  <2> DEFINE next == With(base("loaded"), [kind |-> "revoke", invite |-> i, wants |-> wants])
  <2>1. /\ next \in InviteRequestStates /\ next.pc = "loaded"
        /\ next.after = AnsweredInviteRequests
        /\ next.kind = "revoke" /\ next.invite = i /\ next.wants = wants
    BY DEF With, IdleInviteRequest, InviteRequestStates, AnsweredInviteRequests
  <2>2. /\ inviteRequests' = [inviteRequests EXCEPT ![r] = next]
        /\ inviteRequests[r].pc = "idle" /\ UNCHANGED <<invites, users>>
    BY <1>2 DEF Loads
  <2> HIDE DEF next
  <2> QED BY <1>2, <2>1, <2>2, LoadingKept
<1>3. ASSUME NEW newUser \in BOOLEAN, invites[i].status = "pending",
             Loads(r, "loaded", [kind |-> "accept", invite |-> i, wants |-> "accepted",
                                 newUser |-> newUser])
      PROVE  InviteSide'
  <2> DEFINE next == With(base("loaded"), [kind |-> "accept", invite |-> i,
                                           wants |-> "accepted", newUser |-> newUser])
  <2>1. /\ next \in InviteRequestStates /\ next.pc = "loaded"
        /\ next.after = AnsweredInviteRequests
        /\ next.kind = "accept" /\ next.invite = i
    BY DEF With, IdleInviteRequest, InviteRequestStates, AnsweredInviteRequests
  <2>2. /\ inviteRequests' = [inviteRequests EXCEPT ![r] = next]
        /\ inviteRequests[r].pc = "idle" /\ UNCHANGED <<invites, users>>
    BY <1>3 DEF Loads
  <2> HIDE DEF next
  <2> QED BY <1>3, <2>1, <2>2, LoadingKept
<1>4. CASE LoadRevoke(r, i)
  BY <1>1, <1>2, <1>4 DEF LoadRevoke
<1>5. CASE LoadAccept(r, i)
  <2>1. (invites[i].email \notin users) \in BOOLEAN
    OBVIOUS
  <2> QED BY <1>1, <1>3, <1>5, <2>1 DEF LoadAccept
<1> QED BY <1>4, <1>5

(***************************************************************************)
(* A creation that the index admits leaves one pending invite for its      *)
(* address: its own.                                                       *)
(***************************************************************************)
LEMMA CommitCreateKept ==
    ASSUME InviteSide, NEW r \in InviteRequests, NEW i \in Invites, CommitCreate(r, i),
           UNCHANGED organization
    PROVE  InviteSide' /\ InvitesStay
<1> USE DEF InviteSide
<1>1. /\ inviteRequests[r].pc = "loaded" /\ inviteRequests[r].kind = "create"
      /\ invites[i].status = "absent" /\ UNCHANGED users
  BY DEF CommitCreate
<1>2. CASE AnotherIsPending(r)
  <2>1. Answers(r, "refused") /\ UNCHANGED invites
    BY <1>2 DEF CommitCreate
  <2>2. InvitesHold' /\ InvitesStay /\ PlaceStays
    BY <1>1, <2>1 DEF InvitesHold, InvitesStay, PlaceStays, Settled, InviteTables
  <2> QED BY <1>1, <2>1, <2>2, AnsweringKept
<1>3. CASE ~AnotherIsPending(r)
  <2> DEFINE q == inviteRequests[r]
             row == [status |-> "pending", email |-> q.email, role |-> q.role, due |-> FALSE]
  <2>1. /\ invites' = [j \in Invites |->
                CASE j = i -> row
                  [] j = q.invite -> [invites[j] EXCEPT !.status = "expired"]
                  [] OTHER -> invites[j]]
        /\ Answers(r, "done")
    BY <1>3 DEF CommitCreate
  <2>2. /\ q.email \in People /\ q.role \in Roles /\ users # {} /\ organization # None
    BY <1>1 DEF InviteRequestHolds
  <2>3. row \in InviteRows /\ row.status = "pending" /\ row.email = q.email
        /\ row.role = q.role
    BY <2>2 DEF InviteRows, InviteStatuses
  <2> HIDE DEF row
  <2>4. ASSUME NEW j \in Invites \ {i}, j = q.invite
        PROVE  /\ invites'[j] \in InviteRows /\ invites'[j].status = "expired"
               /\ invites'[j].email = invites[j].email /\ invites'[j].role = invites[j].role
    BY <2>1, <2>4 DEF InviteTables, InviteRows, InviteStatuses
  <2>5. \A j \in Invites \ {i} : j # q.invite => invites'[j] = invites[j]
    BY <2>1
  <2>6. invites'[i] = row
    <3>1. i # q.invite
      BY <1>1, InvitesAssumption DEF InviteRequestHolds
    <3> QED BY <2>1, <3>1
  <2>7. invites' \in [Invites -> InviteRows]
    <3>1. \A j \in Invites : invites'[j] \in InviteRows
      BY <2>3, <2>4, <2>5, <2>6 DEF InviteTables
    <3> QED BY <2>1, <3>1
  <2>8. InvitesStay
    <3>1. ASSUME NEW j \in Invites, invites[j].status # "absent"
          PROVE  /\ invites'[j].status # "absent" /\ invites'[j].email = invites[j].email
                 /\ Settled(j) => Settled(j)'
      <4>1. j # i
        BY <1>1, <3>1
      <4> QED BY <2>4, <2>5, <3>1, <4>1 DEF Settled
    <3>2. \A j \in Invites : Settled(j) => invites[j].status # "absent"
      BY DEF Settled
    <3> QED BY <2>7, <3>1, <3>2 DEF InvitesStay
  <2>9. InvitesHold'
    <3>1. ASSUME NEW j \in Invites, invites'[j].status # "absent"
          PROVE  (/\ invites[j].email \in People /\ invites[j].role \in Roles
                  /\ users # {} /\ organization # None)'
      <4>1. CASE j = i
        BY <1>1, <2>2, <2>3, <2>6, <4>1
      <4>2. CASE j # i /\ j = q.invite
        <5>1. invites[j].status # "absent"
          BY <1>1, <4>2, InvitesAssumption DEF InviteRequestHolds
        <5> QED BY <1>1, <2>2, <2>4, <4>2, <5>1 DEF InvitesHold
      <4>3. CASE j # i /\ j # q.invite
        BY <1>1, <2>2, <2>5, <3>1, <4>3 DEF InvitesHold
      <4> QED BY <4>1, <4>2, <4>3
    <3>2. ASSUME NEW j \in Invites \ {i}, invites'[j].status = "pending"
          PROVE  /\ invites[j].status = "pending" /\ invites'[j].email = invites[j].email
                 /\ invites[j].email # q.email
      <4>1. j # q.invite /\ invites'[j] = invites[j]
        BY <2>4, <2>5, <3>2
      <4> QED BY <1>3, <3>2, <4>1 DEF AnotherIsPending, Pending
    <3>3. (\A j, k \in Invites :
             /\ invites[j].status = "pending" /\ invites[k].status = "pending"
             /\ invites[j].email = invites[k].email
             => j = k)'
      BY <2>3, <2>6, <3>2 DEF InvitesHold
    <3> QED BY <3>1, <3>3 DEF InvitesHold
  <2>10. PlaceStays
    BY <1>1 DEF PlaceStays
  <2> QED BY <1>1, <2>1, <2>8, <2>9, <2>10, AnsweringKept
<1> QED BY <1>2, <1>3

\* Changing the status of an invite, to one that is not pending.
LEMMA InviteSettles ==
    ASSUME InviteSide, NEW i \in Invites, invites[i].status # "absent",
           NEW status \in {"accepted", "expired", "revoked"},
           invites' = [invites EXCEPT ![i].status = status], PlaceStays
    PROVE  InvitesStay /\ InvitesHold' /\ Settled(i)'
<1> USE DEF InviteSide
<1> DEFINE row == [invites[i] EXCEPT !.status = status]
<1>1. /\ invites' = [invites EXCEPT ![i] = row]
      /\ row \in InviteRows /\ row.status = status
      /\ row.email = invites[i].email /\ row.role = invites[i].role
  BY DEF InviteTables, InviteRows, InviteStatuses
<1> HIDE DEF row
<1>2. /\ invites' \in [Invites -> InviteRows] /\ invites'[i] = row
      /\ \A j \in Invites \ {i} : invites'[j] = invites[j]
  BY <1>1 DEF InviteTables
<1>3. InvitesStay
  BY <1>1, <1>2 DEF InvitesStay, Settled
<1>4. ASSUME NEW j \in Invites, invites'[j].status # "absent"
      PROVE  (/\ invites[j].email \in People /\ invites[j].role \in Roles
              /\ users # {} /\ organization # None)'
  BY <1>1, <1>2, <1>4 DEF InvitesHold, PlaceStays
<1>5. ASSUME NEW j \in Invites, invites'[j].status = "pending"
      PROVE  invites'[j] = invites[j] /\ j # i
  BY <1>1, <1>2, <1>5
<1>6. InvitesHold'
  BY <1>4, <1>5 DEF InvitesHold
<1> QED BY <1>1, <1>2, <1>3, <1>6 DEF Settled

LEMMA CommitRevokeKept ==
    ASSUME InviteSide, NEW r \in InviteRequests, CommitRevoke(r), UNCHANGED organization
    PROVE  InviteSide' /\ InvitesStay
<1> PICK i : i = inviteRequests[r].invite
  OBVIOUS
<1> PICK wants : wants = inviteRequests[r].wants
  OBVIOUS
<1>1. /\ inviteRequests[r].pc = "loaded" /\ inviteRequests[r].kind = "revoke"
      /\ invites' = [invites EXCEPT ![i].status = wants]
      /\ \E pc \in {"done", "refused", "failed"} : Answers(r, pc)
      /\ UNCHANGED users
  BY DEF CommitRevoke
<1>2. i \in Invites /\ invites[i].status # "absent" /\ wants \in {"expired", "revoked"}
  BY <1>1 DEF InviteSide, InviteRequestHolds
<1>3. PlaceStays
  BY <1>1 DEF PlaceStays
<1>4. InvitesStay /\ InvitesHold' /\ Settled(i)'
  BY <1>1, <1>2, <1>3, InviteSettles
<1>5. Settled(inviteRequests[r].invite)'
  <2>1. inviteRequests'[r].invite = i
    BY <1>1 DEF Answers, InviteSide, InviteTables, InviteRequestStates
  <2> QED BY <1>4, <2>1 DEF Settled
<1> QED BY <1>1, <1>3, <1>4, <1>5, AnsweringKept

LEMMA AcceptanceKept ==
    ASSUME InviteSide, NEW r \in InviteRequests, inviteRequests[r].pc = "loaded",
           inviteRequests[r].kind = "accept", Admits(r), UNCHANGED organization
    PROVE  InviteSide' /\ InvitesStay
<1> PICK i : i = inviteRequests[r].invite
  OBVIOUS
<1>1. /\ invites' = [invites EXCEPT ![i].status = "accepted"]
      /\ Answers(r, "done") /\ PlaceStays
  BY DEF Admits, PlaceStays
<1>2. i \in Invites /\ invites[i].status # "absent"
  BY DEF InviteSide, InviteRequestHolds
<1>3. InvitesStay /\ InvitesHold' /\ Settled(i)'
  BY <1>1, <1>2, InviteSettles
<1>4. Settled(inviteRequests[r].invite)'
  <2>1. inviteRequests'[r].invite = i
    BY <1>1 DEF Answers, InviteSide, InviteTables, InviteRequestStates
  <2> QED BY <1>3, <2>1 DEF Settled
<1> QED BY <1>1, <1>3, <1>4, AnsweringKept

\* A request that ends without a change to the invites.
LEMMA RefusalKept ==
    ASSUME InviteSide, NEW r \in InviteRequests, inviteRequests[r].pc = "loaded",
           NEW pc \in {"refused", "failed"}, Answers(r, pc),
           UNCHANGED <<invites, users, organization>>
    PROVE  InviteSide'
<1>1. InvitesHold' /\ InvitesStay /\ PlaceStays
  BY DEF InviteSide, InvitesHold, InvitesStay, PlaceStays, Settled, InviteTables
<1> QED BY <1>1, AnsweringKept

LEMMA LapseKept ==
    ASSUME InviteSide, NEW i \in Invites, InviteLapses(i), UNCHANGED organization
    PROVE  InviteSide' /\ InvitesStay
<1> USE DEF InviteSide
<1> DEFINE row == [invites[i] EXCEPT !.due = TRUE]
<1>1. /\ invites' = [invites EXCEPT ![i] = row] /\ UNCHANGED <<users, inviteRequests>>
      /\ row \in InviteRows /\ row.status = invites[i].status
      /\ row.email = invites[i].email /\ row.role = invites[i].role
  BY DEF InviteLapses, InviteTables, InviteRows
<1> HIDE DEF row
<1>2. /\ invites' \in [Invites -> InviteRows]
      /\ \A j \in Invites : /\ invites'[j].status = invites[j].status
                            /\ invites'[j].email = invites[j].email
                            /\ invites'[j].role = invites[j].role
  BY <1>1 DEF InviteTables
<1>3. InvitesStay /\ InviteTables' /\ InvitesHold'
  BY <1>1, <1>2 DEF InvitesStay, Settled, InviteTables, InvitesHold
<1>4. ASSUME NEW r \in InviteRequests
      PROVE  InviteRequestHolds(r)'
  BY <1>1, <1>2 DEF InviteRequestHolds
<1>5. LateUseHolds'
  <2>1. \A r \in InviteRequests : \A j : Succeeded(r, j)' <=> Succeeded(r, j)
    BY <1>1 DEF Succeeded
  <2>2. \A j \in Invites : Settled(j) => Settled(j)'
    BY <1>2 DEF Settled
  <2> QED BY <1>1, <2>1, <2>2 DEF LateUseHolds, LateUseRefused, AnsweredInviteRequests
<1> QED BY <1>3, <1>4, <1>5

(***************************************************************************)
(* A step of the invites either leaves accounts and memberships alone, or  *)
(* is the acceptance of an invite by somebody who was not a member.        *)
(***************************************************************************)
NothingAccepted ==
    /\ trail \subseteq trail'
    /\ \A e \in trail' \ trail : e.action # "accepted"

Accepted(i, r) ==
    LET p == invites[i].email IN
    /\ invites[i].status # "absent" /\ members[p].status = "absent"
    /\ members' = [members EXCEPT ![p] = [status |-> "active", role |-> invites[i].role]]
    /\ users' = users \cup {p}
    /\ trail' = trail \cup {InviteEvent("accepted", r, i)}

LEMMA InviteStepCases ==
    ASSUME InviteSide, MembersHold, InviteStep
    PROVE  /\ InviteSide' /\ InvitesStay /\ UNCHANGED changes
           /\ \/ UNCHANGED <<members, users>> /\ NothingAccepted
              \/ \E i \in Invites, r \in InviteRequests : Accepted(i, r)
<1> USE DEF NothingAccepted
<1>1. UNCHANGED organization
  BY DEF InviteStep
<1>2. ASSUME UNCHANGED invites PROVE InvitesStay
  BY <1>2 DEF InvitesStay, InviteSide, InviteTables, Settled
<1>3. ASSUME NEW r \in InviteRequests, InviteArrives(r)
      PROVE  InviteSide' /\ UNCHANGED <<membershipVars, invites, users>>
  <2>1. ASSUME NEW email \in People, NEW role \in Roles, LoadCreate(r, email, role)
        PROVE  InviteSide' /\ UNCHANGED <<membershipVars, invites, users>>
    <3>1. InviteSide'
      BY <1>1, <2>1, LoadCreateKept
    <3> QED BY <2>1, <3>1 DEF LoadCreate, Loads
  <2>2. ASSUME NEW i \in Invites, LoadRevoke(r, i) \/ LoadAccept(r, i)
        PROVE  InviteSide' /\ UNCHANGED <<membershipVars, invites, users>>
    <3>1. InviteSide'
      BY <1>1, <2>2, LoadUseKept
    <3> QED BY <2>2, <3>1 DEF LoadRevoke, LoadAccept, Loads
  <2> QED BY <1>3, <2>1, <2>2 DEF InviteArrives
<1>4. CASE \E r \in Following(InviteRequests, inviteRequests) : InviteArrives(r)
  <2>1. Following(InviteRequests, inviteRequests) \subseteq InviteRequests
    BY DEF Following, Waiting
  <2> QED BY <1>2, <1>3, <1>4, <2>1 DEF membershipVars
<1>5. ASSUME NEW r \in InviteRequests, NEW i \in Invites, CommitCreate(r, i)
      PROVE  /\ InviteSide' /\ InvitesStay /\ UNCHANGED <<changes, members, users>>
             /\ NothingAccepted
  BY <1>1, <1>5, CommitCreateKept DEF CommitCreate, InviteEvent
<1>6. ASSUME NEW r \in InviteRequests, CommitRevoke(r)
      PROVE  /\ InviteSide' /\ InvitesStay /\ UNCHANGED <<changes, members, users>>
             /\ NothingAccepted
  <2>1. InviteSide' /\ InvitesStay /\ UNCHANGED <<changes, members, users>>
    BY <1>1, <1>6, CommitRevokeKept DEF CommitRevoke
  <2>2. \/ UNCHANGED trail
        \/ trail' = trail \cup {InviteEvent("revoked", r, inviteRequests[r].invite)}
    BY <1>6 DEF CommitRevoke
  <2> QED BY <2>1, <2>2 DEF InviteEvent
<1>7. ASSUME NEW r \in InviteRequests, FailInviteRequest(r)
      PROVE  /\ InviteSide' /\ InvitesStay /\ UNCHANGED <<changes, members, users>>
             /\ NothingAccepted
  BY <1>1, <1>2, <1>7, RefusalKept DEF FailInviteRequest, membershipVars
<1>8. ASSUME NEW i \in Invites, InviteLapses(i)
      PROVE  /\ InviteSide' /\ InvitesStay /\ UNCHANGED <<changes, members, users>>
             /\ NothingAccepted
  BY <1>1, <1>8, LapseKept DEF InviteLapses, membershipVars
<1>9. ASSUME NEW r \in InviteRequests, CommitAccept(r)
      PROVE  /\ InviteSide' /\ InvitesStay /\ UNCHANGED changes
             /\ \/ UNCHANGED <<members, users>> /\ NothingAccepted
                \/ \E i \in Invites : Accepted(i, r)
  <2>1. /\ inviteRequests[r].pc = "loaded" /\ inviteRequests[r].kind = "accept"
        /\ UNCHANGED changes
    BY <1>9 DEF CommitAccept
  <2>2. CASE Answers(r, "refused") /\ UNCHANGED <<members, invites, users, trail>>
    BY <1>1, <1>2, <2>1, <2>2, RefusalKept
  <2>3. CASE Admits(r) /\ ~MembershipExists(r)
    <3>1. InviteSide' /\ InvitesStay
      BY <1>1, <2>1, <2>3, AcceptanceKept
    <3>2. inviteRequests[r].invite \in Invites
          /\ invites[inviteRequests[r].invite].status # "absent"
      BY <2>1 DEF InviteSide, InviteRequestHolds
    <3>3. Accepted(inviteRequests[r].invite, r)
      BY <2>3, <3>2 DEF Admits, MembershipExists, Accepted
    <3> QED BY <2>1, <3>1, <3>2, <3>3
  <2> QED BY <1>9, <2>2, <2>3 DEF CommitAccept
<1> QED BY <1>4, <1>5, <1>6, <1>7, <1>8, <1>9 DEF InviteStep, InviteProceeds

-----------------------------------------------------------------------------
(***************************************************************************)
(* Memberships and the requests that change them.                          *)
(***************************************************************************)
LEMMA MembersGrow ==
    ASSUME MemberSide, UNCHANGED changes, members' \in [People -> MemberRows],
           \A p \in People : members[p].status # "absent" => members'[p].status # "absent"
    PROVE  MemberSide'
BY DEF MemberSide, MembershipTypeOK, ChangeHolds

\* A change is of a member, who stays one; nobody comes back.
LEMMA MembershipStepKept ==
    ASSUME MemberSide, MembershipStep
    PROVE  /\ MemberSide' /\ NothingAccepted
           /\ \A p \in People : /\ members'[p].status = "absent" <=> members[p].status = "absent"
                                /\ members[p].status = "inactive"
                                      => members'[p].status = "inactive"
<1> USE DEF MemberSide
<1>1. PICK c \in Changes :
         \/ \E p \in People : Authorize(c, p)
         \/ Proceed(c) \/ FailChange(c)
  <2>1. Following(Changes, changes) \subseteq Changes
    BY DEF Following, Waiting
  <2> QED BY <2>1 DEF MembershipStep
<1>2. MembershipTypeOK'
  BY <1>1, MembershipTypeStep DEF MembershipNext
<1>3. /\ members \in [People -> MemberRows] /\ changes \in [Changes -> ChangeStates]
      /\ members' \in [People -> MemberRows] /\ changes' \in [Changes -> ChangeStates]
  BY <1>2 DEF MembershipTypeOK
<1>4. ASSUME UNCHANGED members, NothingAccepted,
             \A d \in Changes \ {c} : changes'[d] = changes[d],
             ChangeHolds(c)'
      PROVE  /\ MemberSide' /\ NothingAccepted
             /\ \A p \in People :
                   /\ members'[p].status = "absent" <=> members[p].status = "absent"
                   /\ members[p].status = "inactive" => members'[p].status = "inactive"
  BY <1>2, <1>4 DEF ChangeHolds
<1>5. ASSUME NEW p \in People, Authorize(c, p)
      PROVE  /\ UNCHANGED members /\ NothingAccepted /\ ChangeHolds(c)'
             /\ \A d \in Changes \ {c} : changes'[d] = changes[d]
  BY <1>3, <1>5 DEF Authorize, NothingAccepted, ChangeHolds, ChangeStates
<1>6. ASSUME NEW p \in People, NEW role \in Roles \cup {None}, NEW deactivate \in BOOLEAN,
             LoadMember(c, p, role, deactivate)
      PROVE  /\ UNCHANGED members /\ NothingAccepted /\ ChangeHolds(c)'
             /\ \A d \in Changes \ {c} : changes'[d] = changes[d]
  <2>1. CASE members[p].status = "active"
    <3> DEFINE next == [IdleChange EXCEPT
                          !.pc = "loaded", !.target = p, !.role = role,
                          !.deactivate = deactivate,
                          !.seen = IF p = changes[c].actor THEN "admin" ELSE members[p].role]
    <3>1. changes' = [changes EXCEPT ![c] = next] /\ next.target = p
          /\ UNCHANGED <<members, trail>>
      BY <1>6, <2>1 DEF LoadMember, IdleChange
    <3> HIDE DEF next
    <3>2. changes'[c] = next /\ \A d \in Changes \ {c} : changes'[d] = changes[d]
      BY <1>3, <3>1
    <3>3. ChangeHolds(c)'
      BY <2>1, <3>1, <3>2 DEF ChangeHolds
    <3> QED BY <3>1, <3>2, <3>3 DEF NothingAccepted
  <2>2. CASE members[p].status # "active"
    <3>1. Ends(c, "refused") /\ UNCHANGED <<members, trail>>
      BY <1>6, <2>2 DEF LoadMember
    <3> QED BY <3>1, EndedRequest DEF NothingAccepted, ChangeHolds
  <2> QED BY <2>1, <2>2
<1>7. CASE LockAdmins(c)
  <2>1. /\ UNCHANGED <<members, trail>>
        /\ changes'[c].target = changes[c].target
        /\ changes[c].pc = "loaded"
        /\ \A d \in Changes \ {c} : changes'[d] = changes[d]
    BY <1>3, <1>7 DEF LockAdmins, ChangeStates
  <2> QED BY <1>4, <2>1 DEF NothingAccepted, ChangeHolds
<1>8. ASSUME NEW p \in People, LockRow(c, p)
      PROVE  /\ UNCHANGED members /\ NothingAccepted /\ ChangeHolds(c)'
             /\ \A d \in Changes \ {c} : changes'[d] = changes[d]
  <2>1. /\ UNCHANGED <<members, trail>>
        /\ changes'[c].target = changes[c].target
        /\ changes[c].pc = "locking"
        /\ \A d \in Changes \ {c} : changes'[d] = changes[d]
    BY <1>3, <1>8 DEF LockRow, ChangeStates
  <2> QED BY <2>1 DEF NothingAccepted, ChangeHolds
<1>9. CASE CheckLastAdmin(c)
  <2>1. UNCHANGED <<members, trail>> /\ changes[c].pc = "locking"
    BY <1>9 DEF CheckLastAdmin
  <2>2. CASE Ends(c, "refused")
    <3>1. ChangeHolds(c)' /\ \A d \in Changes \ {c} : changes'[d] = changes[d]
      BY <2>2, EndedRequest DEF ChangeHolds
    <3> QED BY <1>4, <2>1, <3>1 DEF NothingAccepted
  <2>3. CASE changes' = [changes EXCEPT ![c].pc = "checked"]
    <3>1. /\ changes'[c].target = changes[c].target
          /\ \A d \in Changes \ {c} : changes'[d] = changes[d]
      BY <1>3, <2>3 DEF ChangeStates
    <3> QED BY <1>4, <2>1, <3>1 DEF NothingAccepted, ChangeHolds
  <2> QED BY <1>9, <2>2, <2>3 DEF CheckLastAdmin
<1>10. CASE SaveRole(c)
  <2>1. /\ changes'[c].pc = "saved" /\ \A d \in Changes \ {c} : changes'[d] = changes[d]
        /\ UNCHANGED trail
    BY <1>10, SavedRequest DEF SaveRole
  <2>2. \A p \in People : members'[p].status = members[p].status
    BY <1>3, <1>10 DEF SaveRole, MemberRows
  <2> QED BY <1>2, <2>1, <2>2 DEF NothingAccepted, ChangeHolds
<1>11. CASE Deactivate(c)
  <2>1. /\ changes'[c].pc = "done" /\ \A d \in Changes \ {c} : changes'[d] = changes[d]
        /\ NothingAccepted
    BY <1>11, EndedRequest DEF Deactivate, NothingAccepted, MemberEvent
  <2>2. changes[c].target \in People /\ members[changes[c].target].status # "absent"
    BY <1>11 DEF Deactivate, ChangeHolds
  <2>3. /\ members'[changes[c].target].status = "inactive"
        /\ \A p \in People \ {changes[c].target} : members'[p] = members[p]
    BY <1>3, <1>11, <2>2 DEF Deactivate
  <2> QED BY <1>2, <2>1, <2>2, <2>3 DEF ChangeHolds
<1>12. CASE AuditUpdate(c) \/ FailChange(c)
  <2>1. UNCHANGED members /\ NothingAccepted
        /\ \E pc \in {"done", "refused"} : Ends(c, pc)
    BY <1>12 DEF AuditUpdate, FailChange, NothingAccepted, MemberEvent
  <2>2. ChangeHolds(c)' /\ \A d \in Changes \ {c} : changes'[d] = changes[d]
    BY <2>1, EndedRequest DEF ChangeHolds
  <2> QED BY <1>4, <2>1, <2>2
<1>13. CASE \/ \E p \in People : Authorize(c, p) \/ LockRow(c, p)
            \/ \E p \in People, role \in Roles \cup {None}, deactivate \in BOOLEAN :
                  LoadMember(c, p, role, deactivate)
  BY <1>4, <1>5, <1>6, <1>8, <1>13
<1> QED BY <1>1, <1>7, <1>9, <1>10, <1>11, <1>12, <1>13 DEF Proceed

-----------------------------------------------------------------------------
(***************************************************************************)
(* Where memberships come from.                                            *)
(***************************************************************************)
LEMMA AcceptancesKept ==
    ASSUME OriginsHold, NothingAccepted, InvitesStay
    PROVE  /\ \A p : AcceptancesOf(p)' = AcceptancesOf(p)
           /\ (\A e \in trail : e.action = "accepted" =>
                 e.about \in Invites /\ invites[e.about].status # "absent")'
<1>1. \A e : e.action = "accepted" => (e \in trail' <=> e \in trail)
  BY DEF NothingAccepted
<1>2. ASSUME NEW e \in trail, e.action = "accepted"
      PROVE  /\ e.about \in Invites /\ invites'[e.about].status # "absent"
             /\ invites'[e.about].email = invites[e.about].email
  BY <1>2 DEF OriginsHold, InvitesStay
<1> QED BY <1>1, <1>2 DEF AcceptancesOf

LEMMA OriginsStay ==
    ASSUME OriginsHold, NothingAccepted, InvitesStay, UNCHANGED joined,
           \A p \in People : members'[p].status = "absent" <=> members[p].status = "absent"
    PROVE  OriginsHold'
<1>1. \A p : AcceptancesOf(p)' = AcceptancesOf(p) /\ JoinsOf(p)' = JoinsOf(p)
  BY AcceptancesKept DEF JoinsOf
<1>2. ASSUME NEW p \in People
      PROVE  (\/ members[p].status = "absent" /\ AcceptancesOf(p) = {} /\ JoinsOf(p) = {}
              \/ /\ members[p].status # "absent"
                 /\ \/ JoinsOf(p) = {} /\ \E e \in AcceptancesOf(p) : AcceptancesOf(p) = {e}
                    \/ AcceptancesOf(p) = {} /\ \E j \in JoinsOf(p) : JoinsOf(p) = {j})'
  BY <1>1 DEF OriginsHold
<1> QED BY <1>2, AcceptancesKept DEF OriginsHold

LEMMA OriginsAccepted ==
    ASSUME OriginsHold, InviteSide, MemberSide, NEW i \in Invites, NEW r, Accepted(i, r),
           InvitesStay, UNCHANGED joined
    PROVE  OriginsHold'
<1> DEFINE event == InviteEvent("accepted", r, i)
<1> PICK p : p = invites[i].email
  OBVIOUS
<1>1. /\ p \in People /\ invites[i].status # "absent" /\ members[p].status = "absent"
      /\ members' = [members EXCEPT ![p] = [status |-> "active", role |-> invites[i].role]]
      /\ trail' = trail \cup {event}
      /\ event.action = "accepted" /\ event.about = i
  BY DEF Accepted, InviteSide, InvitesHold, InviteEvent
<1> HIDE DEF event
<1>2. /\ members'[p].status = "active"
      /\ \A q \in People \ {p} : members'[q] = members[q]
  BY <1>1 DEF MemberSide, MembershipTypeOK
<1>3. ASSUME NEW e \in trail', e.action = "accepted"
      PROVE  /\ e.about \in Invites /\ invites'[e.about].status # "absent"
             /\ invites'[e.about].email = invites[e.about].email
  BY <1>1, <1>3 DEF OriginsHold, InvitesStay
<1>4. ASSUME NEW q \in People \ {p}
      PROVE  AcceptancesOf(q)' = AcceptancesOf(q)
  BY <1>1, <1>3, <1>4 DEF AcceptancesOf
<1>5. AcceptancesOf(p) = {} /\ JoinsOf(p) = {}
  BY <1>1 DEF OriginsHold
<1>6. AcceptancesOf(p)' = {event}
  BY <1>1, <1>3, <1>5 DEF AcceptancesOf
<1>7. \A q : JoinsOf(q)' = JoinsOf(q)
  BY DEF JoinsOf
<1>8. ASSUME NEW q \in People
      PROVE  (\/ members[q].status = "absent" /\ AcceptancesOf(q) = {} /\ JoinsOf(q) = {}
              \/ /\ members[q].status # "absent"
                 /\ \/ JoinsOf(q) = {} /\ \E e \in AcceptancesOf(q) : AcceptancesOf(q) = {e}
                    \/ AcceptancesOf(q) = {} /\ \E j \in JoinsOf(q) : JoinsOf(q) = {j})'
  <2>1. CASE q = p
    BY <1>2, <1>5, <1>6, <1>7, <2>1
  <2>2. CASE q # p
    BY <1>2, <1>4, <1>7, <2>2 DEF OriginsHold
  <2> QED BY <2>1, <2>2
<1> QED BY <1>3, <1>8 DEF OriginsHold

LEMMA OriginsJoined ==
    ASSUME OriginsHold, MemberSide, NEW p \in People, members[p].status = "absent",
           NEW row, row.status = "active", members' = [members EXCEPT ![p] = row],
           NEW n, joined' = joined \cup {[who |-> p, by |-> n]},
           NothingAccepted, InvitesStay
    PROVE  OriginsHold'
<1> DEFINE entry == [who |-> p, by |-> n]
<1>0. entry.who = p
  OBVIOUS
<1> HIDE DEF entry
<1>1. /\ members'[p].status = "active"
      /\ \A q \in People \ {p} : members'[q] = members[q]
  BY DEF MemberSide, MembershipTypeOK
<1>2. \A q : AcceptancesOf(q)' = AcceptancesOf(q)
  BY AcceptancesKept
<1>3. AcceptancesOf(p) = {} /\ JoinsOf(p) = {}
  BY DEF OriginsHold
<1>4. JoinsOf(p)' = {entry} /\ \A q \in People \ {p} : JoinsOf(q)' = JoinsOf(q)
  BY <1>0, <1>3 DEF JoinsOf, entry
<1>5. ASSUME NEW q \in People
      PROVE  (\/ members[q].status = "absent" /\ AcceptancesOf(q) = {} /\ JoinsOf(q) = {}
              \/ /\ members[q].status # "absent"
                 /\ \/ JoinsOf(q) = {} /\ \E e \in AcceptancesOf(q) : AcceptancesOf(q) = {e}
                    \/ AcceptancesOf(q) = {} /\ \E j \in JoinsOf(q) : JoinsOf(q) = {j})'
  <2>1. CASE q = p
    BY <1>1, <1>2, <1>3, <1>4, <2>1
  <2>2. CASE q # p
    BY <1>1, <1>2, <1>4, <2>2 DEF OriginsHold
  <2> QED BY <2>1, <2>2
<1> QED BY <1>5, AcceptancesKept DEF OriginsHold

-----------------------------------------------------------------------------
(***************************************************************************)
(* Accounts and newcomers, while an invite or a change of a member is      *)
(* worked on: an acceptance adds the account of an agent owner, and only   *)
(* where there are accounts already.                                       *)
(***************************************************************************)
LEMMA AccountsBeside ==
    ASSUME AccountSide, UNCHANGED <<organization, others, newcomers, joined>>,
           users \subseteq users', users' \subseteq People, users' # users => users # {},
           roles' = [p \in People |-> IF p \in users' \ users THEN "agent_owner" ELSE roles[p]],
           \A p \in People : members'[p].status # "absent" =>
              p \in users' /\ organization # None
    PROVE  AccountSide'
<1> USE DEF AccountSide, AccountTables
<1>1. "agent_owner" \in Roles /\ "agent_owner" # None
  BY AccountsAssumption, MembershipAssumption
<1>2. AccountTables'
  BY <1>1
<1>3. MembersHold'
  BY <1>1 DEF MembersHold
<1>4. SomebodyIsAdmin'
  <2> SUFFICES ASSUME users' # {} PROVE \E p \in People : roles'[p] = "admin"
    BY DEF SomebodyIsAdmin
  <2>1. PICK p \in People : roles[p] = "admin"
    BY DEF SomebodyIsAdmin
  <2>2. p \in users
    BY <2>1, MembershipAssumption DEF MembersHold
  <2> QED BY <2>1, <2>2
<1>5. ASSUME NEW n \in Newcomers
      PROVE  NewcomerHolds(n)'
  BY DEF NewcomerHolds
<1>6. JoinedHold'
  BY DEF JoinedHold
<1> QED BY <1>2, <1>3, <1>4, <1>5, <1>6

-----------------------------------------------------------------------------
(***************************************************************************)
(* Newcomers.  A step of one leaves what the others hold; what a request   *)
(* has answered, it keeps.                                                 *)
(***************************************************************************)
Answered(n) == newcomers[n].pc \in {"joined", "done", "failed"}

\* Newcomer n goes on to next, and what is on record of an answer stays.
GoesOn(n, next) ==
    /\ next \in NewcomerStates
    /\ newcomers' = [newcomers EXCEPT ![n] = next]
    /\ Answered(n) => /\ next.pc \in {"joined", "done", "failed"}
                      /\ next.kind = newcomers[n].kind /\ next.counted = newcomers[n].counted

LEMMA NewcomersStay ==
    ASSUME AccountSide, NEW n \in Newcomers, NEW next, GoesOn(n, next), PlaceStays,
           NewcomerHolds(n)'
    PROVE  /\ newcomers'[n] = next /\ newcomers' \in [Newcomers -> NewcomerStates]
           /\ \A w \in Newcomers : NewcomerHolds(w)'
           /\ \A w \in Newcomers : Answered(w) =>
                 /\ Answered(w)'
                 /\ newcomers'[w].kind = newcomers[w].kind
                 /\ newcomers'[w].counted = newcomers[w].counted
<1>1. /\ newcomers'[n] = next /\ newcomers' \in [Newcomers -> NewcomerStates]
      /\ \A w \in Newcomers \ {n} : newcomers'[w] = newcomers[w]
  BY DEF GoesOn, AccountSide, AccountTables
<1>2. ASSUME NEW w \in Newcomers \ {n}
      PROVE  NewcomerHolds(w)'
  <2>1. NewcomerHolds(w) /\ newcomers'[w] = newcomers[w]
    BY <1>1 DEF AccountSide
  <2> QED BY <2>1 DEF NewcomerHolds, PlaceStays
<1>3. ASSUME NEW w \in Newcomers, Answered(w)
      PROVE  /\ Answered(w)'
             /\ newcomers'[w].kind = newcomers[w].kind
             /\ newcomers'[w].counted = newcomers[w].counted
  BY <1>1, <1>3 DEF GoesOn, Answered
<1> QED BY <1>1, <1>2, <1>3

\* A step that writes nothing but the request's own state and the audit log.
LEMMA QuietKept ==
    ASSUME AccountsInv, NEW n \in Newcomers, NEW next, GoesOn(n, next), NewcomerHolds(n)',
           UNCHANGED <<members, changes, invites, users, inviteRequests, roles, organization,
                       others, joined>>,
           NothingAccepted
    PROVE  AccountsInv'
<1> USE DEF AccountsInv
<1>1. PlaceStays
  BY DEF PlaceStays
<1>2. InviteSide'
  BY <1>1, InvitesUntouched
<1>3. MemberSide'
  BY DEF MemberSide, MembershipTypeOK, ChangeHolds
<1>4. AccountTables' /\ MembersHold' /\ SomebodyIsAdmin'
  BY <1>1, NewcomersStay DEF AccountSide, AccountTables, MembersHold, SomebodyIsAdmin
<1>5. JoinedHold'
  BY <1>1, NewcomersStay DEF AccountSide, JoinedHold, Answered
<1>6. AccountSide'
  BY <1>1, <1>4, <1>5, NewcomersStay DEF AccountSide
<1>7. InvitesStay
  BY DEF InvitesStay, InviteSide, InviteTables, Settled
<1>8. OriginsHold'
  BY <1>7, OriginsStay
<1> QED BY <1>2, <1>3, <1>6, <1>8

\* How many organizations there are, of which everybody founds at most one.
LEMMA OrganizationsCounted ==
    /\ Organizations \in 0..(Cardinality(People) + 1)
    /\ Organizations # 0 => organization # None
<1> DEFINE founders == {p \in People : others[p] # None}
<1>1. founders \subseteq People
  OBVIOUS
<1>2. /\ IsFiniteSet(founders) /\ Cardinality(founders) <= Cardinality(People)
      /\ Cardinality(People) \in Nat
  BY <1>1, MembershipAssumption, FS_Subset, FS_CardinalityType
<1>3. Cardinality(founders) \in Nat
  BY <1>2, FS_CardinalityType
<1> HIDE DEF founders
<1>4. Organizations = IF organization = None THEN 0 ELSE 1 + Cardinality(founders)
  BY DEF Organizations, founders
<1> QED BY <1>2, <1>3, <1>4

\* A request loads what its handler checks first.
LEMMA ArrivalKept ==
    ASSUME AccountsInv, NEW n \in Newcomers, NewcomerArrives(n)
    PROVE  AccountsInv'
<1>1. /\ newcomers[n] \in NewcomerStates /\ newcomers[n].pc = "idle"
      /\ newcomers[n].into = "none" /\ newcomers[n].slug = None
  BY DEF AccountsInv, AccountSide, AccountTables, NewcomerArrives, LoadRegister,
         LoadBootstrap, LoadEnter, NewcomerHolds
<1>2. "admin" \in Roles /\ "agent_owner" \in Roles
  BY MembershipAssumption, AccountsAssumption
<1>3. UNCHANGED <<members, changes, trail, invites, users, inviteRequests, roles, organization,
                  others, joined>>
  BY DEF NewcomerArrives, LoadRegister, LoadBootstrap, LoadEnter, membershipVars, inviteVars
<1>4. ASSUME NEW next \in NewcomerStates, newcomers' = [newcomers EXCEPT ![n] = next],
             next.pc = "refused" \/ next.pc = "done"
      PROVE  AccountsInv'
  <2>1. GoesOn(n, next)
    BY <1>1, <1>4 DEF GoesOn, Answered
  <2>2. newcomers'[n] = next
    BY <1>4 DEF AccountsInv, AccountSide, AccountTables
  <2>3. NewcomerHolds(n)'
    BY <1>4, <2>2 DEF NewcomerHolds
  <2> QED BY <1>3, <2>1, <2>3, QuietKept DEF NothingAccepted
<1>5. ASSUME NEW next \in NewcomerStates, newcomers' = [newcomers EXCEPT ![n] = next],
             next.pc = "counted", next.who \in People, next.role \in Roles,
             next.kind = "register" /\ next.role # "admin" => users # {},
             next.kind = "bootstrap" => next.role = "admin",
             next.slug = None, next.into = "none"
      PROVE  AccountsInv'
  <2>1. GoesOn(n, next)
    BY <1>1, <1>5 DEF GoesOn, Answered
  <2>2. newcomers'[n] = next
    BY <1>5 DEF AccountsInv, AccountSide, AccountTables
  <2>3. NewcomerHolds(n)'
    BY <1>3, <1>5, <2>2 DEF NewcomerHolds
  <2> QED BY <1>3, <2>1, <2>3, QuietKept DEF NothingAccepted
<1>6. ASSUME NEW p \in People, LoadRegister(n, p)
      PROVE  AccountsInv'
  <2>1. CASE p \in users
    <3> DEFINE next == With(newcomers[n], [pc |-> "refused", kind |-> "register"])
    <3>1. next \in NewcomerStates /\ next.pc = "refused"
      BY <1>1 DEF With, NewcomerStates
    <3>2. newcomers' = [newcomers EXCEPT ![n] = next]
      BY <1>6, <2>1 DEF LoadRegister, Steps
    <3> HIDE DEF next
    <3> QED BY <1>4, <3>1, <3>2
  <2>2. CASE p \notin users
    <3> DEFINE role == IF IsFirstUser THEN "admin" ELSE "agent_owner"
               next == With(newcomers[n], [pc |-> "counted", kind |-> "register", who |-> p,
                                           role |-> role])
    <3>1. role \in Roles /\ (role # "admin" => users # {})
      BY <1>2 DEF IsFirstUser
    <3>2. newcomers' = [newcomers EXCEPT ![n] = next]
      BY <1>6, <2>2 DEF LoadRegister, Steps
    <3> HIDE DEF role
    <3>3. /\ next \in NewcomerStates /\ next.pc = "counted" /\ next.who = p
          /\ next.role = role /\ next.kind = "register"
          /\ next.slug = None /\ next.into = "none"
      BY <1>1, <3>1 DEF With, NewcomerStates
    <3> HIDE DEF next
    <3> QED BY <1>5, <3>1, <3>2, <3>3
  <2> QED BY <2>1, <2>2
<1>7. ASSUME NEW p \in People, LoadBootstrap(n, p)
      PROVE  AccountsInv'
  <2>1. CASE Organizations > 0 \/ p \in users
    <3> DEFINE next == With(newcomers[n], [pc |-> "refused", kind |-> "bootstrap"])
    <3>1. next \in NewcomerStates /\ next.pc = "refused"
      BY <1>1 DEF With, NewcomerStates
    <3>2. newcomers' = [newcomers EXCEPT ![n] = next]
      BY <1>7, <2>1 DEF LoadBootstrap, Steps
    <3> HIDE DEF next
    <3> QED BY <1>4, <3>1, <3>2
  <2>2. CASE ~(Organizations > 0 \/ p \in users)
    <3> DEFINE next == With(newcomers[n], [pc |-> "counted", kind |-> "bootstrap", who |-> p,
                                           role |-> "admin"])
    <3>1. newcomers' = [newcomers EXCEPT ![n] = next]
      BY <1>7, <2>2 DEF LoadBootstrap, Steps
    <3>2. /\ next \in NewcomerStates /\ next.pc = "counted" /\ next.who = p
          /\ next.role = "admin" /\ next.kind = "bootstrap"
          /\ next.slug = None /\ next.into = "none"
      BY <1>1, <1>2 DEF With, NewcomerStates
    <3> HIDE DEF next
    <3> QED BY <1>2, <1>5, <3>1, <3>2
  <2> QED BY <2>1, <2>2
<1>8. ASSUME NEW p \in People, LoadEnter(n, p)
      PROVE  AccountsInv'
  <2>1. p \in users /\ roles[p] \in Roles
    BY <1>8, MembershipAssumption
    DEF LoadEnter, AccountsInv, AccountSide, AccountTables, MembersHold
  <2>2. PICK pc \in {"done", "finding", "refused"} :
           newcomers' = [newcomers EXCEPT ![n] =
             With(newcomers[n], [pc |-> pc, kind |-> "enter", who |-> p, role |-> roles[p]])]
    <3> DEFINE pc == CASE ActiveMemberships(p) = 1 -> "done"
                       [] ActiveMemberships(p) # 1 /\ ~Production
                             /\ Organizations <= 1 -> "finding"
                       [] OTHER -> "refused"
    <3>1. pc \in {"done", "finding", "refused"}
      OBVIOUS
    <3> QED BY <1>8, <3>1 DEF LoadEnter, Steps
  <2> DEFINE next == With(newcomers[n], [pc |-> pc, kind |-> "enter", who |-> p,
                                         role |-> roles[p]])
  <2>3. /\ next \in NewcomerStates /\ next.pc = pc /\ next.who = p
        /\ next.role = roles[p] /\ next.kind = "enter"
    BY <1>1, <2>1 DEF With, NewcomerStates
  <2> HIDE DEF next
  <2>4. newcomers' = [newcomers EXCEPT ![n] = next] /\ newcomers'[n] = next
    BY <2>2 DEF next, AccountsInv, AccountSide, AccountTables
  <2>5. CASE pc # "finding"
    BY <1>4, <2>2, <2>3, <2>4, <2>5
  <2>6. CASE pc = "finding"
    <3>1. GoesOn(n, next)
      BY <1>1, <2>3, <2>4 DEF GoesOn, Answered
    <3>2. NewcomerHolds(n)'
      BY <1>3, <2>1, <2>3, <2>4, <2>6 DEF NewcomerHolds
    <3> QED BY <1>3, <3>1, <3>2, QuietKept DEF NothingAccepted
  <2> QED BY <2>5, <2>6
<1> QED BY <1>6, <1>7, <1>8 DEF NewcomerArrives

\* A request that ends, whatever it had done.
LEMMA EndKept ==
    ASSUME AccountsInv, NEW n \in Newcomers, NEW pc \in {"done", "refused", "failed"},
           Steps(n, [pc |-> pc]), Answered(n) => pc # "refused",
           UNCHANGED <<members, changes, invites, users, inviteRequests, roles, organization,
                       others, joined>>,
           NothingAccepted
    PROVE  AccountsInv'
<1> DEFINE next == With(newcomers[n], [pc |-> pc])
<1>1. newcomers[n] \in NewcomerStates /\ newcomers \in [Newcomers -> NewcomerStates]
  BY DEF AccountsInv, AccountSide, AccountTables
<1>2. /\ next \in NewcomerStates /\ next.pc = pc
      /\ next.kind = newcomers[n].kind /\ next.counted = newcomers[n].counted
  BY <1>1 DEF With, NewcomerStates
<1>3. newcomers' = [newcomers EXCEPT ![n] = next]
  BY DEF Steps
<1> HIDE DEF next
<1>4. newcomers'[n] = next
  BY <1>1, <1>3
<1>5. GoesOn(n, next)
  BY <1>2, <1>3 DEF GoesOn, Answered
<1>6. NewcomerHolds(n)'
  BY <1>2, <1>4 DEF NewcomerHolds
<1> QED BY <1>5, <1>6, QuietKept

\* A registration that has looked where it belongs is to join or has an account only.
LEMMA CountKept ==
    ASSUME AccountsInv, NEW n \in Newcomers, CountOrganizations(n)
    PROVE  AccountsInv'
<1> PICK pc \in {"finding", "joined"} :
       Steps(n, [pc |-> pc, counted |-> Organizations])
  BY DEF CountOrganizations
<1> DEFINE next == With(newcomers[n], [pc |-> pc, counted |-> Organizations])
<1>1. /\ newcomers[n] \in NewcomerStates /\ newcomers \in [Newcomers -> NewcomerStates]
      /\ newcomers[n].pc = "created" /\ newcomers[n].kind = "register"
      /\ newcomers[n].who \in users /\ newcomers[n].role \in Roles
  BY DEF AccountsInv, AccountSide, AccountTables, NewcomerHolds, CountOrganizations
<1>2. /\ next \in NewcomerStates /\ next.pc = pc /\ next.kind = newcomers[n].kind
      /\ next.who = newcomers[n].who /\ next.role = newcomers[n].role
  BY <1>1, OrganizationsCounted DEF With, NewcomerStates
<1>3. newcomers' = [newcomers EXCEPT ![n] = next]
  BY DEF Steps
<1> HIDE DEF next
<1>4. newcomers'[n] = next
  BY <1>1, <1>3
<1>5. UNCHANGED <<members, changes, trail, invites, users, inviteRequests, roles, organization,
                  others, joined>>
  BY DEF CountOrganizations, membershipVars, inviteVars
<1>6. GoesOn(n, next)
  BY <1>1, <1>2, <1>3 DEF GoesOn, Answered
<1>7. NewcomerHolds(n)'
  BY <1>1, <1>2, <1>4, <1>5 DEF NewcomerHolds
<1> QED BY <1>5, <1>6, <1>7, QuietKept DEF NothingAccepted

\* A request that is to join the organization there is has found the default one,
\* or had counted none.
LEMMA FindKept ==
    ASSUME AccountsInv, NEW n \in Newcomers, FindOrganization(n) \/ FindDefault(n)
    PROVE  AccountsInv'
<1>1. /\ newcomers[n] \in NewcomerStates /\ newcomers \in [Newcomers -> NewcomerStates]
      /\ newcomers[n].pc = "finding" /\ newcomers[n].kind \in {"register", "enter"}
      /\ newcomers[n].who \in users /\ newcomers[n].role \in Roles
      /\ UNCHANGED <<members, changes, trail, invites, users, inviteRequests, roles,
                     organization, others, joined>>
  BY DEF AccountsInv, AccountSide, AccountTables, NewcomerHolds, FindOrganization,
         FindDefault, membershipVars, inviteVars
<1>2. ASSUME NEW into \in {"new", "first"}, Steps(n, [pc |-> "joining", into |-> into]),
             into = "first" =>
                /\ organization # None
                /\ organization = Default
                   \/ (newcomers[n].kind = "register" /\ newcomers[n].counted = 0)
      PROVE  AccountsInv'
  <2> DEFINE next == With(newcomers[n], [pc |-> "joining", into |-> into])
  <2>1. /\ next \in NewcomerStates /\ next.pc = "joining" /\ next.kind = newcomers[n].kind
        /\ next.who = newcomers[n].who /\ next.role = newcomers[n].role
        /\ next.counted = newcomers[n].counted /\ next.into = into
    BY <1>1 DEF With, NewcomerStates
  <2>2. newcomers' = [newcomers EXCEPT ![n] = next]
    BY <1>2 DEF Steps
  <2> HIDE DEF next
  <2>3. newcomers'[n] = next
    BY <1>1, <2>2
  <2>4. GoesOn(n, next)
    BY <1>1, <2>1, <2>2 DEF GoesOn, Answered
  <2>5. NewcomerHolds(n)'
    BY <1>1, <1>2, <2>1, <2>3 DEF NewcomerHolds
  <2> QED BY <1>1, <2>4, <2>5, QuietKept DEF NothingAccepted
<1>3. ASSUME Steps(n, [pc |-> "joined"])
      PROVE  AccountsInv'
  <2> DEFINE next == With(newcomers[n], [pc |-> "joined"])
  <2>1. /\ next \in NewcomerStates /\ next.pc = "joined" /\ next.kind = newcomers[n].kind
        /\ next.who = newcomers[n].who /\ next.role = newcomers[n].role
    BY <1>1 DEF With, NewcomerStates
  <2>2. newcomers' = [newcomers EXCEPT ![n] = next]
    BY <1>3 DEF Steps
  <2> HIDE DEF next
  <2>3. newcomers'[n] = next
    BY <1>1, <2>2
  <2>4. GoesOn(n, next)
    BY <1>1, <2>1, <2>2 DEF GoesOn, Answered
  <2>5. NewcomerHolds(n)'
    BY <1>1, <2>1, <2>3 DEF NewcomerHolds
  <2> QED BY <1>1, <2>4, <2>5, QuietKept DEF NothingAccepted
<1>4. ASSUME NEW pc \in {"refused", "failed"}, Steps(n, [pc |-> pc])
      PROVE  AccountsInv'
  BY <1>1, <1>4, EndKept DEF NothingAccepted, Answered
<1>5. Organizations = 1 => organization # None
  BY OrganizationsCounted
<1>6. CASE FindOrganization(n)
  <2>1. \/ Organizations = 0 /\ Steps(n, [pc |-> "joining", into |-> "new"])
        \/ Organizations = 1 /\ Places(n) /\ Steps(n, [pc |-> "joining", into |-> "first"])
        \/ Organizations = 1 /\ Steps(n, [pc |-> "joined"])
        \/ Steps(n, [pc |-> "failed"])
    BY <1>6 DEF FindOrganization
  <2>2. newcomers[n].kind = "register"
    BY <1>6 DEF FindOrganization
  <2> QED BY <1>2, <1>3, <1>4, <1>5, <2>1, <2>2 DEF Places
<1>7. CASE FindDefault(n)
  <2>1. \/ Steps(n, [pc |-> "joining", into |-> "new"])
        \/ /\ Organizations = 1 /\ organization = Default
           /\ Steps(n, [pc |-> "joining", into |-> "first"])
        \/ Steps(n, [pc |-> "refused"])
        \/ Steps(n, [pc |-> "failed"])
    BY <1>7 DEF FindDefault
  <2> QED BY <1>2, <1>4, <1>5, <2>1
<1> QED BY <1>6, <1>7

LEMMA ChooseKept ==
    ASSUME AccountsInv, NEW n \in Newcomers, NEW s \in Slugs, ChooseSlug(n, s)
    PROVE  AccountsInv'
<1> DEFINE next == With(newcomers[n], [slug |-> s])
<1>1. /\ newcomers[n] \in NewcomerStates /\ newcomers \in [Newcomers -> NewcomerStates]
      /\ newcomers[n].pc = "counted" /\ newcomers[n].kind = "bootstrap"
      /\ newcomers[n].who \in People /\ newcomers[n].role = "admin"
      /\ newcomers[n].role \in Roles /\ newcomers[n].into = "none"
  BY DEF AccountsInv, AccountSide, AccountTables, NewcomerHolds, ChooseSlug
<1>2. /\ next \in NewcomerStates /\ next.pc = "counted" /\ next.kind = "bootstrap"
      /\ next.who = newcomers[n].who /\ next.role = newcomers[n].role /\ next.into = "none"
  BY <1>1 DEF With, NewcomerStates
<1>3. newcomers' = [newcomers EXCEPT ![n] = next]
  BY DEF ChooseSlug, Steps
<1> HIDE DEF next
<1>4. newcomers'[n] = next
  BY <1>1, <1>3
<1>5. UNCHANGED <<members, changes, trail, invites, users, inviteRequests, roles, organization,
                  others, joined>>
  BY DEF ChooseSlug, membershipVars, inviteVars
<1>6. GoesOn(n, next)
  BY <1>1, <1>2, <1>3 DEF GoesOn, Answered
<1>7. NewcomerHolds(n)'
  BY <1>1, <1>2, <1>4 DEF NewcomerHolds
<1> QED BY <1>5, <1>6, <1>7, QuietKept DEF NothingAccepted

\* The first account is an administrator's, by whichever request it comes.
LEMMA UserInserted ==
    ASSUME AccountSide, NEW n \in Newcomers, newcomers[n].pc = "counted",
           newcomers[n].kind \in {"register", "bootstrap"}, newcomers[n].who \notin users,
           InsertsUser(n)
    PROVE  /\ users' \subseteq People /\ roles' \in [People -> Roles \cup {None}]
           /\ users \subseteq users' /\ newcomers[n].who \in users'
           /\ \A p \in People : roles'[p] # None <=> p \in users'
           /\ SomebodyIsAdmin'
<1>1. newcomers[n].who \in People /\ newcomers[n].role \in Roles
  BY DEF AccountSide, NewcomerHolds
<1>2. newcomers[n].role # "admin" => users # {}
  BY DEF AccountSide, NewcomerHolds
<1> PICK p, role : p = newcomers[n].who /\ role = newcomers[n].role
  OBVIOUS
<1>3. /\ users' = users \cup {p} /\ roles' = [roles EXCEPT ![p] = role]
      /\ p \in People /\ role \in Roles /\ role # None /\ p \notin users
  BY <1>1, MembershipAssumption DEF InsertsUser
<1>4. /\ users' \subseteq People /\ roles' \in [People -> Roles \cup {None}]
      /\ \A q \in People : roles'[q] # None <=> q \in users'
  BY <1>3 DEF AccountSide, AccountTables, MembersHold
<1>5. SomebodyIsAdmin'
  <2>1. CASE role = "admin"
    BY <1>3, <2>1 DEF SomebodyIsAdmin, AccountSide, AccountTables
  <2>2. CASE role # "admin"
    <3>1. PICK q \in People : roles[q] = "admin"
      BY <1>2, <2>2 DEF AccountSide, SomebodyIsAdmin
    <3>2. q # p
      BY <1>3, <3>1, MembershipAssumption DEF AccountSide, MembersHold
    <3>3. roles'[q] = "admin"
      BY <1>3, <3>1, <3>2 DEF AccountSide, AccountTables
    <3> QED BY <3>3 DEF SomebodyIsAdmin
  <2> QED BY <2>1, <2>2
<1> QED BY <1>3, <1>4, <1>5

LEMMA CommitUserKept ==
    ASSUME AccountsInv, NEW n \in Newcomers, CommitUser(n)
    PROVE  AccountsInv'
<1>1. /\ newcomers[n] \in NewcomerStates /\ newcomers \in [Newcomers -> NewcomerStates]
      /\ newcomers[n].pc = "counted" /\ newcomers[n].kind = "register"
      /\ newcomers[n].role \in Roles
      /\ UNCHANGED <<members, changes, trail, invites, inviteRequests, organization, others,
                     joined>>
  BY DEF AccountsInv, AccountSide, AccountTables, NewcomerHolds, CommitUser, membershipVars
<1>2. CASE newcomers[n].who \in users
  BY <1>1, <1>2, EndKept DEF CommitUser, NothingAccepted, Answered
<1>3. CASE newcomers[n].who \notin users
  <2> DEFINE next == With(newcomers[n], [pc |-> "created"])
  <2>1. /\ next \in NewcomerStates /\ next.pc = "created" /\ next.kind = "register"
        /\ next.who = newcomers[n].who /\ next.role = newcomers[n].role
    BY <1>1 DEF With, NewcomerStates
  <2>2. newcomers' = [newcomers EXCEPT ![n] = next] /\ InsertsUser(n)
    BY <1>3 DEF CommitUser, Steps
  <2> HIDE DEF next
  <2>3. newcomers'[n] = next
    BY <1>1, <2>2
  <2>4. GoesOn(n, next)
    BY <1>1, <2>1, <2>2 DEF GoesOn, Answered
  <2>5. /\ users' \subseteq People /\ roles' \in [People -> Roles \cup {None}]
        /\ users \subseteq users' /\ newcomers[n].who \in users'
        /\ \A p \in People : roles'[p] # None <=> p \in users'
        /\ SomebodyIsAdmin'
    BY <1>1, <1>3, <2>2, UserInserted DEF AccountsInv
  <2>6. NewcomerHolds(n)'
    BY <1>1, <2>1, <2>3, <2>5 DEF NewcomerHolds
  <2>7. PlaceStays
    BY <1>1, <2>5 DEF PlaceStays
  <2>8. InviteSide' /\ MemberSide'
    BY <1>1, <2>7, InvitesUntouched
    DEF AccountsInv, MemberSide, MembershipTypeOK, ChangeHolds
  <2>9. /\ newcomers' \in [Newcomers -> NewcomerStates]
        /\ \A w \in Newcomers : NewcomerHolds(w)'
        /\ \A w \in Newcomers : Answered(w) =>
              /\ Answered(w)'
              /\ newcomers'[w].kind = newcomers[w].kind
              /\ newcomers'[w].counted = newcomers[w].counted
    BY <2>4, <2>6, <2>7, NewcomersStay DEF AccountsInv
  <2>10. AccountTables' /\ MembersHold'
    BY <1>1, <2>5, <2>9 DEF AccountsInv, AccountSide, AccountTables, MembersHold
  <2>11. JoinedHold'
    BY <1>1, <2>9 DEF AccountsInv, AccountSide, JoinedHold, Answered
  <2>12. OriginsHold'
    <3>1. InvitesStay
      BY <1>1 DEF InvitesStay, AccountsInv, InviteSide, InviteTables, Settled
    <3> QED BY <1>1, <3>1, OriginsStay DEF AccountsInv, NothingAccepted
  <2> QED BY <2>5, <2>8, <2>9, <2>10, <2>11, <2>12 DEF AccountsInv, AccountSide
<1> QED BY <1>2, <1>3

\* Somebody joins: the organization committed first, which may be this one, or one
\* that the model does not look into.
LEMMA JoinsKept ==
    ASSUME AccountsInv, NEW n \in Newcomers, NEW next, GoesOn(n, next), NEW s \in Slugs,
           Joins(n, s), next.pc \in {"joined", "done"}, next.kind = newcomers[n].kind,
           next.counted = newcomers[n].counted, NewcomerHolds(n)',
           UNCHANGED <<changes, invites, inviteRequests>>, NothingAccepted,
           newcomers[n].role \in Roles,
           users \subseteq users', users' \subseteq People, newcomers[n].who \in users',
           roles' \in [People -> Roles \cup {None}],
           \A p \in People : roles'[p] # None <=> p \in users',
           SomebodyIsAdmin',
           organization = None => s = Default \/ newcomers[n].kind = "bootstrap",
           newcomers[n].into = "first" =>
              /\ members[newcomers[n].who].status = "absent" /\ organization # None
              /\ organization = Default
                 \/ (newcomers[n].kind = "register" /\ newcomers[n].counted = 0)
    PROVE  AccountsInv'
<1> USE DEF AccountsInv
<1> DEFINE row == [status |-> "active", role |-> newcomers[n].role]
<1> PICK p : p = newcomers[n].who
  OBVIOUS
<1>1. PlaceStays
  BY DEF PlaceStays, Joins
<1>2. InviteSide'
  BY <1>1, InvitesUntouched
<1>3. /\ newcomers'[n] = next /\ newcomers' \in [Newcomers -> NewcomerStates]
      /\ \A w \in Newcomers : NewcomerHolds(w)'
      /\ \A w \in Newcomers : Answered(w) =>
            /\ Answered(w)'
            /\ newcomers'[w].kind = newcomers[w].kind
            /\ newcomers'[w].counted = newcomers[w].counted
  BY <1>1, NewcomersStay
<1>4. InvitesStay
  BY DEF InvitesStay, InviteSide, InviteTables, Settled
<1>5. p \in People /\ None \notin Slugs /\ Default \in Slugs
  BY AccountsAssumption
<1>6. members \in [People -> MemberRows] /\ changes \in [Changes -> ChangeStates]
  BY DEF MemberSide, MembershipTypeOK
<1>7. CASE organization = None \/ newcomers[n].into = "first"
  <2>1. /\ members' = [members EXCEPT ![p] = row]
        /\ organization' = IF organization = None THEN s ELSE organization
        /\ joined' = joined \cup {[who |-> p, by |-> n]}
        /\ UNCHANGED others
    BY <1>7 DEF Joins
  <2>2. members[p].status = "absent" /\ row \in MemberRows /\ row.status = "active"
    BY <1>5, <1>7 DEF AccountSide, MembersHold, MemberRows
  <2> HIDE DEF row
  <2>3. /\ members' \in [People -> MemberRows] /\ members'[p] = row
        /\ \A q \in People \ {p} : members'[q] = members[q]
    BY <1>5, <1>6, <2>1, <2>2
  <2>4. MemberSide'
    BY <2>2, <2>3, MembersGrow
  <2>5. OriginsHold'
    BY <1>4, <1>5, <2>1, <2>2, OriginsJoined
  <2>6. organization' \in Slugs
    BY <2>1 DEF AccountSide, AccountTables
  <2>7. AccountTables'
    <3>1. \A j \in joined' : j = [who |-> j.who, by |-> j.by] /\ j.who \in People
      BY <1>5, <2>1 DEF AccountSide, AccountTables
    <3> QED BY <1>3, <2>1, <2>6, <3>1 DEF AccountSide, AccountTables
  <2>8. MembersHold'
    <3> SUFFICES ASSUME NEW q \in People, members'[q].status # "absent"
                 PROVE  q \in users' /\ organization' # None
      BY DEF MembersHold
    <3>1. CASE q = p
      BY <1>5, <2>6, <3>1
    <3>2. CASE q # p
      BY <1>5, <2>3, <2>6, <3>2 DEF AccountSide, MembersHold
    <3> QED BY <3>1, <3>2
  <2>9. JoinedHold'
    <3> SUFFICES ASSUME NEW j \in joined', j.by # None
                 PROVE  /\ j.by \in Newcomers
                        /\ newcomers'[j.by].pc \in {"joined", "done", "failed"}
                        /\ \/ organization' = Default
                           \/ newcomers'[j.by].kind = "bootstrap"
                           \/ newcomers'[j.by].kind = "register" /\ newcomers'[j.by].counted = 0
      BY DEF JoinedHold
    <3>1. CASE j \in joined
      <4>1. organization # None
        BY <3>1 DEF AccountSide, AccountTables, MembersHold, OriginsHold, JoinsOf
      <4>2. organization' = organization
        BY <2>1, <4>1
      <4> QED BY <1>3, <3>1, <4>2 DEF AccountSide, JoinedHold, Answered
    <3>2. CASE j \notin joined
      <4>1. j.by = n
        BY <2>1, <3>2
      <4> QED BY <1>3, <1>7, <2>1, <4>1
    <3> QED BY <3>1, <3>2
  <2> QED BY <1>2, <1>3, <2>4, <2>5, <2>7, <2>8, <2>9 DEF AccountSide
<1>8. CASE ~(organization = None \/ newcomers[n].into = "first")
  <2>1. /\ others' = [others EXCEPT ![p] = s]
        /\ UNCHANGED <<members, organization, joined>>
    BY <1>8 DEF Joins
  <2>2. MemberSide'
    BY <2>1 DEF MemberSide, MembershipTypeOK, ChangeHolds
  <2>3. OriginsHold'
    BY <1>4, <2>1, OriginsStay
  <2>4. AccountTables' /\ MembersHold'
    BY <1>3, <1>5, <2>1 DEF AccountSide, AccountTables, MembersHold
  <2>5. JoinedHold'
    BY <1>3, <2>1 DEF AccountSide, JoinedHold, Answered
  <2> QED BY <1>2, <1>3, <2>2, <2>3, <2>4, <2>5 DEF AccountSide
<1> QED BY <1>7, <1>8

\* Somebody with an account becomes a member.
LEMMA CommitMembershipKept ==
    ASSUME AccountsInv, NEW n \in Newcomers, CommitMembership(n)
    PROVE  AccountsInv'
<1>1. /\ newcomers[n] \in NewcomerStates /\ newcomers \in [Newcomers -> NewcomerStates]
      /\ newcomers[n].pc = "joining"
      /\ newcomers[n].who \in users /\ newcomers[n].role \in Roles
      /\ newcomers[n].into = "first" =>
            /\ organization # None
            /\ organization = Default
               \/ (newcomers[n].kind = "register" /\ newcomers[n].counted = 0)
      /\ users \subseteq People /\ roles \in [People -> Roles \cup {None}]
      /\ \A p \in People : roles[p] # None <=> p \in users
      /\ UNCHANGED <<changes, trail, invites, users, inviteRequests, roles>>
  BY DEF AccountsInv, AccountSide, AccountTables, MembersHold, NewcomerHolds,
         CommitMembership, inviteVars
<1>2. CASE Collides(n)
  BY <1>1, <1>2, EndKept DEF CommitMembership, NothingAccepted, Answered
<1>3. CASE ~Collides(n)
  <2> PICK pc \in {"joined", "done"} : Steps(n, [pc |-> pc])
    BY <1>3 DEF CommitMembership
  <2> DEFINE next == With(newcomers[n], [pc |-> pc])
  <2>1. /\ next \in NewcomerStates /\ next.pc = pc /\ next.kind = newcomers[n].kind
        /\ next.who = newcomers[n].who /\ next.role = newcomers[n].role
        /\ next.counted = newcomers[n].counted
    BY <1>1 DEF With, NewcomerStates
  <2>2. newcomers' = [newcomers EXCEPT ![n] = next]
    BY DEF Steps
  <2> HIDE DEF next
  <2>3. newcomers'[n] = next
    BY <1>1, <2>2
  <2>4. GoesOn(n, next)
    BY <1>1, <2>1, <2>2 DEF GoesOn, Answered
  <2>5. newcomers[n].kind \in {"register", "enter"}
    BY <1>1 DEF AccountsInv, AccountSide, NewcomerHolds
  <2>6. NewcomerHolds(n)'
    BY <1>1, <2>1, <2>3, <2>5 DEF NewcomerHolds
  <2>7. newcomers[n].into = "first" => members[newcomers[n].who].status = "absent"
    BY <1>3 DEF Collides
  <2>8. Joins(n, Default) /\ Default \in Slugs
    BY <1>3, AccountsAssumption DEF CommitMembership
  <2>9. SomebodyIsAdmin'
    BY <1>1 DEF AccountsInv, AccountSide, SomebodyIsAdmin
  <2>10. NothingAccepted
    BY <1>1 DEF NothingAccepted
  <2> QED BY <1>1, <2>1, <2>4, <2>6, <2>7, <2>8, <2>9, <2>10, JoinsKept
<1> QED BY <1>2, <1>3

\* Somebody founds an organization, with an account that did not exist.
LEMMA CommitBootstrapKept ==
    ASSUME AccountsInv, NEW n \in Newcomers, CommitBootstrap(n)
    PROVE  AccountsInv'
<1>1. /\ newcomers[n] \in NewcomerStates /\ newcomers \in [Newcomers -> NewcomerStates]
      /\ newcomers[n].pc = "counted" /\ newcomers[n].kind = "bootstrap"
      /\ newcomers[n].slug \in Slugs
      /\ newcomers[n].who \in People /\ newcomers[n].role \in Roles
      /\ newcomers[n].into = "none"
      /\ UNCHANGED <<changes, invites, inviteRequests>>
  BY DEF AccountsInv, AccountSide, AccountTables, NewcomerHolds, CommitBootstrap,
         NewcomerStates
<1>2. CASE newcomers[n].who \in users \/ SlugTaken(newcomers[n].slug)
  BY <1>1, <1>2, EndKept DEF CommitBootstrap, NothingAccepted, Answered
<1>3. CASE ~(newcomers[n].who \in users \/ SlugTaken(newcomers[n].slug))
  <2>0. /\ InsertsUser(n) /\ Joins(n, newcomers[n].slug) /\ Steps(n, [pc |-> "done"])
        /\ trail' = trail \cup
             {[action |-> "bootstrapped", by |-> n, about |-> newcomers[n].who]}
    BY <1>3 DEF CommitBootstrap
  <2> DEFINE next == With(newcomers[n], [pc |-> "done"])
  <2>1. /\ next \in NewcomerStates /\ next.pc = "done" /\ next.kind = newcomers[n].kind
        /\ next.counted = newcomers[n].counted
    BY <1>1 DEF With, NewcomerStates
  <2>2. newcomers' = [newcomers EXCEPT ![n] = next]
    BY <2>0 DEF Steps
  <2> HIDE DEF next
  <2>3. newcomers'[n] = next
    BY <1>1, <2>2
  <2>4. GoesOn(n, next)
    BY <1>1, <2>1, <2>2 DEF GoesOn, Answered
  <2>5. NewcomerHolds(n)'
    BY <2>1, <2>3 DEF NewcomerHolds
  <2>6. NothingAccepted
    BY <2>0 DEF NothingAccepted
  <2>7. /\ users' \subseteq People /\ roles' \in [People -> Roles \cup {None}]
        /\ users \subseteq users' /\ newcomers[n].who \in users'
        /\ \A p \in People : roles'[p] # None <=> p \in users'
        /\ SomebodyIsAdmin'
    BY <1>1, <1>3, <2>0, UserInserted DEF AccountsInv
  <2> QED BY <1>1, <2>0, <2>1, <2>4, <2>5, <2>6, <2>7, JoinsKept
<1> QED BY <1>2, <1>3

LEMMA NewcomerStepKept ==
    ASSUME AccountsInv, NEW n \in Newcomers,
           \/ CommitUser(n) \/ CountOrganizations(n) \/ FindOrganization(n)
           \/ CommitMembership(n) \/ AuditRegister(n)
           \/ \E s \in Slugs : ChooseSlug(n, s)
           \/ CommitBootstrap(n) \/ FindDefault(n) \/ FailNewcomer(n)
    PROVE  AccountsInv'
<1>1. CASE AuditRegister(n)
  BY <1>1, EndKept DEF AuditRegister, NothingAccepted, inviteVars
<1>2. CASE FailNewcomer(n)
  BY <1>2, EndKept DEF FailNewcomer, NothingAccepted, membershipVars, inviteVars
<1> QED BY <1>1, <1>2, CommitUserKept, CountKept, FindKept, CommitMembershipKept, ChooseKept,
           CommitBootstrapKept

-----------------------------------------------------------------------------
(***************************************************************************)
(* All of it together.                                                     *)
(***************************************************************************)
LEMMA InviteStepKept ==
    ASSUME AccountsInv, InviteStep
    PROVE  AccountsInv'
<1> USE DEF AccountsInv
<1>1. /\ InviteSide' /\ InvitesStay /\ UNCHANGED changes
      /\ UNCHANGED <<organization, others, newcomers, joined>>
      /\ roles' = [p \in People |-> IF p \in users' \ users THEN "agent_owner" ELSE roles[p]]
      /\ \/ UNCHANGED <<members, users>> /\ NothingAccepted
         \/ \E i \in Invites, r \in InviteRequests : Accepted(i, r)
  BY InviteStepCases DEF InviteStep, AccountSide
<1>2. CASE UNCHANGED <<members, users>> /\ NothingAccepted
  <2>1. MemberSide' /\ OriginsHold'
    BY <1>1, <1>2, OriginsStay DEF MemberSide, MembershipTypeOK, ChangeHolds
  <2>2. AccountSide'
    BY <1>1, <1>2, AccountsBeside DEF AccountSide, AccountTables, MembersHold
  <2> QED BY <1>1, <2>1, <2>2
<1>3. ASSUME NEW i \in Invites, NEW r \in InviteRequests, Accepted(i, r)
      PROVE  AccountsInv'
  <2> DEFINE row == [status |-> "active", role |-> invites[i].role]
  <2> PICK p : p = invites[i].email
    OBVIOUS
  <2>1. /\ p \in People /\ row \in MemberRows /\ row.status = "active"
        /\ members' = [members EXCEPT ![p] = row] /\ users' = users \cup {p}
        /\ users # {} /\ organization # None
    BY <1>3 DEF Accepted, InviteSide, InvitesHold, MemberRows
  <2> HIDE DEF row
  <2>2. /\ members' \in [People -> MemberRows] /\ members'[p] = row
        /\ \A q \in People \ {p} : members'[q] = members[q]
    BY <2>1 DEF MemberSide, MembershipTypeOK
  <2>3. MemberSide'
    BY <1>1, <2>1, <2>2, MembersGrow
  <2>4. OriginsHold'
    BY <1>1, <1>3, OriginsAccepted
  <2>5. ASSUME NEW q \in People, members'[q].status # "absent"
        PROVE  q \in users' /\ organization # None
    BY <2>1, <2>2, <2>5 DEF AccountSide, MembersHold
  <2>6. AccountSide'
    BY <1>1, <2>1, <2>5, AccountsBeside DEF AccountSide, AccountTables
  <2> QED BY <1>1, <2>3, <2>4, <2>6
<1> QED BY <1>1, <1>2, <1>3

LEMMA MemberStepKept ==
    ASSUME AccountsInv, MembershipStep
    PROVE  AccountsInv'
<1> USE DEF AccountsInv
<1>1. UNCHANGED <<invites, users, inviteRequests, roles, organization, others, newcomers, joined>>
  BY DEF MembershipStep, inviteVars, accountVars
<1>2. /\ MemberSide' /\ NothingAccepted
      /\ \A p \in People : members'[p].status = "absent" <=> members[p].status = "absent"
  BY MembershipStepKept
<1>3. InviteSide'
  BY <1>1, InvitesUntouched DEF PlaceStays
<1>4. OriginsHold'
  <2>1. InvitesStay
    BY <1>1 DEF InvitesStay, InviteSide, InviteTables, Settled
  <2> QED BY <1>1, <1>2, <2>1, OriginsStay
<1>5. AccountTables' /\ MembersHold' /\ SomebodyIsAdmin'
  BY <1>1, <1>2 DEF AccountSide, AccountTables, MembersHold, SomebodyIsAdmin
<1>6. ASSUME NEW n \in Newcomers
      PROVE  NewcomerHolds(n)'
  BY <1>1 DEF AccountSide, NewcomerHolds
<1>7. JoinedHold'
  BY <1>1 DEF AccountSide, JoinedHold
<1> QED BY <1>2, <1>3, <1>4, <1>5, <1>6, <1>7 DEF AccountSide

LEMMA AccountsStep ==
    ASSUME AccountsInv, [AccountsNext]_vars
    PROVE  AccountsInv'
<1>1. CASE UNCHANGED vars
  <2>1. UNCHANGED <<members, changes, trail, invites, users, inviteRequests, roles,
                    organization, others, newcomers, joined>>
    BY <1>1 DEF vars, membershipVars, inviteVars, accountVars
  <2>2. InviteSide'
    BY <2>1, InvitesUntouched DEF PlaceStays, AccountsInv
  <2>3. MemberSide'
    BY <2>1 DEF MemberSide, MembershipTypeOK, ChangeHolds, AccountsInv
  <2>4. OriginsHold'
    <3>1. InvitesStay
      BY <2>1 DEF InvitesStay, InviteSide, InviteTables, Settled, AccountsInv
    <3> QED BY <2>1, <3>1, OriginsStay DEF AccountsInv, NothingAccepted
  <2>5. AccountTables' /\ MembersHold' /\ SomebodyIsAdmin' /\ JoinedHold'
    BY <2>1 DEF AccountsInv, AccountSide, AccountTables, MembersHold, SomebodyIsAdmin,
                JoinedHold
  <2>6. ASSUME NEW n \in Newcomers
        PROVE  NewcomerHolds(n)'
    BY <2>1 DEF AccountsInv, AccountSide, NewcomerHolds
  <2> QED BY <2>2, <2>3, <2>4, <2>5, <2>6 DEF AccountsInv, AccountSide
<1>2. ASSUME NEW n \in Following(Newcomers, newcomers), NewcomerArrives(n)
      PROVE  AccountsInv'
  <2>1. n \in Newcomers
    BY DEF Following, Waiting
  <2> QED BY <1>2, <2>1, ArrivalKept
<1>3. CASE NewcomerProceeds
  BY <1>3, NewcomerStepKept DEF NewcomerProceeds
<1> QED BY <1>1, <1>2, <1>3, InviteStepKept, MemberStepKept DEF AccountsNext

\* An empty database, or an organization with members, one an active administrator.
LEMMA InitialRows ==
    ASSUME AccountsInit
    PROVE  /\ members \in [People -> MemberRows] /\ changes = [c \in Changes |-> IdleChange]
           /\ trail = {} /\ users \subseteq People
           /\ invites = [i \in Invites |-> NoInvite]
           /\ inviteRequests = [r \in InviteRequests |-> IdleInviteRequest]
           /\ \A p \in People : /\ members[p].status # "absent" => p \in users
                                /\ members[p].role # None => members[p].status # "absent"
           /\ users # {} => \E p \in People : p \in users /\ members[p].role = "admin"
<1>1. CASE InvitesInit
  <2>1. /\ members = InitialMembers /\ users = InitialUsers
        /\ members \in [People -> MemberRows]
    BY <1>1, MembershipAssumption DEF InvitesInit, MembershipInit, MemberRows
  <2>2. \A p \in People : members[p].status # "absent" => p \in users
    BY <2>1, InvitesAssumption DEF InitialPeople
  <2>3. PICK p \in People : members[p] = [status |-> "active", role |-> "admin"]
    BY <2>1, MembershipAssumption
  <2>4. \E q \in People : q \in users /\ members[q].role = "admin"
    BY <2>2, <2>3
  <2> QED BY <1>1, <2>1, <2>2, <2>4, InvitesAssumption, MembershipAssumption
          DEF InvitesInit, MembershipInit
<1>2. CASE /\ members = [p \in People |-> [status |-> "absent", role |-> None]]
           /\ changes = [c \in Changes |-> IdleChange]
           /\ trail = {} /\ users = {}
           /\ invites = [i \in Invites |-> NoInvite]
           /\ inviteRequests = [r \in InviteRequests |-> IdleInviteRequest]
  BY <1>2 DEF MemberRows
<1> QED BY <1>1, <1>2 DEF AccountsInit

LEMMA AccountsInitially ==
    ASSUME AccountsInit
    PROVE  AccountsInv
<1>1. /\ members \in [People -> MemberRows] /\ changes = [c \in Changes |-> IdleChange]
      /\ trail = {} /\ users \subseteq People
      /\ invites = [i \in Invites |-> NoInvite]
      /\ inviteRequests = [r \in InviteRequests |-> IdleInviteRequest]
      /\ \A p \in People : /\ members[p].status # "absent" => p \in users
                           /\ members[p].role # None => members[p].status # "absent"
      /\ users # {} => \E p \in People : p \in users /\ members[p].role = "admin"
  BY InitialRows
<1>2. /\ "agent_owner" \in Roles /\ None \notin Roles /\ None \notin Slugs
      /\ None \notin Invites
  BY AccountsAssumption, MembershipAssumption, InvitesAssumption
<1>3. /\ organization \in Slugs \cup {None} /\ (users # {} => organization # None)
      /\ others = [p \in People |-> None]
      /\ newcomers = [n \in Newcomers |-> IdleNewcomer]
      /\ joined = {[who |-> p, by |-> None] : p \in {q \in People :
                                                     members[q].status # "absent"}}
  BY <1>2 DEF AccountsInit
<1>4. /\ roles \in [People -> Roles \cup {None}]
      /\ \A p \in People : /\ roles[p] # None <=> p \in users
                           /\ p \in users /\ members[p].role # None
                                => roles[p] = members[p].role
  <2> DEFINE given(p) == CASE p \notin users -> None
                           [] members[p].role # None -> members[p].role
                           [] OTHER -> "agent_owner"
  <2>1. roles = [p \in People |-> given(p)]
    BY DEF AccountsInit
  <2>2. ASSUME NEW p \in People
        PROVE  /\ given(p) \in Roles \cup {None} /\ (given(p) # None <=> p \in users)
               /\ p \in users /\ members[p].role # None => given(p) = members[p].role
    <3>1. members[p] \in MemberRows
      BY <1>1
    <3>2. CASE p \notin users
      <4>1. members[p].role = None
        BY <1>1, <3>2
      <4> QED BY <3>2, <4>1
    <3>3. CASE p \in users /\ members[p].role # None
      BY <3>1, <3>3 DEF MemberRows
    <3>4. CASE p \in users /\ members[p].role = None
      BY <1>2, <3>4
    <3> QED BY <3>2, <3>3, <3>4
  <2> HIDE DEF given
  <2> QED BY <2>1, <2>2
<1>5. InviteSide
  <2>1. InviteTables
    BY <1>1 DEF InviteTables, NoInvite, InviteRows, InviteStatuses, IdleInviteRequest,
                InviteRequestStates
  <2>2. InvitesHold /\ LateUseHolds
    BY <1>1 DEF InvitesHold, LateUseHolds, LateUseRefused, Succeeded, NoInvite,
                IdleInviteRequest
  <2>3. \A r \in InviteRequests : InviteRequestHolds(r)
    BY <1>1 DEF InviteRequestHolds, IdleInviteRequest
  <2> QED BY <2>1, <2>2, <2>3 DEF InviteSide
<1>6. MemberSide
  BY <1>1 DEF MemberSide, MembershipTypeOK, ChangeHolds, ChangeStates, IdleChange
<1>7. AccountSide
  <2>1. newcomers \in [Newcomers -> NewcomerStates]
    <3>1. Cardinality(People) \in Nat
      BY MembershipAssumption, FS_CardinalityType
    <3>2. IdleNewcomer \in NewcomerStates
      BY <3>1 DEF IdleNewcomer, NewcomerStates
    <3> QED BY <1>3, <3>2
  <2>2. AccountTables
    BY <1>1, <1>3, <1>4, <2>1 DEF AccountTables
  <2>3. MembersHold /\ SomebodyIsAdmin
    BY <1>1, <1>2, <1>3, <1>4, MembershipAssumption DEF MembersHold, SomebodyIsAdmin
  <2>4. \A n \in Newcomers : NewcomerHolds(n)
    BY <1>3 DEF NewcomerHolds, IdleNewcomer
  <2>5. JoinedHold
    BY <1>3 DEF JoinedHold
  <2> QED BY <2>2, <2>3, <2>4, <2>5 DEF AccountSide
<1>8. OriginsHold
  <2>1. \A p : AcceptancesOf(p) = {}
    BY <1>1 DEF AcceptancesOf
  <2>2. ASSUME NEW p \in People
        PROVE  JoinsOf(p) = IF members[p].status = "absent" THEN {}
                            ELSE {[who |-> p, by |-> None]}
    BY <1>3 DEF JoinsOf
  <2> QED BY <1>1, <2>1, <2>2 DEF OriginsHold
<1> QED BY <1>5, <1>6, <1>7, <1>8 DEF AccountsInv

LEMMA AccountsInvariant == AccountsSpec => []AccountsInv
<1>1. AccountsInit => AccountsInv
  BY AccountsInitially
<1>2. AccountsInv /\ [AccountsNext]_vars => AccountsInv'
  BY AccountsStep
<1> QED BY <1>1, <1>2, PTL DEF AccountsSpec

-----------------------------------------------------------------------------
\* Tables and requests hold what their columns and code admit, at most one invite is
\* pending for an address, and nobody is a member without an account.
THEOREM AccountsTypeCorrect == AccountsSpec => []AccountsTypeOK
<1>1. ASSUME AccountsInv
      PROVE  AccountsTypeOK
  <2>1. ASSUME NEW p \in People
        PROVE  Cardinality(Pending(p)) <= 1
    <3>1. CASE Pending(p) = {}
      BY <3>1, FS_EmptySet
    <3>2. CASE Pending(p) # {}
      <4>1. PICK i : i \in Pending(p)
        BY <3>2
      <4>2. Pending(p) = {i}
        BY <1>1, <4>1 DEF Pending, AccountsInv, InviteSide, InvitesHold
      <4> QED BY <4>2, FS_Singleton
    <3> QED BY <3>1, <3>2
  <2>2. InvitesTypeOK
    BY <1>1, <2>1 DEF InvitesTypeOK, AccountsInv, InviteSide, InviteTables, MemberSide,
                      AccountSide, AccountTables
  <2> QED BY <1>1, <2>2 DEF AccountsTypeOK, AccountsInv, AccountSide, AccountTables, MembersHold
<1> QED BY <1>1, AccountsInvariant, PTL

\* A membership has exactly one origin: an acceptance in the audit log, a
\* registration, a bootstrap or an entry, although no request locks anything.
THEOREM OneOrigin == AccountsSpec => []MembershipsHaveOneOrigin
<1>1. ASSUME AccountsInv
      PROVE  MembershipsHaveOneOrigin
  <2> SUFFICES ASSUME NEW p \in People
               PROVE  Cardinality(AcceptancesOf(p)) + Cardinality(JoinsOf(p))
                      = IF members[p].status = "absent" THEN 0 ELSE 1
    BY DEF MembershipsHaveOneOrigin, JoinsOf
  <2>1. \/ members[p].status = "absent" /\ AcceptancesOf(p) = {} /\ JoinsOf(p) = {}
        \/ /\ members[p].status # "absent"
           /\ \/ JoinsOf(p) = {} /\ \E e \in AcceptancesOf(p) : AcceptancesOf(p) = {e}
              \/ AcceptancesOf(p) = {} /\ \E j \in JoinsOf(p) : JoinsOf(p) = {j}
    BY <1>1 DEF AccountsInv, OriginsHold
  <2>3. CASE members[p].status = "absent" /\ AcceptancesOf(p) = {} /\ JoinsOf(p) = {}
    BY <2>3, FS_EmptySet
  <2>4. CASE /\ members[p].status # "absent" /\ JoinsOf(p) = {}
             /\ \E e \in AcceptancesOf(p) : AcceptancesOf(p) = {e}
    <3>1. PICK e : AcceptancesOf(p) = {e}
      BY <2>4
    <3>2. Cardinality(AcceptancesOf(p)) = 1 /\ Cardinality(JoinsOf(p)) = 0
      BY <2>4, <3>1, FS_EmptySet, FS_Singleton
    <3> QED BY <2>4, <3>2
  <2>5. CASE /\ members[p].status # "absent" /\ AcceptancesOf(p) = {}
             /\ \E j \in JoinsOf(p) : JoinsOf(p) = {j}
    <3>1. PICK j : JoinsOf(p) = {j}
      BY <2>5
    <3>2. Cardinality(JoinsOf(p)) = 1 /\ Cardinality(AcceptancesOf(p)) = 0
      BY <2>5, <3>1, FS_EmptySet, FS_Singleton
    <3> QED BY <2>5, <3>2
  <2> QED BY <2>1, <2>3, <2>4, <2>5
<1> QED BY <1>1, AccountsInvariant, PTL

\* An invite that somebody was told is accepted or revoked is neither accepted nor
\* revoked by a request that begins later.
THEOREM LateUseIsRefused == AccountsSpec => []LateUseRefused
<1>1. AccountsInv => LateUseRefused
  BY DEF AccountsInv, InviteSide, LateUseHolds
<1> QED BY <1>1, AccountsInvariant, PTL

\* Into an organization that was founded comes its founder, who was invited, and who
\* registered when there was no organization to be counted.
THEOREM UninvitedAreOut == AccountsSpec => []UninvitedStayOut
<1>1. AccountsInv => UninvitedStayOut
  BY DEF AccountsInv, AccountSide, JoinedHold, UninvitedStayOut
<1> QED BY <1>1, AccountsInvariant, PTL

\* There is an administrator as soon as there is an account, however the first
\* registrations and a bootstrap interleave.
THEOREM AnAdminExists == AccountsSpec => []SomebodyIsAdmin
<1>1. AccountsInv => SomebodyIsAdmin
  BY DEF AccountsInv, AccountSide
<1> QED BY <1>1, AccountsInvariant, PTL

\* No invite, registration, bootstrap, entry or change brings a deactivated member back.
LEMMA NobodyComesBack ==
    ASSUME AccountsInv, [AccountsNext]_vars, NEW p \in People, members[p].status = "inactive"
    PROVE  members'[p].status = "inactive"
<1> USE DEF AccountsInv
<1>1. members \in [People -> MemberRows]
  BY DEF MemberSide, MembershipTypeOK
<1>2. ASSUME NEW n \in Newcomers, NEW s, Joins(n, s),
             newcomers[n].into = "first" => members[newcomers[n].who].status = "absent"
      PROVE  members'[p].status = "inactive"
  <2>1. organization # None
    BY DEF AccountSide, MembersHold
  <2>2. newcomers[n].into = "first" => newcomers[n].who # p
    BY <1>2
  <2> QED BY <1>1, <1>2, <2>1, <2>2 DEF Joins
<1>3. ASSUME NEW n \in Newcomers, CommitMembership(n)
      PROVE  members'[p].status = "inactive"
  <2>1. newcomers[n].into = "first" /\ ~Collides(n) => members[newcomers[n].who].status = "absent"
    BY DEF Collides
  <2> QED BY <1>2, <1>3, <2>1 DEF CommitMembership
<1>4. ASSUME NEW n \in Newcomers, CommitBootstrap(n)
      PROVE  members'[p].status = "inactive"
  <2>1. newcomers[n].into = "none"
    BY <1>4 DEF CommitBootstrap, AccountSide, NewcomerHolds
  <2> QED BY <1>2, <1>4, <2>1 DEF CommitBootstrap
<1>5. CASE InviteStep
  <2>1. \/ UNCHANGED members
        \/ \E i \in Invites, r \in InviteRequests : Accepted(i, r)
    BY <1>5, InviteStepCases DEF AccountSide
  <2>2. ASSUME NEW i \in Invites, NEW r \in InviteRequests, Accepted(i, r)
        PROVE  members'[p].status = "inactive"
    <3>1. invites[i].email # p
      BY <2>2 DEF Accepted
    <3> QED BY <1>1, <2>2, <3>1 DEF Accepted
  <2> QED BY <2>1, <2>2
<1>6. CASE MembershipStep
  BY <1>6, MembershipStepKept
<1>7. CASE UNCHANGED vars
  BY <1>7 DEF vars, membershipVars
<1>8. CASE \E n \in Following(Newcomers, newcomers) : NewcomerArrives(n)
  BY <1>8 DEF NewcomerArrives, LoadRegister, LoadBootstrap, LoadEnter, membershipVars
<1>9. CASE NewcomerProceeds
  <2>1. PICK n \in Newcomers :
           \/ CommitUser(n) \/ CountOrganizations(n) \/ FindOrganization(n)
           \/ CommitMembership(n) \/ AuditRegister(n)
           \/ \E s \in Slugs : ChooseSlug(n, s)
           \/ CommitBootstrap(n) \/ FindDefault(n) \/ FailNewcomer(n)
    BY <1>9 DEF NewcomerProceeds
  <2>2. CASE CommitMembership(n) \/ CommitBootstrap(n)
    BY <1>3, <1>4, <2>2
  <2>3. CASE \/ CommitUser(n) \/ CountOrganizations(n) \/ FindOrganization(n)
             \/ AuditRegister(n) \/ \E s \in Slugs : ChooseSlug(n, s)
             \/ FindDefault(n) \/ FailNewcomer(n)
    <3>1. UNCHANGED members
      BY <2>3 DEF CommitUser, CountOrganizations, FindOrganization, AuditRegister, ChooseSlug,
                  FindDefault, FailNewcomer, membershipVars
    <3> QED BY <3>1
  <2> QED BY <2>1, <2>2, <2>3
<1> QED BY <1>5, <1>6, <1>7, <1>8, <1>9 DEF AccountsNext

\* A deactivated member stays deactivated, whatever requests overlap.
THEOREM DeactivatedMembersStay == AccountsSpec => DeactivationIsFinal
<1>1. AccountsInv /\ [AccountsNext]_vars
      => [\A p \in People : members[p].status = "inactive"
                            => members'[p].status = "inactive"]_membershipVars
  BY NobodyComesBack
<1> QED BY <1>1, AccountsInvariant, PTL DEF AccountsSpec, DeactivationIsFinal
=============================================================================
