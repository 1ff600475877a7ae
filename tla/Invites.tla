------------------------------ MODULE Invites ------------------------------
(***************************************************************************)
(* Invitations to an organization: services/organization_invites.py over   *)
(* the memberships of module Membership.  An invite is created, revoked or *)
(* accepted by a request that loads what it checks and writes it in one    *)
(* later transaction.  No row is locked and no status is compared by the   *)
(* UPDATE: what stands between two overlapping requests is the unique      *)
(* index on pending invites, the unique membership of a user in an         *)
(* organization and the unique address of a user.                          *)
(***************************************************************************)
EXTENDS Membership

CONSTANTS
    InitialUsers,     \* the people with an account at the start, members or not
    Invites,
    InviteRequests    \* the requests made of /organization-invites

VARIABLES
    invites,          \* organization_invites
    users,            \* the people with a row in users
    inviteRequests    \* inviteRequests[r]: where request r is

inviteVars == <<invites, users, inviteRequests>>

InviteStatuses == {"absent", "pending", "accepted", "expired", "revoked"}

InviteRows == [status : InviteStatuses, email : People \cup {None},
               role : Roles \cup {None},
               due : BOOLEAN]    \* expires_at <= now

NoInvite == [status |-> "absent", email |-> None, role |-> None, due |-> FALSE]

\* invite: the one to revoke or accept, or the expired one a creation found.
\* wants: the status the request is about to write on it.
\* after: the requests that had been answered when this one loaded its rows.
InviteRequestStates ==
    [pc : {"idle", "loaded", "done", "refused", "failed"},
     kind : {"none", "create", "revoke", "accept"},
     invite : Invites \cup {None}, email : People \cup {None}, role : Roles \cup {None},
     wants : {"none", "accepted", "expired", "revoked"},
     newUser : BOOLEAN,
     after : SUBSET InviteRequests]

IdleInviteRequest ==
    [pc |-> "idle", kind |-> "none", invite |-> None, email |-> None, role |-> None,
     wants |-> "none", newUser |-> FALSE, after |-> {}]

InviteEvent(action, r, i) == [action |-> action, by |-> r, about |-> i]

InitialPeople == {p \in People : InitialMembers[p].status # "absent"}

ASSUME InvitesAssumption ==
    /\ InitialPeople \subseteq InitialUsers /\ InitialUsers \subseteq People
    /\ None \notin Invites

InvitesInit ==
    /\ MembershipInit
    /\ invites = [i \in Invites |-> NoInvite]
    /\ users = InitialUsers
    /\ inviteRequests = [r \in InviteRequests |-> IdleInviteRequest]

AnsweredInviteRequests ==
    {r \in InviteRequests : inviteRequests[r].pc \in {"done", "refused", "failed"}}

\* A record with the given fields replaced.
With(record, fields) ==
    [f \in DOMAIN record |-> IF f \in DOMAIN fields THEN fields[f] ELSE record[f]]

\* Request r has loaded its rows; fields: what it keeps of them.
Loads(r, pc, fields) ==
    /\ inviteRequests[r].pc = "idle"
    /\ inviteRequests' = [inviteRequests EXCEPT ![r] =
         With([IdleInviteRequest EXCEPT !.pc = pc, !.after = AnsweredInviteRequests], fields)]
    /\ UNCHANGED <<membershipVars, invites, users>>

Answers(r, pc) == inviteRequests' = [inviteRequests EXCEPT ![r].pc = pc]

Pending(email) == {i \in Invites : invites[i].status = "pending" /\ invites[i].email = email}

\* create_invite, up to its transaction: a pending invite in force refuses it.
LoadCreate(r, email, role) ==
    /\ ActiveAdmins # {}
    /\ IF \E i \in Pending(email) : ~invites[i].due
       THEN Loads(r, "refused", [kind |-> "create"])
       ELSE \E i \in IF Pending(email) = {} THEN {None} ELSE Pending(email) :
               Loads(r, "loaded", [kind |-> "create", invite |-> i, email |-> email,
                                   role |-> role, wants |-> "expired"])

\* Variant: without the partial unique index.
NoIndexOnPending(r) == FALSE

\* ix_organization_invites_unique_pending_email, once the expired one is marked.
AnotherIsPending(r) == Pending(inviteRequests[r].email) \ {inviteRequests[r].invite} # {}

\* The expired invite is marked and the new row inserted, unless the index
\* refuses it: then nothing is kept.
CommitCreate(r, i) ==
    LET q == inviteRequests[r] IN
    /\ q.pc = "loaded" /\ q.kind = "create"
    /\ invites[i].status = "absent"
    /\ IF AnotherIsPending(r)
       THEN Answers(r, "refused") /\ UNCHANGED <<invites, trail>>
       ELSE /\ invites' = [j \in Invites |->
                 CASE j = i -> [status |-> "pending", email |-> q.email,
                                role |-> q.role, due |-> FALSE]
                   [] j = q.invite -> [invites[j] EXCEPT !.status = "expired"]
                   [] OTHER -> invites[j]]
            /\ trail' = trail \cup {InviteEvent("invited", r, i)}
            /\ Answers(r, "done")
    /\ UNCHANGED <<members, changes, users>>

\* revoke_invite, up to its transaction.
LoadRevoke(r, i) ==
    /\ ActiveAdmins # {}
    /\ invites[i].status # "absent"
    /\ IF invites[i].status = "pending"
       THEN Loads(r, "loaded", [kind |-> "revoke", invite |-> i, wants |->
                                IF invites[i].due THEN "expired" ELSE "revoked"])
       ELSE Loads(r, "refused", [kind |-> "revoke", invite |-> i])

\* An invite that was found expired is marked so, and the request refused.
CommitRevoke(r) ==
    LET q == inviteRequests[r] IN
    /\ q.pc = "loaded" /\ q.kind = "revoke"
    /\ invites' = [invites EXCEPT ![q.invite].status = q.wants]
    /\ IF q.wants = "revoked"
       THEN /\ trail' = trail \cup {InviteEvent("revoked", r, q.invite)}
            /\ Answers(r, "done")
       ELSE /\ Answers(r, "refused")
            /\ UNCHANGED trail
    /\ UNCHANGED <<members, changes, users>>

\* Variant: an invite that is not in force is looked up by its token alone.
LoadAnyAccept(r, i) ==
    /\ invites[i].status # "absent"
    /\ members[invites[i].email].status # "active"
    /\ Loads(r, "loaded", [kind |-> "accept", invite |-> i, wants |-> "accepted",
                           newUser |-> invites[i].email \notin users])

\* accept_invite, up to its transaction.
LoadAccept(r, i) ==
    /\ invites[i].status # "absent"
    /\ IF /\ invites[i].status = "pending" /\ ~invites[i].due
          /\ members[invites[i].email].status # "active"
       THEN Loads(r, "loaded", [kind |-> "accept", invite |-> i, wants |-> "accepted",
                                newUser |-> invites[i].email \notin users])
       ELSE Loads(r, "refused", [kind |-> "accept", invite |-> i])

\* Variant: a deactivated member who accepts an invite is made active again.
MembershipIsActive(r) == members[invites[inviteRequests[r].invite].email].status = "active"

\* The two constraints that end an acceptance in IntegrityError.
UserExists(r) ==
    inviteRequests[r].newUser /\ invites[inviteRequests[r].invite].email \in users
MembershipExists(r) == members[invites[inviteRequests[r].invite].email].status # "absent"

Admits(r) ==
    LET i == inviteRequests[r].invite IN
    /\ users' = users \cup {invites[i].email}
    /\ members' = [members EXCEPT ![invites[i].email] =
                     [status |-> "active", role |-> invites[i].role]]
    /\ invites' = [invites EXCEPT ![i].status = "accepted"]
    /\ trail' = trail \cup {InviteEvent("accepted", r, i)}
    /\ Answers(r, "done")

\* User, membership, invite and audit rows are one transaction.
CommitAccept(r) ==
    /\ inviteRequests[r].pc = "loaded" /\ inviteRequests[r].kind = "accept"
    /\ IF UserExists(r) \/ MembershipExists(r)
       THEN Answers(r, "refused") /\ UNCHANGED <<members, invites, users, trail>>
       ELSE Admits(r)
    /\ UNCHANGED changes

\* An exception or a dead process between the two steps: nothing is written.
FailInviteRequest(r) ==
    /\ inviteRequests[r].pc = "loaded"
    /\ Answers(r, "failed")
    /\ UNCHANGED <<membershipVars, invites, users>>

\* Time passes expires_at.
InviteLapses(i) ==
    /\ invites[i].status = "pending" /\ ~invites[i].due
    /\ invites' = [invites EXCEPT ![i].due = TRUE]
    /\ UNCHANGED <<membershipVars, users, inviteRequests>>

\* Request r arrives: the loads of the three handlers.
InviteArrives(r) ==
    \/ \E email \in People, role \in Roles : LoadCreate(r, email, role)
    \/ \E i \in Invites : LoadRevoke(r, i) \/ LoadAccept(r, i)

InviteProceeds ==
    \/ \E r \in InviteRequests :
          \/ \E i \in Invites : CommitCreate(r, i)
          \/ CommitRevoke(r)
          \/ CommitAccept(r)
          \/ FailInviteRequest(r)
    \/ \E i \in Invites : InviteLapses(i)

-----------------------------------------------------------------------------
\* Tables and requests hold what their columns and code admit, and at most
\* one pending invite exists for an address.
InvitesTypeOK ==
    /\ MembershipTypeOK
    /\ invites \in [Invites -> InviteRows]
    /\ users \subseteq People
    /\ inviteRequests \in [InviteRequests -> InviteRequestStates]
    /\ \A p \in People : Cardinality(Pending(p)) <= 1

\* The acceptances on record that made p a member.
AcceptancesOf(p) == {e \in trail : e.action = "accepted" /\ invites[e.about].email = p}

Succeeded(r, i) ==
    /\ inviteRequests[r].pc = "done" /\ inviteRequests[r].invite = i
    /\ inviteRequests[r].kind \in {"accept", "revoke"}

\* Once a request has been told that an invite was accepted or revoked, a
\* request that begins later can neither accept nor revoke it.
LateUseRefused ==
    \A r, q \in InviteRequests, i \in Invites :
        ~(Succeeded(r, i) /\ Succeeded(q, i) /\ q \in inviteRequests[r].after)
=============================================================================
