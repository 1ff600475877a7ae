----------------------------- MODULE Accounts ------------------------------
(***************************************************************************)
(* How accounts, organizations and memberships come to be, beside the      *)
(* invites of module Invites: the first registrations (services/users.py), *)
(* the bootstrap of an organization (services/organizations.py) and the    *)
(* automatic membership of the default organization outside production     *)
(* (require_org_member of core/security.py).                               *)
(*                                                                         *)
(* Each counts users or organizations in one statement, decides, and       *)
(* writes in a later transaction; a registration makes three of them.      *)
(* Nothing is locked: the unique address of a user, the unique slug of an  *)
(* organization and the unique membership of a user in an organization are *)
(* all that stands between two requests that overlap.                      *)
(*                                                                         *)
(* The table members is that of the organization committed first; what     *)
(* happens inside a further one, beside its founder, is left out.          *)
(***************************************************************************)
EXTENDS Invites

CONSTANTS
    Default,       \* the slug "default-organization"
    Slugs,         \* the slugs an organization can have
    Production,    \* settings.is_production
    Newcomers,     \* requests that register, bootstrap or enter
    MaxRequests    \* bound: how many requests are made in all

VARIABLES
    roles,         \* roles[p]: the role in p's row of users
    organization,  \* the slug of the organization of members
    others,        \* others[p]: the slug of a further organization p founded
    newcomers,     \* newcomers[n]: where request n is
    joined         \* history: who became a member other than by an invite

accountVars == <<roles, organization, others, newcomers, joined>>
vars == <<membershipVars, inviteVars, accountVars>>

ASSUME AccountsAssumption ==
    /\ Default \in Slugs /\ None \notin Slugs
    /\ "agent_owner" \in Roles
    /\ Production \in BOOLEAN
    /\ MaxRequests \in Nat

\* role: the role of the account, or of the membership, to be inserted.
\* counted: how many organizations it counted.  into: "new" for the default
\* organization it has inserted itself.  slug: that of the bootstrap.
NewcomerStates ==
    [pc : {"idle", "counted", "created", "finding", "joining", "joined",
           "done", "refused", "failed"},
     kind : {"none", "register", "bootstrap", "enter"},
     who : People \cup {None}, role : Roles \cup {None},
     counted : 0..(Cardinality(People) + 1),
     into : {"none", "new", "first"}, slug : Slugs \cup {None}]

IdleNewcomer ==
    [pc |-> "idle", kind |-> "none", who |-> None, role |-> None, counted |-> 0,
     into |-> "none", slug |-> None]

\* An empty database, or an organization with its members.
AccountsInit ==
    /\ InvitesInit \/ (/\ members = [p \in People |-> [status |-> "absent", role |-> None]]
                       /\ changes = [c \in Changes |-> IdleChange]
                       /\ trail = {} /\ users = {}
                       /\ invites = [i \in Invites |-> NoInvite]
                       /\ inviteRequests = [r \in InviteRequests |-> IdleInviteRequest])
    /\ organization \in IF users = {} THEN {None} ELSE Slugs
    /\ roles = [p \in People |-> CASE p \notin users -> None
                                   [] members[p].role # None -> members[p].role
                                   [] OTHER -> "agent_owner"]
    /\ others = [p \in People |-> None]
    /\ newcomers = [n \in Newcomers |-> IdleNewcomer]
    /\ joined = {[who |-> p, by |-> None] : p \in {q \in People : members[q].status # "absent"}}

\* count_active_organizations: organizations are never deleted.
Organizations == IF organization = None THEN 0
                 ELSE 1 + Cardinality({p \in People : others[p] # None})

SlugTaken(s) == organization = s \/ \E p \in People : others[p] = s

Steps(n, fields) == newcomers' = [newcomers EXCEPT ![n] = With(@, fields)]

\* The row of the request's person is inserted in users.
InsertsUser(n) ==
    /\ users' = users \cup {newcomers[n].who}
    /\ roles' = [roles EXCEPT ![newcomers[n].who] = newcomers[n].role]

\* A membership of the first organization, or of a further one with slug s.
Joins(n, s) ==
    LET p == newcomers[n].who IN
    IF organization = None \/ newcomers[n].into = "first"
    THEN /\ members' = [members EXCEPT ![p] = [status |-> "active",
                                               role |-> newcomers[n].role]]
         /\ organization' = IF organization = None THEN s ELSE organization
         /\ joined' = joined \cup {[who |-> p, by |-> n]}
         /\ UNCHANGED others
    ELSE /\ others' = [others EXCEPT ![p] = s]
         /\ UNCHANGED <<members, organization, joined>>

-----------------------------------------------------------------------------
\* Variant: the first registration of an organization is the administrator's.
FirstOfOrganization == organization # None /\ \A p \in People : members[p].status = "absent"

\* count_users(db) == 0
IsFirstUser == users = {}

\* register_user, up to the transaction of the user.
LoadRegister(n, p) ==
    /\ newcomers[n].pc = "idle"
    /\ IF p \in users
       THEN Steps(n, [pc |-> "refused", kind |-> "register"])
       ELSE Steps(n, [pc |-> "counted", kind |-> "register", who |-> p,
                      role |-> IF IsFirstUser THEN "admin" ELSE "agent_owner"])
    /\ UNCHANGED <<membershipVars, inviteVars, roles, organization, others, joined>>

CommitUser(n) ==
    /\ newcomers[n].pc = "counted" /\ newcomers[n].kind = "register"
    /\ IF newcomers[n].who \in users
       THEN Steps(n, [pc |-> "failed"]) /\ UNCHANGED <<users, roles>>
       ELSE Steps(n, [pc |-> "created"]) /\ InsertsUser(n)
    /\ UNCHANGED <<membershipVars, invites, inviteRequests, organization, others, joined>>

\* More than one organization: the account stays without a membership.
CountOrganizations(n) ==
    /\ newcomers[n].pc = "created"
    /\ Steps(n, [pc |-> IF Organizations <= 1 THEN "finding" ELSE "joined",
                 counted |-> Organizations])
    /\ UNCHANGED <<membershipVars, inviteVars, roles, organization, others, joined>>

\* Variant: the slug of the only organization is not looked at.
PlaceAnywhere(n) == TRUE

\* A registration that counted one organization joins it when it is the
\* default one; a registration that counted none does not look.
Places(n) == newcomers[n].counted = 0 \/ organization = Default

\* get_current_organization_id for a registration: it reads the table again.
FindOrganization(n) ==
    /\ newcomers[n].pc = "finding" /\ newcomers[n].kind = "register"
    /\ CASE Organizations = 0 -> Steps(n, [pc |-> "joining", into |-> "new"])
         [] Organizations = 1 /\ Places(n) -> Steps(n, [pc |-> "joining", into |-> "first"])
         [] Organizations = 1 /\ ~Places(n) -> Steps(n, [pc |-> "joined"])
         [] OTHER -> Steps(n, [pc |-> "failed"])
    /\ UNCHANGED <<membershipVars, inviteVars, roles, organization, others, joined>>

\* Variant: no constraint on memberships.
NothingCollides(n) == newcomers[n].into = "new" /\ SlugTaken(Default)

\* The two constraints that can end the insertion of a membership.
Collides(n) ==
    IF newcomers[n].into = "new" THEN SlugTaken(Default)
    ELSE members[newcomers[n].who].status # "absent"

\* The membership, and the default organization when it is new, in one
\* transaction.  A registration goes on to its audit row.
CommitMembership(n) ==
    /\ newcomers[n].pc = "joining"
    /\ IF Collides(n)
       THEN /\ Steps(n, [pc |-> "failed"])
            /\ UNCHANGED <<members, organization, others, joined>>
       ELSE /\ Joins(n, Default)
            /\ Steps(n, [pc |-> IF newcomers[n].kind = "register" THEN "joined" ELSE "done"])
    /\ UNCHANGED <<changes, trail, inviteVars, roles>>

AuditRegister(n) ==
    /\ newcomers[n].pc = "joined"
    /\ trail' = trail \cup {[action |-> "registered", by |-> n, about |-> newcomers[n].who]}
    /\ Steps(n, [pc |-> "done"])
    /\ UNCHANGED <<members, changes, inviteVars, roles, organization, others, joined>>

-----------------------------------------------------------------------------
\* bootstrap_organization: there must be no organization and no such account.
LoadBootstrap(n, p) ==
    /\ newcomers[n].pc = "idle"
    /\ IF Organizations > 0 \/ p \in users
       THEN Steps(n, [pc |-> "refused", kind |-> "bootstrap"])
       ELSE Steps(n, [pc |-> "counted", kind |-> "bootstrap", who |-> p, role |-> "admin"])
    /\ UNCHANGED <<membershipVars, inviteVars, roles, organization, others, joined>>

\* available_slug: of whatever name, one that is free now.
ChooseSlug(n, s) ==
    /\ newcomers[n].pc = "counted" /\ newcomers[n].kind = "bootstrap"
    /\ newcomers[n].slug = None
    /\ ~SlugTaken(s)
    /\ Steps(n, [slug |-> s])
    /\ UNCHANGED <<membershipVars, inviteVars, roles, organization, others, joined>>

\* Organization, account, membership and audit rows are one transaction, and
\* a constraint that fails refuses them all.
CommitBootstrap(n) ==
    /\ newcomers[n].pc = "counted" /\ newcomers[n].slug # None
    /\ IF newcomers[n].who \in users \/ SlugTaken(newcomers[n].slug)
       THEN /\ Steps(n, [pc |-> "refused"])
            /\ UNCHANGED <<members, trail, users, roles, organization, others, joined>>
       ELSE /\ InsertsUser(n)
            /\ Joins(n, newcomers[n].slug)
            /\ trail' = trail \cup
                 {[action |-> "bootstrapped", by |-> n, about |-> newcomers[n].who]}
            /\ Steps(n, [pc |-> "done"])
    /\ UNCHANGED <<changes, invites, inviteRequests>>

-----------------------------------------------------------------------------
ActiveMemberships(p) ==
    (IF members[p].status = "active" THEN 1 ELSE 0) + (IF others[p] # None THEN 1 ELSE 0)

\* require_org_member: whoever has exactly one active membership is let in.
LoadEnter(n, p) ==
    /\ newcomers[n].pc = "idle"
    /\ p \in users
    /\ Steps(n, [pc |-> CASE ActiveMemberships(p) = 1 -> "done"
                          [] ActiveMemberships(p) # 1 /\ ~Production
                                /\ Organizations <= 1 -> "finding"
                          [] OTHER -> "refused",
                 kind |-> "enter", who |-> p, role |-> roles[p]])
    /\ UNCHANGED <<membershipVars, inviteVars, roles, organization, others, joined>>

\* get_current_organization_id, then the slug and the membership of the user.
FindDefault(n) ==
    LET p == newcomers[n].who IN
    /\ newcomers[n].pc = "finding" /\ newcomers[n].kind = "enter"
    /\ CASE Organizations = 0 -> Steps(n, [pc |-> "joining", into |-> "new"])
         [] Organizations = 1 ->
               Steps(n, IF organization = Default /\ members[p].status = "absent"
                        THEN [pc |-> "joining", into |-> "first"]
                        ELSE [pc |-> "refused"])
         [] OTHER -> Steps(n, [pc |-> "failed"])
    /\ UNCHANGED <<membershipVars, inviteVars, roles, organization, others, joined>>

\* An exception or a dead process; what is committed stays.
FailNewcomer(n) ==
    /\ newcomers[n].pc \in {"counted", "created", "finding", "joining", "joined"}
    /\ Steps(n, [pc |-> "failed"])
    /\ UNCHANGED <<membershipVars, inviteVars, roles, organization, others, joined>>

NewcomerArrives(n) ==
    \E p \in People : LoadRegister(n, p) \/ LoadBootstrap(n, p) \/ LoadEnter(n, p)

NewcomerProceeds ==
    \E n \in Newcomers :
        \/ CommitUser(n) \/ CountOrganizations(n) \/ FindOrganization(n)
        \/ CommitMembership(n) \/ AuditRegister(n)
        \/ \E s \in Slugs : ChooseSlug(n, s)
        \/ CommitBootstrap(n)
        \/ FindDefault(n)
        \/ FailNewcomer(n)

\* Requests that have not begun differ in nothing, so any of them is next.
Waiting(S, table) == {r \in S : table[r].pc = "idle"}
Following(S, table) ==
    IF Waiting(S, table) = {} THEN {} ELSE {CHOOSE r \in Waiting(S, table) : TRUE}

Begun == Cardinality(Newcomers \ Waiting(Newcomers, newcomers))
         + Cardinality(InviteRequests \ Waiting(InviteRequests, inviteRequests))
         + Cardinality(Changes \ Waiting(Changes, changes))

\* An administrator with a second membership is no longer let in, and manages
\* neither invites nor members.
LetIn(p) == ActiveMemberships(p) = 1

InviteStep ==
    /\ \/ /\ Begun < MaxRequests
          /\ \E r \in Following(InviteRequests, inviteRequests) :
                /\ InviteArrives(r)
                /\ inviteRequests'[r].kind \in {"create", "revoke"}
                   => \E p \in ActiveAdmins : LetIn(p)
       \/ InviteProceeds
    \* An acceptance creates its account as an agent owner.
    /\ roles' = [p \in People |-> IF p \in users' \ users THEN "agent_owner" ELSE roles[p]]
    /\ UNCHANGED <<organization, others, newcomers, joined>>

\* A transaction that is cancelled ends like one that fails.
MembershipStep ==
    /\ \/ /\ Begun < MaxRequests
          /\ \E c \in Following(Changes, changes), p \in People :
                LetIn(p) /\ Authorize(c, p)
       \/ \E c \in Changes : Proceed(c) \/ FailChange(c)
    /\ UNCHANGED <<inviteVars, accountVars>>

AccountsNext ==
    \/ /\ Begun < MaxRequests
       /\ \E n \in Following(Newcomers, newcomers) : NewcomerArrives(n)
    \/ NewcomerProceeds
    \/ InviteStep
    \/ MembershipStep

AccountsSpec == AccountsInit /\ [][AccountsNext]_vars

-----------------------------------------------------------------------------
\* Tables and requests hold what their columns and code admit, and nobody is
\* a member of what does not exist or without an account.
AccountsTypeOK ==
    /\ InvitesTypeOK
    /\ roles \in [People -> Roles \cup {None}]
    /\ organization \in Slugs \cup {None}
    /\ others \in [People -> Slugs \cup {None}]
    /\ newcomers \in [Newcomers -> NewcomerStates]
    /\ \A p \in People :
          /\ roles[p] # None <=> p \in users
          /\ members[p].status # "absent" => p \in users /\ organization # None

\* Whatever requests overlap, are repeated or fail half way, a membership has
\* exactly one origin: an acceptance on record, a registration, a bootstrap
\* or an entry.
MembershipsHaveOneOrigin ==
    \A p \in People :
        Cardinality(AcceptancesOf(p)) + Cardinality({j \in joined : j.who = p})
        = IF members[p].status = "absent" THEN 0 ELSE 1

\* Nobody gets into an organization that was founded, other than its founder
\* and who was invited, but a registration that counted the organizations
\* before the first of them was committed.
UninvitedStayOut ==
    organization # Default =>
        \A j \in joined : \/ j.by = None
                          \/ newcomers[j.by].kind = "bootstrap"
                          \/ newcomers[j.by].counted = 0 /\ newcomers[j.by].kind = "register"

\* As soon as there are accounts one of them is an administrator's, however
\* the first registrations and a bootstrap interleave.
SomebodyIsAdmin == users # {} => \E p \in People : roles[p] = "admin"
=============================================================================
