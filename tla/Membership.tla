---------------------------- MODULE Membership -----------------------------
(***************************************************************************)
(* The members of one organization: update_user of services/users.py, the  *)
(* handler of PATCH /users/{id} and of POST /users/{id}/deactivate.        *)
(*                                                                         *)
(* A change is authorized, loads the row of its target, and, when the row  *)
(* it LOADED is an administrator that would stop being one, locks every    *)
(* active administrator (SELECT ... FOR UPDATE) and counts them.  Only     *)
(* then is the row written.  PostgreSQL at READ COMMITTED: the locking     *)
(* query fixes the rows it will visit when it starts, waits for the ones   *)
(* others hold, re-evaluates its WHERE clause on each, and keeps its locks *)
(* until the transaction ends.  It has no ORDER BY, so two of them may     *)
(* wait for each other, and the server then cancels one.                   *)
(*                                                                         *)
(* The ORM writes the attributes that differ from the ones it loaded; the  *)
(* rest of the row keeps whatever others have committed meanwhile.         *)
(***************************************************************************)
EXTENDS FiniteSets, Integers

CONSTANTS
    None,
    People,          \* users, by their address
    Roles,           \* UserRole; "admin" alone has MANAGE_MEMBERS
    Changes,         \* the requests that change a member
    InitialMembers   \* the rows of organization_memberships at the start

VARIABLES
    members,   \* members[p]: the row of person p in the organization
    changes,   \* changes[c]: where request c is and what its session holds
    trail      \* audit_logs

membershipVars == <<members, changes, trail>>

ASSUME MembershipAssumption ==
    /\ IsFiniteSet(People)
    /\ "admin" \in Roles
    /\ None \notin People /\ None \notin Roles
    /\ InitialMembers \in [People -> [status : {"absent", "active", "inactive"},
                                      role : Roles \cup {None}]]
    /\ \A p \in People :
          InitialMembers[p].role = None <=> InitialMembers[p].status = "absent"
    /\ \E p \in People : InitialMembers[p] = [status |-> "active", role |-> "admin"]

MemberRows == [status : {"absent", "active", "inactive"}, role : Roles \cup {None}]

\* seen: the role in the row as loaded.  role, deactivate: the body of the
\* request.  is_active = true is the same as leaving it out: the row was
\* loaded active, so the ORM has nothing to write.
ChangeStates ==
    [pc : {"idle", "authorized", "loaded", "locking", "checked", "saved",
           "done", "refused"},
     actor : People \cup {None}, target : People \cup {None},
     role : Roles \cup {None}, deactivate : BOOLEAN,
     seen : Roles \cup {None},
     wanted : SUBSET People,   \* rows the locking query has still to visit
     held : SUBSET People]     \* rows this transaction has locked

IdleChange == [pc |-> "idle", actor |-> None, target |-> None, role |-> None,
               deactivate |-> FALSE, seen |-> None, wanted |-> {}, held |-> {}]

\* The session of c is closed, which rolls back what it has not committed and
\* frees its locks: the answer is a success or an error.
Ends(c, pc) == changes' = [changes EXCEPT ![c] = [IdleChange EXCEPT !.pc = pc]]

\* Rows of audit_logs.
MemberEvent(action, c) == [action |-> action, by |-> c, about |-> changes[c].target]

MembershipInit ==
    /\ members = InitialMembers
    /\ changes = [c \in Changes |-> IdleChange]
    /\ trail = {}

IsActiveAdmin(p) == members[p] = [status |-> "active", role |-> "admin"]
ActiveAdmins == {p \in People : IsActiveAdmin(p)}

LockedByAnother(c, p) == \E d \in Changes \ {c} : p \in changes[d].held

\* require_org_permission(MANAGE_MEMBERS) reads the membership of the caller.
Authorize(c, p) ==
    /\ changes[c].pc = "idle"
    /\ IsActiveAdmin(p)
    /\ changes' = [changes EXCEPT ![c].pc = "authorized", ![c].actor = p]
    /\ UNCHANGED <<members, trail>>

\* The SELECT filters on the committed row, but a row the session has already
\* loaded, the caller's own, keeps the attributes of the first SELECT.
LoadMember(c, p, role, deactivate) ==
    /\ changes[c].pc = "authorized"
    /\ IF members[p].status = "active"
       THEN changes' = [changes EXCEPT ![c] =
              [IdleChange EXCEPT
                 !.pc = "loaded", !.target = p, !.role = role, !.deactivate = deactivate,
                 !.seen = IF p = changes[c].actor THEN "admin" ELSE members[p].role]]
       ELSE Ends(c, "refused")
    /\ UNCHANGED <<members, trail>>

\* What the request would take away from the row it loaded.
EndsAdmin(c) ==
    /\ changes[c].seen = "admin"
    /\ changes[c].role \notin {None, "admin"} \/ changes[c].deactivate

\* Variant: the row is checked without a lock.
LockNothing(c) ==
    /\ changes[c].pc = "loaded"
    /\ IF EndsAdmin(c) /\ Cardinality(ActiveAdmins) <= 1
       THEN Ends(c, "refused")
       ELSE changes' = [changes EXCEPT ![c].pc = "checked", ![c].held = {}]
    /\ UNCHANGED <<members, trail>>

LockAdmins(c) ==
    /\ changes[c].pc = "loaded"
    /\ changes' = [changes EXCEPT ![c] =
         IF EndsAdmin(c) THEN [@ EXCEPT !.pc = "locking", !.wanted = ActiveAdmins]
                         ELSE [@ EXCEPT !.pc = "checked"]]
    /\ UNCHANGED <<members, trail>>

LockRow(c, p) ==
    /\ changes[c].pc = "locking"
    /\ p \in changes[c].wanted
    /\ ~LockedByAnother(c, p)
    /\ changes' = [changes EXCEPT ![c].wanted = @ \ {p}, ![c].held = @ \cup {p}]
    /\ UNCHANGED <<members, trail>>

\* The rows the query returns: those it locked that are still administrators.
Counted(c) == {p \in changes[c].held : IsActiveAdmin(p)}

\* Variant: a refusal that leaves the transaction open.
RefuseAndKeepLocks(c) ==
    /\ changes[c].pc = "locking"
    /\ changes[c].wanted = {}
    /\ changes' = [changes EXCEPT ![c].pc = IF Cardinality(Counted(c)) <= 1
                                            THEN "refused" ELSE "checked"]
    /\ UNCHANGED <<members, trail>>

\* Variant: an administrator may go as long as there is one.
CheckAnyAdmin(c) ==
    /\ changes[c].pc = "locking"
    /\ changes[c].wanted = {}
    /\ IF Counted(c) = {} THEN Ends(c, "refused")
       ELSE changes' = [changes EXCEPT ![c].pc = "checked"]
    /\ UNCHANGED <<members, trail>>

\* Too few ends the request with LastOrganizationAdminError.
CheckLastAdmin(c) ==
    /\ changes[c].pc = "locking"
    /\ changes[c].wanted = {}
    /\ IF Cardinality(Counted(c)) <= 1 THEN Ends(c, "refused")
       ELSE changes' = [changes EXCEPT ![c].pc = "checked"]
    /\ UNCHANGED <<members, trail>>

\* The row as the UPDATE leaves it: only attributes that differ from the
\* loaded ones are in its SET clause.
NewRole(c) == IF changes[c].role \in {None, changes[c].seen}
              THEN members[changes[c].target].role ELSE changes[c].role
Writes(c) == changes[c].deactivate \/ changes[c].role \notin {None, changes[c].seen}

\* Variant: the row is written through a session of its own, which waits for
\* the locks of the one that checked it, too.
SaveInOwnSession(c) ==
    /\ changes[c].pc = "checked"
    /\ ~changes[c].deactivate
    /\ Writes(c) => \A d \in Changes : changes[c].target \notin changes[d].held
    /\ members' = [members EXCEPT ![changes[c].target].role = NewRole(c)]
    /\ changes' = [changes EXCEPT ![c] = [IdleChange EXCEPT !.pc = "saved",
                                                           !.target = changes[c].target]]
    /\ UNCHANGED trail

\* Variant: the UPDATE writes every column as the request loaded it.
SaveWholeRow(c) ==
    /\ changes[c].pc = "checked"
    /\ ~changes[c].deactivate
    /\ Writes(c) => ~LockedByAnother(c, changes[c].target)
    /\ members' = IF Writes(c)
                  THEN [members EXCEPT ![changes[c].target] =
                          [status |-> "active", role |-> changes[c].role]]
                  ELSE members
    /\ changes' = [changes EXCEPT ![c] = [IdleChange EXCEPT !.pc = "saved",
                                                           !.target = changes[c].target]]
    /\ UNCHANGED trail

\* A role change is committed before its audit row is written.
SaveRole(c) ==
    /\ changes[c].pc = "checked"
    /\ ~changes[c].deactivate
    /\ Writes(c) => ~LockedByAnother(c, changes[c].target)
    /\ members' = [members EXCEPT ![changes[c].target].role = NewRole(c)]
    /\ changes' = [changes EXCEPT ![c] = [IdleChange EXCEPT !.pc = "saved",
                                                           !.target = changes[c].target]]
    /\ UNCHANGED trail

AuditUpdate(c) ==
    /\ changes[c].pc = "saved"
    /\ trail' = trail \cup {MemberEvent("updated", c)}
    /\ Ends(c, "done")
    /\ UNCHANGED members

\* Variant: the deactivation is committed before its audit row is written.
DeactivateUnaudited(c) ==
    /\ changes[c].pc = "checked"
    /\ changes[c].deactivate
    /\ ~LockedByAnother(c, changes[c].target)
    /\ members' = [members EXCEPT ![changes[c].target] =
                     [status |-> "inactive", role |-> NewRole(c)]]
    /\ changes' = [changes EXCEPT ![c].pc = "saved", ![c].held = {}]
    /\ UNCHANGED trail

\* A deactivation and its audit row are one transaction.
Deactivate(c) ==
    /\ changes[c].pc = "checked"
    /\ changes[c].deactivate
    /\ ~LockedByAnother(c, changes[c].target)
    /\ members' = [members EXCEPT ![changes[c].target] =
                     [status |-> "inactive", role |-> NewRole(c)]]
    /\ trail' = trail \cup {MemberEvent("deactivated", c)}
    /\ Ends(c, "done")

\* An exception, a lost connection or a dead process.  What a "saved" request
\* has committed stays, without its audit row.
FailChange(c) ==
    /\ changes[c].pc \in {"authorized", "loaded", "locking", "checked", "saved"}
    /\ Ends(c, "refused")
    /\ UNCHANGED <<members, trail>>

\* The rows a request cannot go on without.
Awaited(c) ==
    CASE changes[c].pc = "locking" -> changes[c].wanted
      [] changes[c].pc = "checked" /\ Writes(c) -> {changes[c].target}
      [] OTHER -> {}

Blocked(c) == Awaited(c) # {} /\ \A p \in Awaited(c) : LockedByAnother(c, p)

\* Each member of the set waits for a row that another member holds.
Deadlocked(S) ==
    \A c \in S : /\ Blocked(c)
                 /\ \E d \in S \ {c} : changes[d].held \cap Awaited(c) # {}

\* PostgreSQL finds the cycle and cancels one of its transactions.
CancelDeadlocked(c) ==
    /\ \E S \in SUBSET Changes : c \in S /\ Deadlocked(S)
    /\ Ends(c, "refused")
    /\ UNCHANGED <<members, trail>>

\* What request c does by itself once it is authorized.
Proceed(c) ==
    \/ \E p \in People, role \in Roles \cup {None}, deactivate \in BOOLEAN :
          LoadMember(c, p, role, deactivate)
    \/ LockAdmins(c)
    \/ \E p \in People : LockRow(c, p)
    \/ CheckLastAdmin(c)
    \/ SaveRole(c)
    \/ AuditUpdate(c)
    \/ Deactivate(c)

MembershipNext ==
    \E c \in Changes : \/ \E p \in People : Authorize(c, p)
                       \/ Proceed(c)
                       \/ FailChange(c)
                       \/ CancelDeadlocked(c)

MembershipSpec == MembershipInit /\ [][MembershipNext]_membershipVars

\* A worker that runs a handler goes on with it, PostgreSQL cancels a
\* deadlocked transaction after deadlock_timeout, and nothing makes a client
\* start.
MembershipFairness ==
    \A c \in Changes : WF_membershipVars(Proceed(c) \/ CancelDeadlocked(c))

FairMembershipSpec == MembershipSpec /\ MembershipFairness

-----------------------------------------------------------------------------
\* Tables and requests hold what their columns and code admit; a request that
\* is not locking or about to write holds no lock.
MembershipTypeOK ==
    /\ members \in [People -> MemberRows]
    /\ changes \in [Changes -> ChangeStates]
    /\ \A c \in Changes : changes[c].held # {} => changes[c].pc \in {"locking", "checked"}

\* Two transactions never hold one row, and the rows a checked request
\* counted are still administrators when it writes, at least two of them.
LocksHold ==
    /\ \A c, d \in Changes : c # d => changes[c].held \cap changes[d].held = {}
    /\ \A c \in Changes : changes[c].pc = "checked" /\ EndsAdmin(c)
                          => Cardinality(Counted(c)) > 1

\* The organization loses its last active administrator only to a request
\* that loaded its target while the target was not one: every change that
\* knows it removes an administrator leaves another.
OnlyAStaleReadLosesTheAdmin ==
    [][ActiveAdmins # {} /\ ActiveAdmins' = {}
       => \E c \in Changes : /\ changes[c].pc = "checked"
                             /\ changes'[c].pc # "checked"
                             /\ changes[c].seen # "admin"]_membershipVars

\* A deactivated member is not brought back: not by requests that loaded the
\* row while it was active and write to it after the deactivation; nor, where
\* there are other ways in (module Accounts), by an invite to someone who was
\* deactivated, a registration or an entry.
DeactivationIsFinal ==
    [][\A p \in People : members[p].status = "inactive"
                         => members'[p].status = "inactive"]_membershipVars

\* Every member the requests have deactivated is deactivated in the audit
\* log, whatever fails.
DeactivationsAreAudited ==
    \A p \in People : members[p].status = "inactive" /\ InitialMembers[p].status # "inactive"
        => \E e \in trail : e.action = "deactivated" /\ e.about = p

\* Every authorized request is answered, in spite of the row locks.
ChangesAreAnswered ==
    \A c \in Changes : changes[c].pc = "authorized"
        ~> changes[c].pc \in {"done", "refused"}

\* What the API says when it refuses a change: "An organization must have at
\* least one active admin."
OrganizationKeepsAnAdmin == ActiveAdmins # {}
=============================================================================
