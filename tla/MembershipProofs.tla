-------------------------- MODULE MembershipProofs -------------------------
(***************************************************************************)
(* Proofs about Membership, for any people, roles, initial members and     *)
(* number of requests.                                                     *)
(***************************************************************************)
EXTENDS Membership, FiniteSetTheorems, TLAPS

MembershipInv == MembershipTypeOK /\ LocksHold

(***************************************************************************)
(* The steps that leave the members alone, the steps that leave the locks  *)
(* of every request as they are, and the steps that write a row.           *)
(***************************************************************************)
LEMMA StepCases ==
    ASSUME NEW c \in Changes,
           \/ \E p \in People : Authorize(c, p)
           \/ Proceed(c) \/ FailChange(c) \/ CancelDeadlocked(c)
    PROVE  \/ \E p \in People : Authorize(c, p)
           \/ \E p \in People, role \in Roles \cup {None}, deactivate \in BOOLEAN :
                 LoadMember(c, p, role, deactivate)
           \/ LockAdmins(c)
           \/ \E p \in People : LockRow(c, p)
           \/ CheckLastAdmin(c)
           \/ SaveRole(c)
           \/ AuditUpdate(c)
           \/ Deactivate(c)
           \/ FailChange(c)
           \/ CancelDeadlocked(c)
<1> QED BY DEF Proceed

-----------------------------------------------------------------------------
LEMMA InitialMembershipInv == MembershipInit => MembershipInv
<1> SUFFICES ASSUME MembershipInit PROVE MembershipInv
  OBVIOUS
<1>1. MembershipTypeOK
  BY MembershipAssumption
  DEF MembershipInit, MembershipTypeOK, MemberRows, ChangeStates, IdleChange
<1>2. LocksHold
  BY DEF MembershipInit, LocksHold, IdleChange
<1> QED BY <1>1, <1>2 DEF MembershipInv

LEMMA ActiveAdminsAreFinite ==
    /\ IsFiniteSet(ActiveAdmins)
    /\ \A c \in Changes : changes \in [Changes -> ChangeStates] => IsFiniteSet(Counted(c))
<1>1. ActiveAdmins \subseteq People
  BY DEF ActiveAdmins
<1>2. \A c \in Changes : changes \in [Changes -> ChangeStates] => Counted(c) \subseteq People
  BY DEF Counted, ChangeStates
<1> QED BY <1>1, <1>2, MembershipAssumption, FS_Subset

(***************************************************************************)
(* A request that ends has nothing left in its session.                    *)
(***************************************************************************)
LEMMA EndedRequest ==
    ASSUME MembershipTypeOK, NEW c \in Changes, NEW pc \in {"done", "refused"}, Ends(c, pc)
    PROVE  /\ changes' \in [Changes -> ChangeStates]
           /\ changes'[c].pc = pc /\ changes'[c].held = {}
           /\ \A d \in Changes \ {c} : changes'[d] = changes[d]
<1> DEFINE row == [IdleChange EXCEPT !.pc = pc]
<1>1. row \in ChangeStates /\ row.pc = pc /\ row.held = {}
  BY DEF ChangeStates, IdleChange
<1>2. changes' = [changes EXCEPT ![c] = row]
  BY DEF Ends
<1> QED BY <1>1, <1>2 DEF MembershipTypeOK

LEMMA SavedRequest ==
    ASSUME MembershipTypeOK, NEW c \in Changes, SaveRole(c)
    PROVE  /\ changes' \in [Changes -> ChangeStates]
           /\ changes'[c].pc = "saved" /\ changes'[c].held = {}
           /\ \A d \in Changes \ {c} : changes'[d] = changes[d]
<1> DEFINE row == [IdleChange EXCEPT !.pc = "saved", !.target = changes[c].target]
<1>1. changes[c] \in ChangeStates
  BY DEF MembershipTypeOK
<1>2. row \in ChangeStates /\ row.pc = "saved" /\ row.held = {}
  BY <1>1 DEF ChangeStates, IdleChange
<1>3. changes' = [changes EXCEPT ![c] = row]
  BY DEF SaveRole
<1> QED BY <1>2, <1>3 DEF MembershipTypeOK

(***************************************************************************)
(* Types.                                                                  *)
(***************************************************************************)
LEMMA MembershipTypeStep ==
    ASSUME MembershipTypeOK, [MembershipNext]_membershipVars
    PROVE  MembershipTypeOK'
<1>1. CASE UNCHANGED membershipVars
  BY <1>1 DEF membershipVars, MembershipTypeOK
<1>2. ASSUME NEW c \in Changes, NEW p \in People, Authorize(c, p)
      PROVE  MembershipTypeOK'
  <2> DEFINE row == [changes[c] EXCEPT !.pc = "authorized", !.actor = p]
  <2>a. changes[c] \in ChangeStates
    BY DEF MembershipTypeOK
  <2>b. row \in ChangeStates
    BY <2>a DEF ChangeStates
  <2>c. changes' = [changes EXCEPT ![c] = row]
    BY <1>2 DEF Authorize, MembershipTypeOK
  <2>d. row.held = {}
    BY <1>2, <2>a DEF Authorize, MembershipTypeOK, ChangeStates
  <2> QED BY <1>2, <2>b, <2>c, <2>d DEF Authorize, MembershipTypeOK
<1>3. ASSUME NEW c \in Changes, NEW p \in People, NEW role \in Roles \cup {None},
             NEW deactivate \in BOOLEAN, LoadMember(c, p, role, deactivate)
      PROVE  MembershipTypeOK'
  <2>1. CASE Ends(c, "refused")
    BY <1>3, <2>1, EndedRequest DEF LoadMember, MembershipTypeOK
  <2>2. CASE ~Ends(c, "refused")
    <3> DEFINE seen == IF p = changes[c].actor THEN "admin" ELSE members[p].role
               row  == [IdleChange EXCEPT !.pc = "loaded", !.target = p, !.role = role,
                                          !.deactivate = deactivate, !.seen = seen]
    <3>1. seen \in Roles \cup {None}
      BY MembershipAssumption DEF MembershipTypeOK, MemberRows
    <3>2. row \in ChangeStates /\ row.held = {}
      BY <3>1 DEF ChangeStates, IdleChange
    <3>3. changes' = [changes EXCEPT ![c] = row]
      BY <1>3, <2>2 DEF LoadMember, MembershipTypeOK
    <3> QED BY <1>3, <3>2, <3>3 DEF LoadMember, MembershipTypeOK
  <2> QED BY <2>1, <2>2
<1>4. ASSUME NEW c \in Changes, LockAdmins(c)
      PROVE  MembershipTypeOK'
  <2>1. ActiveAdmins \subseteq People
    BY DEF ActiveAdmins
  <2>2. changes'[c] \in ChangeStates /\ changes'[c].held = changes[c].held
        /\ changes'[c].pc \in {"locking", "checked"}
    BY <1>4, <2>1 DEF LockAdmins, ChangeStates, MembershipTypeOK
  <2> QED BY <1>4, <2>2 DEF LockAdmins, MembershipTypeOK
<1>5. ASSUME NEW c \in Changes, NEW p \in People, LockRow(c, p)
      PROVE  MembershipTypeOK'
  <2> DEFINE row == [changes[c] EXCEPT !.wanted = changes[c].wanted \ {p},
                                 !.held = changes[c].held \cup {p}]
  <2>a. changes[c] \in ChangeStates
    BY DEF MembershipTypeOK
  <2>b. row \in ChangeStates
    BY <2>a DEF ChangeStates
  <2>c. changes' = [changes EXCEPT ![c] = row]
    BY <1>5 DEF LockRow, MembershipTypeOK
  <2>d. row.pc = "locking"
    BY <1>5, <2>a DEF LockRow, ChangeStates
  <2> QED BY <1>5, <2>b, <2>c, <2>d DEF LockRow, MembershipTypeOK
<1>6. ASSUME NEW c \in Changes, CheckLastAdmin(c)
      PROVE  MembershipTypeOK'
  <2>1. CASE Ends(c, "refused")
    BY <1>6, <2>1, EndedRequest DEF CheckLastAdmin, MembershipTypeOK
  <2>2. CASE ~Ends(c, "refused")
    <3>1. changes'[c] \in ChangeStates /\ changes'[c].pc = "checked"
      BY <1>6, <2>2 DEF CheckLastAdmin, ChangeStates, MembershipTypeOK
    <3> QED BY <1>6, <2>2, <3>1 DEF CheckLastAdmin, MembershipTypeOK
  <2> QED BY <2>1, <2>2
<1>7. ASSUME NEW c \in Changes, SaveRole(c)
      PROVE  MembershipTypeOK'
  <2>1. changes' \in [Changes -> ChangeStates] /\ changes'[c].held = {}
        /\ \A d \in Changes \ {c} : changes'[d] = changes[d]
    BY <1>7, SavedRequest
  <2>2. changes[c].target \in People => NewRole(c) \in Roles \cup {None}
    BY DEF NewRole, MembershipTypeOK, ChangeStates, MemberRows
  <2>3. members' \in [People -> MemberRows]
    BY <1>7, <2>2 DEF SaveRole, MembershipTypeOK, MemberRows
  <2> QED BY <1>7, <2>1, <2>3 DEF SaveRole, MembershipTypeOK
<1>8. ASSUME NEW c \in Changes, AuditUpdate(c)
      PROVE  MembershipTypeOK'
  BY <1>8, EndedRequest DEF AuditUpdate, MembershipTypeOK
<1>9. ASSUME NEW c \in Changes, Deactivate(c)
      PROVE  MembershipTypeOK'
  <2>1. changes' \in [Changes -> ChangeStates] /\ changes'[c].held = {}
        /\ \A d \in Changes \ {c} : changes'[d] = changes[d]
    BY <1>9, EndedRequest DEF Deactivate
  <2>2. changes[c].target \in People => NewRole(c) \in Roles \cup {None}
    BY DEF NewRole, MembershipTypeOK, ChangeStates, MemberRows
  <2>3. members' \in [People -> MemberRows]
    BY <1>9, <2>2 DEF Deactivate, MembershipTypeOK, MemberRows
  <2> QED BY <1>9, <2>1, <2>3 DEF Deactivate, MembershipTypeOK
<1>10. ASSUME NEW c \in Changes, FailChange(c) \/ CancelDeadlocked(c)
       PROVE  MembershipTypeOK'
  BY <1>10, EndedRequest DEF FailChange, CancelDeadlocked, MembershipTypeOK
<1> QED BY <1>1, <1>2, <1>3, <1>4, <1>5, <1>6, <1>7, <1>8, <1>9, <1>10, StepCases
        DEF MembershipNext

(***************************************************************************)
(* Locks: a step that writes a row writes one that no other request holds, *)
(* and one that writes nothing leaves the row as it is.                    *)
(***************************************************************************)
LEMMA WritesMissTheLocks ==
    ASSUME MembershipInv, NEW c \in Changes, SaveRole(c) \/ Deactivate(c)
    PROVE  \A p \in People :
              p # changes[c].target \/ (\E d \in Changes \ {c} : p \in changes[d].held)
              => members'[p] = members[p]
<1> SUFFICES ASSUME NEW p \in People,
                    p # changes[c].target \/ (\E d \in Changes \ {c} : p \in changes[d].held)
             PROVE  members'[p] = members[p]
  OBVIOUS
<1>1. members \in [People -> MemberRows]
  BY DEF MembershipInv, MembershipTypeOK
<1>2. CASE p # changes[c].target
  BY <1>1, <1>2 DEF SaveRole, Deactivate
<1>3. CASE p = changes[c].target /\ \E d \in Changes \ {c} : p \in changes[d].held
  <2>1. LockedByAnother(c, changes[c].target)
    BY <1>3 DEF LockedByAnother
  <2>2. SaveRole(c) /\ ~Writes(c)
    BY <2>1 DEF SaveRole, Deactivate
  <2>3. NewRole(c) = members[p].role
    BY <1>3, <2>2 DEF Writes, NewRole
  <2> QED BY <1>1, <1>3, <2>2, <2>3 DEF SaveRole, MemberRows
<1> QED BY <1>2, <1>3

\* A request that neither moves nor loses a lock, nor has a locked row
\* written, still counts what it counted.
LEMMA CountStays ==
    ASSUME NEW d \in Changes,
           MembershipTypeOK,
           changes'[d] = changes[d],
           \A p \in changes[d].held : members'[p] = members[p]
    PROVE  Counted(d)' = Counted(d) /\ EndsAdmin(d)' = EndsAdmin(d)
<1> QED BY DEF Counted, EndsAdmin, IsActiveAdmin

LEMMA LocksStep ==
    ASSUME MembershipInv, [MembershipNext]_membershipVars
    PROVE  LocksHold'
<1> USE DEF MembershipInv
<1>0. \A d \in Changes : changes[d].held \subseteq People
  BY DEF MembershipTypeOK, ChangeStates
<1>1. CASE UNCHANGED membershipVars
  BY <1>1 DEF membershipVars, LocksHold, Counted, EndsAdmin, IsActiveAdmin
<1>2. ASSUME NEW c \in Changes,
             \A d \in Changes \ {c} : changes'[d] = changes[d],
             changes'[c].held \subseteq changes[c].held,
             changes'[c].pc = "checked" /\ EndsAdmin(c)' => Cardinality(Counted(c))' > 1,
             \A d \in Changes \ {c} : \A p \in changes[d].held : members'[p] = members[p]
      PROVE  LocksHold'
  <2>1. \A d, e \in Changes : d # e => changes'[d].held \cap changes'[e].held = {}
    BY <1>2 DEF LocksHold
  <2>2. ASSUME NEW d \in Changes \ {c}, changes'[d].pc = "checked", EndsAdmin(d)'
        PROVE  Cardinality(Counted(d))' > 1
    <3>1. Counted(d)' = Counted(d) /\ EndsAdmin(d)' = EndsAdmin(d)
      BY <1>2, CountStays
    <3>2. changes[d].pc = "checked" /\ EndsAdmin(d)
      BY <1>2, <2>2, <3>1
    <3> QED BY <3>1, <3>2 DEF LocksHold
  <2> QED BY <1>2, <2>1, <2>2 DEF LocksHold
<1>3. ASSUME NEW c \in Changes, NEW p \in People, Authorize(c, p)
      PROVE  LocksHold'
  <2>1. changes'[c].pc = "authorized" /\ changes'[c].held = changes[c].held
        /\ UNCHANGED members /\ \A d \in Changes \ {c} : changes'[d] = changes[d]
    BY <1>3 DEF Authorize, MembershipTypeOK, ChangeStates
  <2> QED BY <2>1, <1>2
<1>4. ASSUME NEW c \in Changes, NEW p \in People, NEW role \in Roles \cup {None},
             NEW deactivate \in BOOLEAN, LoadMember(c, p, role, deactivate)
      PROVE  LocksHold'
  <2>1. UNCHANGED members /\ \A d \in Changes \ {c} : changes'[d] = changes[d]
    BY <1>4, EndedRequest DEF LoadMember, MembershipTypeOK
  <2>2. changes'[c].pc \in {"loaded", "refused"} /\ changes'[c].held \subseteq changes[c].held
    <3>1. CASE Ends(c, "refused")
      BY <3>1, EndedRequest
    <3>2. CASE ~Ends(c, "refused")
      <4> DEFINE seen == IF p = changes[c].actor THEN "admin" ELSE members[p].role
                 row  == [IdleChange EXCEPT !.pc = "loaded", !.target = p, !.role = role,
                                            !.deactivate = deactivate, !.seen = seen]
      <4>1. row.pc = "loaded" /\ row.held = {}
        BY DEF IdleChange
      <4>2. changes'[c] = row
        BY <1>4, <3>2 DEF LoadMember, MembershipTypeOK
      <4> QED BY <4>1, <4>2
    <3> QED BY <3>1, <3>2
  <2> QED BY <2>1, <2>2, <1>2
<1>5. ASSUME NEW c \in Changes, LockAdmins(c)
      PROVE  LocksHold'
  <2>1. UNCHANGED members /\ (\A d \in Changes \ {c} : changes'[d] = changes[d])
        /\ changes'[c].held = changes[c].held
    BY <1>5 DEF LockAdmins, MembershipTypeOK, ChangeStates
  <2>2. changes'[c].pc = "checked" => ~EndsAdmin(c)'
    BY <1>5 DEF LockAdmins, EndsAdmin, MembershipTypeOK, ChangeStates
  <2> QED BY <2>1, <2>2, <1>2
<1>6. ASSUME NEW c \in Changes, NEW p \in People, LockRow(c, p)
      PROVE  LocksHold'
  <2>1. /\ changes'[c].pc = "locking" /\ changes'[c].held = changes[c].held \cup {p}
        /\ UNCHANGED members /\ \A d \in Changes \ {c} : changes'[d] = changes[d]
    BY <1>6 DEF LockRow, MembershipTypeOK, ChangeStates
  <2>2. \A d \in Changes \ {c} : p \notin changes[d].held
    BY <1>6 DEF LockRow, LockedByAnother
  <2>3. \A d, e \in Changes : d # e => changes'[d].held \cap changes'[e].held = {}
    BY <2>1, <2>2 DEF LocksHold
  <2>4. ASSUME NEW d \in Changes, changes'[d].pc = "checked", EndsAdmin(d)'
        PROVE  Cardinality(Counted(d))' > 1
    <3>1. d # c /\ Counted(d)' = Counted(d) /\ EndsAdmin(d)' = EndsAdmin(d)
          /\ changes[d].pc = "checked"
      BY <2>1, <2>4 DEF Counted, EndsAdmin, IsActiveAdmin
    <3> QED BY <2>4, <3>1 DEF LocksHold
  <2> QED BY <2>3, <2>4 DEF LocksHold
<1>7. ASSUME NEW c \in Changes, CheckLastAdmin(c)
      PROVE  LocksHold'
  <2>1. UNCHANGED members /\ (\A d \in Changes \ {c} : changes'[d] = changes[d])
        /\ changes'[c].held \subseteq changes[c].held
    BY <1>7, EndedRequest DEF CheckLastAdmin, MembershipTypeOK, ChangeStates
  <2>2. ASSUME changes'[c].pc = "checked" PROVE Cardinality(Counted(c))' > 1
    <3>1. ~(Cardinality(Counted(c)) <= 1) /\ changes'[c].held = changes[c].held
      BY <1>7, <2>2, EndedRequest DEF CheckLastAdmin, MembershipTypeOK, ChangeStates
    <3>2. Cardinality(Counted(c)) \in Nat
      BY ActiveAdminsAreFinite, FS_CardinalityType DEF MembershipTypeOK
    <3>3. Counted(c)' = Counted(c)
      BY <2>1, <3>1 DEF Counted, IsActiveAdmin
    <3> QED BY <3>1, <3>2, <3>3
  <2> QED BY <2>1, <2>2, <1>2
<1>8. ASSUME NEW c \in Changes, SaveRole(c) \/ Deactivate(c)
      PROVE  LocksHold'
  <2>1. changes'[c].pc \in {"saved", "done"} /\ changes'[c].held = {}
        /\ \A d \in Changes \ {c} : changes'[d] = changes[d]
    BY <1>8, EndedRequest, SavedRequest DEF Deactivate
  <2>2. \A d \in Changes \ {c} : \A p \in changes[d].held : members'[p] = members[p]
    BY <1>0, <1>8, WritesMissTheLocks
  <2> QED BY <2>1, <2>2, <1>2
<1>9. ASSUME NEW c \in Changes, AuditUpdate(c) \/ FailChange(c) \/ CancelDeadlocked(c)
      PROVE  LocksHold'
  <2>1. changes'[c].pc \in {"done", "refused"} /\ changes'[c].held = {}
        /\ UNCHANGED members /\ \A d \in Changes \ {c} : changes'[d] = changes[d]
    BY <1>9, EndedRequest DEF AuditUpdate, FailChange, CancelDeadlocked
  <2> QED BY <2>1, <1>2
<1> QED BY <1>1, <1>3, <1>4, <1>5, <1>6, <1>7, <1>8, <1>9, StepCases DEF MembershipNext

LEMMA MembershipInvHolds == MembershipSpec => []MembershipInv
<1>1. MembershipInv /\ [MembershipNext]_membershipVars => MembershipInv'
  BY MembershipTypeStep, LocksStep DEF MembershipInv
<1> QED BY <1>1, InitialMembershipInv, PTL DEF MembershipSpec

-----------------------------------------------------------------------------
(***************************************************************************)
(* Tables and requests keep their types, whatever the requests and their   *)
(* order; only a request that is locking or about to write holds a lock.   *)
(***************************************************************************)
THEOREM MembershipTypeCorrect == MembershipSpec => []MembershipTypeOK
<1>1. MembershipInv => MembershipTypeOK
  BY DEF MembershipInv
<1> QED BY <1>1, MembershipInvHolds, PTL

(***************************************************************************)
(* update_user: the administrators a request has locked and counted are    *)
(* still at least two when it writes, however many requests overlap.       *)
(***************************************************************************)
THEOREM LocksAreKept == MembershipSpec => []LocksHold
<1>1. MembershipInv => LocksHold
  BY DEF MembershipInv
<1> QED BY <1>1, MembershipInvHolds, PTL

\* Of two counted administrators one is not the target.
LEMMA AnotherAdmin ==
    ASSUME MembershipInv, NEW c \in Changes, changes[c].pc = "checked", EndsAdmin(c)
    PROVE  \E p \in People : p # changes[c].target /\ IsActiveAdmin(p)
<1>1. Cardinality(Counted(c)) > 1 /\ IsFiniteSet(Counted(c)) /\ Counted(c) \subseteq People
  BY ActiveAdminsAreFinite
  DEF MembershipInv, LocksHold, MembershipTypeOK, Counted, ChangeStates
<1>2. ~(Counted(c) \subseteq {changes[c].target})
  <2> SUFFICES ASSUME Counted(c) \subseteq {changes[c].target} PROVE FALSE
    OBVIOUS
  <2>1. Cardinality({changes[c].target}) = 1 /\ IsFiniteSet({changes[c].target})
    BY FS_Singleton
  <2>2. Cardinality(Counted(c)) <= Cardinality({changes[c].target})
    BY <2>1, FS_Subset
  <2>3. Cardinality(Counted(c)) \in Nat
    BY <1>1, FS_CardinalityType
  <2> QED BY <1>1, <2>1, <2>2, <2>3
<1> QED BY <1>1, <1>2 DEF Counted

(***************************************************************************)
(* update_user: an organization loses its last active administrator only   *)
(* to a request that had loaded its target when it was none.               *)
(***************************************************************************)
THEOREM LastAdminLostToStaleRead == MembershipSpec => OnlyAStaleReadLosesTheAdmin
<1>1. ASSUME MembershipInv, [MembershipNext]_membershipVars,
             ActiveAdmins # {}, ActiveAdmins' = {}
      PROVE  \E c \in Changes : /\ changes[c].pc = "checked"
                                /\ changes'[c].pc # "checked"
                                /\ changes[c].seen # "admin"
  <2>1. members' # members
    BY <1>1 DEF ActiveAdmins, IsActiveAdmin
  <2>2. PICK c \in Changes : SaveRole(c) \/ Deactivate(c)
    BY <1>1, <2>1, StepCases
    DEF MembershipNext, membershipVars, Authorize, LoadMember, LockAdmins, LockRow,
        CheckLastAdmin, AuditUpdate, FailChange, CancelDeadlocked
  <2>3. changes[c].pc = "checked" /\ changes'[c].pc # "checked"
    <3>1. changes[c].pc = "checked"
      BY <2>2 DEF SaveRole, Deactivate
    <3>2. changes'[c].pc \in {"saved", "done"}
      BY <1>1, <2>2, EndedRequest, SavedRequest DEF Deactivate, MembershipInv
    <3> QED BY <3>1, <3>2
  <2>4. ASSUME changes[c].seen = "admin" PROVE FALSE
    <3>1. Writes(c)
      <4> SUFFICES ASSUME ~Writes(c) PROVE members' = members
        BY <2>1
      <4>1. SaveRole(c) /\ NewRole(c) = members[changes[c].target].role
        BY <2>2 DEF Writes, NewRole, Deactivate
      <4> QED BY <1>1, <4>1 DEF SaveRole, MembershipInv, MembershipTypeOK, MemberRows
    <3>2. EndsAdmin(c)
      BY <2>4, <3>1 DEF Writes, EndsAdmin
    <3>3. PICK p \in People : p # changes[c].target /\ IsActiveAdmin(p)
      BY <1>1, <2>3, <3>2, AnotherAdmin
    <3>4. members'[p] = members[p]
      BY <1>1, <2>2, <3>3, WritesMissTheLocks
    <3> QED BY <1>1, <3>3, <3>4 DEF ActiveAdmins, IsActiveAdmin
  <2> QED BY <2>3, <2>4
<1>2. MembershipInv /\ [MembershipNext]_membershipVars
      => [ActiveAdmins # {} /\ ActiveAdmins' = {}
          => \E c \in Changes : /\ changes[c].pc = "checked"
                                /\ changes'[c].pc # "checked"
                                /\ changes[c].seen # "admin"]_membershipVars
  BY <1>1
<1> QED BY <1>2, MembershipInvHolds, PTL DEF MembershipSpec, OnlyAStaleReadLosesTheAdmin

(***************************************************************************)
(* update_user: the stale rows that requests write back never bring a      *)
(* deactivated member to life.                                             *)
(***************************************************************************)
THEOREM DeactivationStays == MembershipSpec => DeactivationIsFinal
<1>1. ASSUME MembershipInv, [MembershipNext]_membershipVars,
             NEW p \in People, members[p].status = "inactive"
      PROVE  members'[p].status = "inactive"
  <2>0. members \in [People -> MemberRows]
    BY <1>1 DEF MembershipInv, MembershipTypeOK
  <2>1. CASE UNCHANGED members
    BY <1>1, <2>1
  <2>2. ASSUME NEW c \in Changes, SaveRole(c)
        PROVE  members'[p].status = "inactive"
    BY <1>1, <2>0, <2>2 DEF SaveRole, MemberRows
  <2>3. ASSUME NEW c \in Changes, Deactivate(c)
        PROVE  members'[p].status = "inactive"
    BY <1>1, <2>0, <2>3 DEF Deactivate, MemberRows
  <2> QED BY <1>1, <2>1, <2>2, <2>3, StepCases
          DEF MembershipNext, membershipVars, Authorize, LoadMember, LockAdmins, LockRow,
              CheckLastAdmin, AuditUpdate, FailChange, CancelDeadlocked
<1>2. MembershipInv /\ [MembershipNext]_membershipVars
      => [\A p \in People : members[p].status = "inactive"
                            => members'[p].status = "inactive"]_membershipVars
  BY <1>1
<1> QED BY <1>2, MembershipInvHolds, PTL DEF MembershipSpec, DeactivationIsFinal

(***************************************************************************)
(* update_user: whoever the requests have deactivated is deactivated in    *)
(* the audit log, because the two are one transaction.                     *)
(***************************************************************************)
THEOREM DeactivationsOnRecord == MembershipSpec => []DeactivationsAreAudited
<1>1. MembershipInit => DeactivationsAreAudited
  BY DEF MembershipInit, DeactivationsAreAudited
<1>2. ASSUME MembershipInv, DeactivationsAreAudited, [MembershipNext]_membershipVars
      PROVE  DeactivationsAreAudited'
  <2>0. members \in [People -> MemberRows]
    BY <1>2 DEF MembershipInv, MembershipTypeOK
  <2>1. CASE UNCHANGED members /\ trail \subseteq trail'
    BY <1>2, <2>1 DEF DeactivationsAreAudited
  <2>2. ASSUME NEW c \in Changes, SaveRole(c)
        PROVE  DeactivationsAreAudited'
    <3>1. \A p \in People : members'[p].status = members[p].status
      BY <2>0, <2>2 DEF SaveRole, MemberRows
    <3> QED BY <1>2, <2>2, <3>1 DEF SaveRole, DeactivationsAreAudited
  <2>3. ASSUME NEW c \in Changes, Deactivate(c)
        PROVE  DeactivationsAreAudited'
    <3>1. \A p \in People \ {changes[c].target} : members'[p] = members[p]
      BY <2>0, <2>3 DEF Deactivate
    <3>2. trail \subseteq trail' /\ MemberEvent("deactivated", c) \in trail'
      BY <2>3 DEF Deactivate
    <3>3. MemberEvent("deactivated", c).action = "deactivated"
          /\ MemberEvent("deactivated", c).about = changes[c].target
      BY DEF MemberEvent
    <3> QED BY <1>2, <3>1, <3>2, <3>3 DEF DeactivationsAreAudited
  <2> QED BY <1>2, <2>1, <2>2, <2>3, StepCases
          DEF MembershipNext, membershipVars, Authorize, LoadMember, LockAdmins, LockRow,
              CheckLastAdmin, AuditUpdate, FailChange, CancelDeadlocked
<1> QED BY <1>1, <1>2, MembershipInvHolds, PTL DEF MembershipSpec
=============================================================================
